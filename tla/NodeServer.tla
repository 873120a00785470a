----------------------------- MODULE NodeServer -----------------------------
(***************************************************************************)
(* The node adapter around the kernel: connections, requests in flight     *)
(* counted per socket, and close(), which stops accepting, ends the idle   *)
(* sockets, and destroys after five seconds what is left. serve() exits    *)
(* when close() resolves. A connection carries one request at a time       *)
(* (HTTP/1.1 without pipelining), and its body arrives before Node's own   *)
(* request timeout. With TLS the sockets that close() knows are not those  *)
(* that count requests: `connection` gives the TCP socket, and             *)
(* `incoming.socket` is the TLS one.                                       *)
(***************************************************************************)
EXTENDS HttpKernel

CONSTANTS
    Conns,
    connOf      \* [Requests -> Conns]: the connection a request comes on

ASSUME ServerAssumption == connOf \in [Requests -> Conns]

VARIABLES
    phase,     \* "serving", "closing" (isShuttingDown), "exited"
    tls,       \* whether the server was given a certificate
    sock,      \* each connection: none, open, ended (by the server) or gone
    active,    \* _activeRequests of incoming.socket
    timer,     \* the timeout of close()
    line,      \* each request as its client sees it
    early      \* history: requests that arrived before the shutdown

serverVars == <<phase, tls, sock, active, timer, line, early>>
vars == <<kernelVars, serverVars>>

\* A request whose response is still to come.
Open == {"reading", "kernel", "streaming"}
InFlight(c) == {r \in Requests : connOf[r] = c /\ line[r] \in Open}
Live == {c \in Conns : sock[c] \in {"open", "ended"}}

Init ==
    /\ KernelInit
    /\ phase = "serving"
    /\ tls \in BOOLEAN
    /\ sock = [c \in Conns |-> "none"]
    /\ active = [c \in Conns |-> 0]
    /\ timer = "off"
    /\ line = [r \in Requests |-> "unsent"]
    /\ early = {}

TypeOK ==
    /\ KernelTypeOK
    /\ phase \in {"serving", "closing", "exited"}
    /\ tls \in BOOLEAN
    /\ sock \in [Conns -> {"none", "open", "ended", "gone"}]
    /\ active = [c \in Conns |-> Cardinality(InFlight(c))]
    /\ timer \in {"off", "armed", "fired"}
    /\ line \in [Requests -> {"unsent", "refused", "answered", "broken", "aborted", "cut"} \cup Open]
    /\ early \subseteq Requests

----------------------------------------------------------------------------
\* The sockets cs stop carrying data: what was in flight on them is `how`.
Lose(cs, state, how) ==
    /\ sock' = [c \in Conns |-> IF c \in cs THEN state ELSE sock[c]]
    /\ line' = [r \in Requests |-> IF connOf[r] \in cs /\ line[r] \in Open THEN how ELSE line[r]]
    /\ active' = [c \in Conns |-> IF c \in cs THEN 0 ELSE active[c]]

Connect(c) ==
    /\ phase = "serving" /\ sock[c] = "none"
    /\ sock' = [sock EXCEPT ![c] = "open"]
    /\ UNCHANGED <<kernelVars, phase, tls, active, timer, line, early>>

\* The headers of a request arrive. During the shutdown the listener answers
\* 503 and the socket ends.
Request(r) ==
    /\ phase # "exited"
    /\ line[r] = "unsent" /\ connOf[r] \in Live /\ InFlight(connOf[r]) = {}
    /\ IF phase = "closing"
       THEN /\ line' = [line EXCEPT ![r] = "refused"]
            /\ sock' = [sock EXCEPT ![connOf[r]] = "ended"]
            /\ UNCHANGED <<active, early>>
       ELSE /\ line' = [line EXCEPT ![r] = "reading"]
            /\ active' = [active EXCEPT ![connOf[r]] = @ + 1]
            /\ early' = early \cup {r}
            /\ UNCHANGED sock
    /\ UNCHANGED <<kernelVars, phase, tls, timer>>

\* The body has been read: kernel.handle().
ToKernel(r) ==
    /\ line[r] = "reading"
    /\ line' = [line EXCEPT ![r] = "kernel"]
    /\ Handle(r)
    /\ UNCHANGED <<phase, tls, sock, active, timer, early>>

\* The kernel goes on also for a client that has left.
KernelStep(r) ==
    /\ phase # "exited"
    /\ Work(r)
    /\ UNCHANGED serverVars

\* writeFetchResponse() of a body with more than one chunk.
Stream(r) ==
    /\ line[r] = "kernel" /\ at[r] = "done"
    /\ line' = [line EXCEPT ![r] = "streaming"]
    /\ UNCHANGED <<kernelVars, phase, tls, sock, active, timer, early>>

\* Mutant: the first response that finishes during the shutdown ends every
\* socket, as server.closeAllConnections() would.
FinishAll(r) ==
    /\ line[r] = "streaming" \/ (line[r] = "kernel" /\ at[r] = "done")
    /\ IF phase = "closing"
       THEN /\ sock' = [c \in Conns |-> IF c \in Live THEN "ended" ELSE sock[c]]
            /\ line' = [q \in Requests |-> IF q = r THEN "answered"
                                           ELSE IF line[q] \in Open THEN "cut" ELSE line[q]]
            /\ active' = [c \in Conns |-> 0]
       ELSE /\ line' = [line EXCEPT ![r] = "answered"]
            /\ active' = [active EXCEPT ![connOf[r]] = @ - 1]
            /\ UNCHANGED sock
    /\ UNCHANGED <<kernelVars, phase, tls, timer, early>>

\* Mutant: a finished response is not counted off.
FinishCounted(r) ==
    /\ line[r] = "streaming" \/ (line[r] = "kernel" /\ at[r] = "done")
    /\ line' = [line EXCEPT ![r] = "answered"]
    /\ UNCHANGED <<kernelVars, phase, tls, sock, active, timer, early>>

\* The response is complete: `finish` counts the request off, and during the
\* shutdown ends a socket that has none left.
Finish(r) ==
    LET c == connOf[r] IN
    /\ line[r] = "streaming" \/ (line[r] = "kernel" /\ at[r] = "done")
    /\ line' = [line EXCEPT ![r] = "answered"]
    /\ active' = [active EXCEPT ![c] = @ - 1]
    /\ sock' = IF phase = "closing" /\ active'[c] = 0
               THEN [sock EXCEPT ![c] = "ended"] ELSE sock
    /\ UNCHANGED <<kernelVars, phase, tls, timer, early>>

\* The body's stream fails: outgoing.destroy().
StreamFails(r) ==
    /\ line[r] = "streaming"
    /\ Lose({connOf[r]}, "gone", "broken")
    /\ UNCHANGED <<kernelVars, phase, tls, timer, early>>

\* The client closes the connection, or Node does with an idle one; `close`
\* counts off what was in flight.
ClientLeaves(c) ==
    /\ c \in Live
    /\ Lose({c}, "gone", "aborted")
    /\ UNCHANGED <<kernelVars, phase, tls, timer, early>>

\* Mutant: the timer waits for requests only.
CloseBusy ==
    /\ phase = "serving" /\ phase' = "closing"
    /\ Lose({c \in Live : tls \/ active[c] = 0}, "ended", "cut")
    /\ timer' = IF \E c \in Live : active[c] > 0 THEN "armed" ELSE "off"
    /\ UNCHANGED <<kernelVars, tls, early>>

\* SIGTERM or SIGINT: close().
Close ==
    /\ phase = "serving" /\ phase' = "closing"
    /\ Lose({c \in Live : tls \/ active[c] = 0}, "ended", "cut")
    /\ timer' = IF Live # {} THEN "armed" ELSE "off"
    /\ UNCHANGED <<kernelVars, tls, early>>

TimerFires ==
    /\ timer = "armed" /\ timer' = "fired"
    /\ Lose(Live, "gone", "cut")
    /\ UNCHANGED <<kernelVars, phase, tls, early>>

\* The last socket is gone: close() resolves, clears the timer, and the
\* process exits.
Exit ==
    /\ phase = "closing" /\ Live = {}
    /\ phase' = "exited"
    /\ timer' = IF timer = "armed" THEN "off" ELSE timer
    /\ UNCHANGED <<kernelVars, tls, sock, active, line, early>>

Next ==
    \/ \E c \in Conns : Connect(c) \/ ClientLeaves(c)
    \/ \E r \in Requests :
          \/ Request(r) \/ ToKernel(r) \/ KernelStep(r)
          \/ Stream(r) \/ Finish(r) \/ StreamFails(r)
    \/ Close \/ TimerFires \/ Exit

Spec == Init /\ [][Next]_vars

\* Timers fire and the event loop runs. Nothing is assumed of handlers,
\* bodies and clients.
FairSpec == Spec /\ WF_vars(TimerFires) /\ WF_vars(Exit)

----------------------------------------------------------------------------
(***************************************************************************)
(* Draining: over plain HTTP a request that arrived before the shutdown is *)
(* cut off by nothing but the five-second timer, however requests, idle    *)
(* connections and the shutdown interleave.                                *)
(***************************************************************************)
NoCutOff ==
    \A r \in early : line[r] = "cut" => tls \/ timer = "fired"

(***************************************************************************)
(* The shutdown comes to an end, also when a handler never returns, a body *)
(* never arrives, or a client never closes its connection.                 *)
(***************************************************************************)
ShutdownEnds == phase = "closing" ~> phase = "exited"

=============================================================================
