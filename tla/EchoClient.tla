----------------------------- MODULE EchoClient -----------------------------
(***************************************************************************)
(* One page's Echo over a WebSocketConnector, against the hub. A channel   *)
(* is listened to at most once and may be left later. subscribe() is one   *)
(* step when the channel is public, and two around the authorization of a  *)
(* guarded one; the loops of the connector and of Echo run as tasks that   *)
(* may interleave at every iteration, an iteration taking any of the       *)
(* channels it has left.                                                   *)
(*                                                                         *)
(* connect() makes a new socket whenever the current one is not open, and  *)
(* the old one stays: its `connected` and its `close` are handled like     *)
(* those of the current one. What the page sends takes effect in the hub   *)
(* at once, since nothing the hub answers is read by the page. The         *)
(* authorization endpoint answers and never refuses.                       *)
(***************************************************************************)
EXTENDS BroadcastHub

CONSTANTS MaxDrops      \* bound: connections that break

ASSUME EchoAssumption == Sockets = 1 .. Cardinality(Sockets) /\ MaxDrops \in Nat

VARIABLES
    link,        \* readyState of every socket
    greeted,     \* sockets whose `connected` was handled
    cur,         \* this.socket, or 0
    sid,         \* this._socketId, or 0
    subscribed,  \* the connector's set of channels
    pending,     \* pendingSubscriptions
    bound,       \* channels with a binding for their listener
    page,        \* whether a channel is kept in Echo's table
    joined,      \* channels whose EchoChannel is subscribed
    timer,       \* reconnectTimer is set
    drops,       \* number of connections that broke
    task,        \* the subscriptions under way
    late         \* an answer was for another socket than the current one

echoVars ==
    <<link, greeted, cur, sid, subscribed, pending, bound, page, joined, timer, drops, task, late>>
vars == <<hubVars, echoVars>>

None == "none"

ASSUME NoneAssumption == None \notin Channels

\* The loops: resubscribeChannels() and flushPendingSubscriptions() of every
\* `connected`, resubscribeAll() of every reconnect, and subscribe() of the
\* channels.
Tasks == ({"channels", "flush"} \X Sockets) \cup ({"all"} \X (1 .. MaxDrops))
             \cup ({"listen"} \X Channels)

\* A task: the channels it has left, the one it authorizes, and for whom.
Idle == [left |-> {}, asks |-> None, as |-> 0]

Init ==
    /\ HubInit
    /\ link = [s \in Sockets |-> "unused"]
    /\ greeted = {}
    /\ cur = 0 /\ sid = 0
    /\ subscribed = {} /\ pending = {} /\ bound = {} /\ joined = {}
    /\ page = [ch \in Channels |-> "new"]
    /\ timer = FALSE
    /\ drops = 0
    /\ task = [t \in Tasks |-> Idle]
    /\ late = FALSE

TypeOK ==
    /\ HubTypeOK
    /\ link \in [Sockets -> {"unused", "connecting", "open", "closed"}]
    /\ greeted \subseteq {s \in Sockets : link[s] \in {"open", "closed"}}
    /\ cur \in Sockets \cup {0}
    /\ sid \in {s \in greeted : link[s] = "open"} \cup {0}
    /\ subscribed \subseteq Channels /\ pending \subseteq Channels /\ bound \subseteq Channels
    /\ page \in [Channels -> {"new", "kept", "left"}] /\ joined \subseteq Channels
    /\ timer \in BOOLEAN
    /\ drops \in 0 .. MaxDrops /\ late \in BOOLEAN
    /\ task \in [Tasks -> [left : SUBSET Channels, asks : Channels \cup {None},
                           as : Sockets \cup {0}]]

----------------------------------------------------------------------------
Kept == {ch \in Channels : page[ch] = "kept"}
Active(t) == task[t] # Idle

\* A loop that waits for no answer goes on before the page handles anything
\* else; the loops interleave with each other, at their awaits.
Quiet == \A t \in Tasks : Active(t) => task[t].as # 0

IsOpen == cur # 0 /\ link[cur] = "open"

\* connect(): nothing when the current socket is open, else one more socket.
Connect ==
    IF IsOpen THEN UNCHANGED <<link, cur>>
    ELSE \E s \in Sockets :
            /\ link[s] = "unused" /\ \A q \in 1 .. s - 1 : link[q] # "unused"
            /\ link' = [link EXCEPT ![s] = "connecting"]
            /\ cur' = s

\* subscribe() from the send() on, which drops what it cannot send.
Announce(ch, as) ==
    /\ IF IsOpen THEN HubSubscribe(cur, ch, as) ELSE UNCHANGED hubVars
    /\ subscribed' = subscribed \cup {ch}

\* EchoChannel.subscribe() once the connector's has returned; the other
\* tasks call the connector directly.
Subscribed(t, ch) ==
    IF t[1] \in {"channels", "listen"}
    THEN joined' = joined \cup {ch} /\ bound' = bound \cup {ch}
    ELSE UNCHANGED <<joined, bound>>

\* unsubscribe() of the connector, of a channel in `subscribed`.
Unsubscribe(ch) ==
    /\ IF IsOpen THEN HubUnsubscribe(cur, ch) ELSE UNCHANGED hubVars
    /\ subscribed' = subscribed \ {ch}
    /\ bound' = bound \ {ch}

\* subscribe() of the connector in task t, which has the channels `left`
\* after it; the others are as in `tasks`.
Subscribe(tasks, t, ch, left) ==
    LET asks == sid # 0 /\ ch \notin subscribed /\ ch \in Guarded IN
    /\ Connect
    /\ task' = [tasks EXCEPT ![t] = IF asks THEN [left |-> left, asks |-> ch, as |-> sid]
                                   ELSE [Idle EXCEPT !.left = left]]
    /\ pending' = IF sid = 0 THEN pending \cup {ch} ELSE pending
    /\ IF sid # 0 /\ ch \notin subscribed /\ ch \notin Guarded THEN Announce(ch, sid)
       ELSE UNCHANGED <<hubVars, subscribed>>
    /\ IF asks THEN UNCHANGED <<joined, bound>> ELSE Subscribed(t, ch)

\* The token for the socket id of then arrives.
Authorized(t) ==
    LET ch == task[t].asks IN
    /\ Quiet /\ ch # None /\ task[t].as # 0
    /\ Announce(ch, task[t].as)
    /\ Subscribed(t, ch)
    /\ task' = [task EXCEPT ![t].asks = None, ![t].as = 0]
    /\ late' = (late \/ task[t].as # cur)
    /\ UNCHANGED <<link, greeted, cur, sid, pending, page, timer, drops>>

----------------------------------------------------------------------------
\* flushPendingSubscriptions() and resubscribeAll(): one iteration.
FlushNext(t) ==
    /\ t[1] \in {"flush", "all"} /\ task[t].asks = None
    /\ \E ch \in task[t].left : Subscribe(task, t, ch, task[t].left \ {ch})
    /\ UNCHANGED <<greeted, sid, page, timer, drops, late>>

\* Mutant: resubscribe() does not forget that the channel was subscribed.
ResubscribeStill(t) ==
    /\ t[1] = "channels" /\ task[t].asks = None
    /\ \E ch \in task[t].left :
          /\ task' = [task EXCEPT ![t] = [left |-> @.left \ {ch}, asks |-> ch, as |-> 0]]
          /\ IF ch \in joined \cap subscribed THEN Unsubscribe(ch)
             ELSE UNCHANGED <<hubVars, subscribed, bound>>
    /\ UNCHANGED <<link, greeted, cur, sid, pending, page, joined, timer, drops, late>>

\* resubscribeChannels(), resubscribe() of the next channel: it unsubscribes,
\* and then subscribes unless somebody else has.
Resubscribe(t) ==
    /\ t[1] = "channels" /\ task[t].asks = None
    /\ \E ch \in task[t].left :
          /\ task' = [task EXCEPT ![t] = [left |-> @.left \ {ch}, asks |-> ch, as |-> 0]]
          /\ joined' = joined \ {ch}
          /\ IF ch \in joined \cap subscribed THEN Unsubscribe(ch)
             ELSE UNCHANGED <<hubVars, subscribed, bound>>
    /\ UNCHANGED <<link, greeted, cur, sid, pending, page, timer, drops, late>>

SubscribeAgain(t) ==
    /\ task[t].asks # None /\ task[t].as = 0
    /\ IF task[t].asks \in joined
       THEN /\ task' = [task EXCEPT ![t].asks = None]
            /\ UNCHANGED <<hubVars, link, cur, pending, subscribed, joined, bound>>
       ELSE Subscribe(task, t, task[t].asks, task[t].left)
    /\ UNCHANGED <<greeted, sid, page, timer, drops, late>>

----------------------------------------------------------------------------
(* What the page does *)

\* The loops over Echo's table that are under way come to a new channel too.
Listen(ch) ==
    /\ Quiet /\ page[ch] = "new"
    /\ page' = [page EXCEPT ![ch] = "kept"]
    /\ LET others == [t \in Tasks |-> IF t[1] = "channels" /\ Active(t)
                                      THEN [task[t] EXCEPT !.left = @ \cup {ch}]
                                      ELSE task[t]]
       IN Subscribe(others, <<"listen", ch>>, ch, {})
    /\ UNCHANGED <<greeted, sid, timer, drops, late>>

\* leave(): nothing is unsubscribed while the channel is subscribing.
Leave(ch) ==
    /\ Quiet /\ page[ch] = "kept"
    /\ page' = [page EXCEPT ![ch] = "left"]
    /\ joined' = joined \ {ch}
    /\ IF ch \in joined \cap subscribed THEN Unsubscribe(ch)
       ELSE UNCHANGED <<hubVars, subscribed, bound>>
    /\ task' = [t \in Tasks |-> IF t[1] = "channels" THEN [task[t] EXCEPT !.left = @ \ {ch}]
                                ELSE task[t]]
    /\ UNCHANGED <<link, greeted, cur, sid, pending, timer, drops, late>>

----------------------------------------------------------------------------
(* Sockets *)

\* The hub accepts the connection, and the page's socket opens.
Open(s) ==
    /\ Quiet /\ link[s] = "connecting"
    /\ link' = [link EXCEPT ![s] = "open"]
    /\ Upgrade(s)
    /\ UNCHANGED <<greeted, cur, sid, subscribed, pending, bound, page, joined, timer, drops, task, late>>

\* `connected` arrives on some socket.
Connected(s) ==
    /\ Quiet /\ link[s] = "open" /\ s \notin greeted
    /\ greeted' = greeted \cup {s}
    /\ sid' = s
    /\ pending' = {}
    /\ task' = [task EXCEPT ![<<"flush", s>>].left = pending, ![<<"channels", s>>].left = Kept]
    /\ UNCHANGED <<hubVars, link, cur, subscribed, bound, page, joined, timer, drops, late>>

\* Mutant: `close` leaves the socket id.
DropQuietly(s) ==
    /\ Quiet /\ link[s] \in {"connecting", "open"} /\ drops < MaxDrops
    /\ link' = [link EXCEPT ![s] = "closed"]
    /\ timer' = TRUE
    /\ drops' = drops + 1
    /\ UNCHANGED <<hubVars, greeted, cur, sid, subscribed, pending, bound, page, joined, task, late>>

\* A connection breaks, or is not made: `close` on some socket.
Drop(s) ==
    /\ Quiet /\ link[s] \in {"connecting", "open"} /\ drops < MaxDrops
    /\ link' = [link EXCEPT ![s] = "closed"]
    /\ sid' = 0
    /\ timer' = TRUE
    /\ drops' = drops + 1
    /\ UNCHANGED <<hubVars, greeted, cur, subscribed, pending, bound, page, joined, task, late>>

\* The hub's side of it, unless the socket had an error.
HubCloses(s) ==
    /\ link[s] = "closed" /\ s \in clients
    /\ RemoveClient(s)
    /\ UNCHANGED echoVars

\* The reconnect timer: connect(), then resubscribeAll().
Reconnect ==
    /\ Quiet /\ timer /\ timer' = FALSE
    /\ Connect
    /\ subscribed' = {}
    /\ task' = [task EXCEPT ![<<"all", drops>>].left = subscribed]
    /\ UNCHANGED <<hubVars, greeted, sid, pending, bound, page, joined, drops, late>>

Next ==
    \/ \E ch \in Channels : Listen(ch) \/ Leave(ch)
    \/ \E s \in Sockets : Open(s) \/ Connected(s) \/ Drop(s) \/ HubCloses(s)
    \/ \E t \in Tasks : FlushNext(t) \/ Resubscribe(t) \/ SubscribeAgain(t) \/ Authorized(t)
    \/ Reconnect

Spec == Init /\ [][Next]_vars

----------------------------------------------------------------------------
Settled ==
    /\ \A t \in Tasks : ~Active(t)
    /\ ~timer /\ IsOpen /\ sid = cur

(***************************************************************************)
(* When the page is connected and nothing is under way, every channel it   *)
(* keeps is subscribed to in the hub on the socket it uses, and its        *)
(* listener is bound: after any order of listening, breaking connections   *)
(* and reconnecting, with the loops of the connector and of Echo working   *)
(* on the same channels. Except after an authorization that came for       *)
(* another socket than the current one, whose token the hub refuses.       *)
(***************************************************************************)
HeardWhenSettled ==
    Settled /\ ~late => Kept \subseteq channels[cur] \cap subscribed \cap bound

=============================================================================
