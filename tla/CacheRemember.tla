---------------------------- MODULE CacheRemember ---------------------------
(***************************************************************************)
(* Cache.remember() of one key by several processes over a cache lock.     *)
(* A call that misses shares the computation its process already has under *)
(* way, or starts one: take the lock `remember:key`, look again, compute,  *)
(* store, release. When the lock or the computation fails the call looks   *)
(* in the cache once more before it rejects.                               *)
(*                                                                         *)
(* EXTENDS CacheLock: a lock client is a call that computes, and every     *)
(* step of its lock is a step of CacheLock. A value is named by the call   *)
(* that computed it. Callbacks return something other than null.           *)
(***************************************************************************)
EXTENDS CacheLock

CONSTANTS
    Processes,
    procOf      \* [Clients -> Processes]: the process a call is made in

ASSUME RememberAssumption ==
    /\ procOf \in [Clients -> Processes]
    /\ Blocking = Clients

VARIABLES
    step,     \* where each call is in remember()
    inner,    \* where each call is in the callback it gave to block()
    result,   \* the value each call has in hand
    leader,   \* the call whose computation a call shares
    pending,  \* [Processes -> the call in pendingRemember]
    down,     \* processes that ended
    cached,   \* the value in the cache
    stored,   \* history: calls that stored the value they computed
    lapsed    \* history: a value left the cache

rememberVars == <<step, inner, result, leader, pending, down, cached, stored, lapsed>>
vars == <<lockVars, rememberVars>>

Absent == NoOwner

Settled == {"answered", "rejected"}

Init ==
    /\ LockInit
    /\ step = [c \in Clients |-> "new"]
    /\ inner = [c \in Clients |-> "none"]
    /\ result = [c \in Clients |-> Absent]
    /\ leader = [c \in Clients |-> Absent]
    /\ pending = [p \in Processes |-> Absent]
    /\ down = {}
    /\ cached = Absent
    /\ stored = {}
    /\ lapsed = FALSE

TypeOK ==
    /\ LockTypeOK
    /\ step \in [Clients -> {"new", "missed", "sharing", "leading", "fallback"} \cup Settled]
    /\ inner \in [Clients -> {"none", "checking", "computing", "storing", "returned", "threw"}]
    /\ result \in [Clients -> Clients \cup {Absent}]
    /\ leader \in [Clients -> Clients \cup {Absent}]
    /\ pending \in [Processes -> Clients \cup {Absent}]
    /\ down \subseteq Processes
    /\ cached \in Clients \cup {Absent}
    /\ stored \subseteq Clients
    /\ lapsed \in BOOLEAN

Alive(c) == procOf[c] \notin down

Advance(c, label) == step' = [step EXCEPT ![c] = label]

At(c, label) == Alive(c) /\ step[c] = label

----------------------------------------------------------------------------
(* remember() *)

\* The get() of the value.
Look(c) ==
    /\ At(c, "new")
    /\ IF cached # Absent
       THEN Advance(c, "answered") /\ result' = [result EXCEPT ![c] = cached]
       ELSE Advance(c, "missed") /\ UNCHANGED result
    /\ UNCHANGED <<lockVars, inner, leader, pending, down, cached, stored, lapsed>>

\* pendingRemember has a computation: its promise is returned.
Share(c) ==
    /\ At(c, "missed")
    /\ pending[procOf[c]] # Absent
    /\ leader' = [leader EXCEPT ![c] = pending[procOf[c]]]
    /\ Advance(c, "sharing")
    /\ UNCHANGED <<lockVars, inner, result, pending, down, cached, stored, lapsed>>

\* Mutant: the computation under way is not looked up.
LeadAnyway(c) ==
    /\ At(c, "missed")
    /\ pending' = [pending EXCEPT ![procOf[c]] = c]
    /\ Begin(c)
    /\ Advance(c, "leading")
    /\ UNCHANGED <<inner, result, leader, down, cached, stored, lapsed>>

\* Otherwise this call computes, from here in rememberWithLock().
Lead(c) ==
    /\ At(c, "missed")
    /\ pending[procOf[c]] = Absent
    /\ pending' = [pending EXCEPT ![procOf[c]] = c]
    /\ Begin(c)
    /\ Advance(c, "leading")
    /\ UNCHANGED <<inner, result, leader, down, cached, stored, lapsed>>

\* The shared promise settles.
ShareSettles(c) ==
    /\ At(c, "sharing")
    /\ step[leader[c]] \in Settled
    /\ Advance(c, step[leader[c]])
    /\ result' = [result EXCEPT ![c] = result[leader[c]]]
    /\ UNCHANGED <<lockVars, inner, leader, pending, down, cached, stored, lapsed>>

----------------------------------------------------------------------------
(* The callback inside block() *)

Inside(c, label) == pc[c] = "inside" /\ inner[c] = label

Acquire(c) ==
    /\ Acquiring(c)
    /\ inner' = [inner EXCEPT ![c] = IF pc'[c] = "inside" THEN "checking" ELSE @]
    /\ UNCHANGED <<step, result, leader, pending, down, cached, stored, lapsed>>

CallbackReturns(c) == CallbackEnds(c) /\ inner' = [inner EXCEPT ![c] = "returned"]

\* Mutant: the value is computed without another look.
RecheckNot(c) ==
    /\ Inside(c, "checking")
    /\ inner' = [inner EXCEPT ![c] = "computing"]
    /\ UNCHANGED <<lockVars, step, result, leader, pending, down, cached, stored, lapsed>>

\* The get() under the lock.
Recheck(c) ==
    /\ Inside(c, "checking")
    /\ \/ /\ cached # Absent
          /\ result' = [result EXCEPT ![c] = cached]
          /\ CallbackReturns(c)
       \/ /\ cached = Absent
          /\ inner' = [inner EXCEPT ![c] = "computing"]
          /\ UNCHANGED <<lockVars, result>>
    /\ UNCHANGED <<step, leader, pending, down, cached, stored, lapsed>>

Compute(c) ==
    /\ Inside(c, "computing")
    /\ inner' = [inner EXCEPT ![c] = "storing"]
    /\ result' = [result EXCEPT ![c] = c]
    /\ UNCHANGED <<lockVars, step, leader, pending, down, cached, stored, lapsed>>

Store(c) ==
    /\ Inside(c, "storing")
    /\ cached' = c
    /\ stored' = stored \cup {c}
    /\ CallbackReturns(c)
    /\ UNCHANGED <<step, result, leader, pending, down, lapsed>>

\* The application's callback throws, or a get() or put() of the store does.
InnerThrows(c) ==
    /\ pc[c] = "inside"
    /\ CallbackEnds(c)
    /\ inner' = [inner EXCEPT ![c] = "threw"]
    /\ UNCHANGED <<step, result, leader, pending, down, cached, stored, lapsed>>

LeaveLock(c) ==
    /\ Releasing(c) \/ GiveUp(c)
    /\ UNCHANGED rememberVars

LockFails(c) == StoreFails(c) /\ UNCHANGED rememberVars

----------------------------------------------------------------------------
(* After block() *)

\* Mutant: a callback that threw counts as one that returned.
AnswerAnyway(c) ==
    /\ At(c, "leading")
    /\ pc[c] = "done" /\ result[c] # Absent
    /\ Advance(c, "answered")
    /\ UNCHANGED <<lockVars, inner, result, leader, pending, down, cached, stored, lapsed>>

Answer(c) ==
    /\ At(c, "leading")
    /\ pc[c] = "done" /\ inner[c] = "returned"
    /\ Advance(c, "answered")
    /\ UNCHANGED <<lockVars, inner, result, leader, pending, down, cached, stored, lapsed>>

\* block() rejected: its callback threw, or the lock timed out or failed.
BlockRejects(c) ==
    /\ At(c, "leading")
    /\ pc[c] \in {"refused", "errored"} \/ (pc[c] = "done" /\ inner[c] = "threw")
    /\ Advance(c, "fallback")
    /\ UNCHANGED <<lockVars, inner, result, leader, pending, down, cached, stored, lapsed>>

\* The catch block looks once more, then rethrows.
FallBack(c) ==
    /\ At(c, "fallback")
    /\ Advance(c, IF cached # Absent THEN "answered" ELSE "rejected")
    /\ result' = [result EXCEPT ![c] = cached]
    /\ UNCHANGED <<lockVars, inner, leader, pending, down, cached, stored, lapsed>>

\* The get() before or after the computation rejects.
GetFails(c) ==
    /\ At(c, "new") \/ At(c, "fallback")
    /\ Advance(c, "rejected")
    /\ UNCHANGED <<lockVars, inner, result, leader, pending, down, cached, stored, lapsed>>

\* Mutant: only a value takes the computation out of pendingRemember.
ClearAnswered(c) ==
    /\ Alive(c) /\ step[c] = "answered"
    /\ pending[procOf[c]] = c
    /\ pending' = [pending EXCEPT ![procOf[c]] = Absent]
    /\ UNCHANGED <<lockVars, step, inner, result, leader, down, cached, stored, lapsed>>

\* The finally of remember(), some microtasks after the computation settled.
ClearPending(c) ==
    /\ Alive(c) /\ step[c] \in Settled
    /\ pending[procOf[c]] = c
    /\ pending' = [pending EXCEPT ![procOf[c]] = Absent]
    /\ UNCHANGED <<lockVars, step, inner, result, leader, down, cached, stored, lapsed>>

----------------------------------------------------------------------------
\* The value expires, or somebody forgets the key.
Lapse ==
    /\ cached # Absent
    /\ cached' = Absent
    /\ lapsed' = TRUE
    /\ UNCHANGED <<lockVars, step, inner, result, leader, pending, down, stored>>

\* A process ends with its calls and its pendingRemember.
CrashProcess(p) ==
    LET calls == {c \in Clients : procOf[c] = p} IN
    /\ p \notin down
    /\ down' = down \cup {p}
    /\ pending' = [pending EXCEPT ![p] = Absent]
    /\ IF \A c \in calls : pc[c] \in Ended THEN UNCHANGED lockVars ELSE Crash(calls)
    /\ UNCHANGED <<step, inner, result, leader, cached, stored, lapsed>>

CallStep(c) ==
    \/ Look(c) \/ Share(c) \/ Lead(c) \/ ShareSettles(c)
    \/ Acquire(c) \/ Recheck(c) \/ Compute(c) \/ Store(c) \/ InnerThrows(c) \/ LeaveLock(c)
    \/ Answer(c) \/ BlockRejects(c) \/ FallBack(c) \/ ClearPending(c)

Next ==
    \/ \E c \in Clients : CallStep(c) \/ LockFails(c) \/ GetFails(c)
    \/ \E p \in Processes : CrashProcess(p)
    \/ Lapse
    \/ Expire /\ UNCHANGED rememberVars

Spec == Init /\ [][Next]_vars

\* Awaits return and callbacks end; block() meets its deadline.
Fairness ==
    \A c \in Clients : WF_vars(CallStep(c)) /\ SF_vars(GiveUp(c) /\ UNCHANGED rememberVars)

FairSpec == Spec /\ Fairness

----------------------------------------------------------------------------
Computing == {c \in Clients : pc[c] = "inside" /\ inner[c] \in {"computing", "storing"}}

(***************************************************************************)
(* A process runs at most one computation of the key at a time, whatever   *)
(* the lock is worth: also when its time to live passes, and with a store  *)
(* whose add() is not one command.                                         *)
(***************************************************************************)
SoleComputation == \A c, d \in Computing : procOf[c] = procOf[d] => c = d

(***************************************************************************)
(* No stampede: while neither the lock nor the value expires, one call of  *)
(* all processes computes and stores the value.                            *)
(***************************************************************************)
StoredOnce == expired = {} /\ ~lapsed => \A c, d \in stored : c = d

(***************************************************************************)
(* A call only ever answers what a completed computation has stored, also  *)
(* when it computed a value itself and could not store it.                 *)
(***************************************************************************)
AnswersAreStored ==
    \A c \in Clients : step[c] = "answered" => result[c] \in stored

(***************************************************************************)
(* Every call settles unless its own process ends: also when the process   *)
(* that holds the lock has ended and leaves it behind for ever, when the   *)
(* lock is never won, and when the computation that is shared fails.       *)
(***************************************************************************)
CallsSettle == \A c \in Clients : step[c] = "missed" ~> step[c] \in Settled \/ ~Alive(c)

(***************************************************************************)
(* A computation that has settled leaves pendingRemember, also one that    *)
(* was rejected: later calls compute again instead of sharing an old       *)
(* rejection for ever.                                                     *)
(***************************************************************************)
SettledLeave ==
    \A c \in Clients :
        step[c] \in Settled /\ pending[procOf[c]] = c ~> pending[procOf[c]] # c

=============================================================================
