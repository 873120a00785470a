------------------------------ MODULE CacheLock -----------------------------
(***************************************************************************)
(* A cache lock (CacheLock) under several clients. The lock is one cache   *)
(* entry that holds the owner's id: acquire() is the store's add(), and    *)
(* release() is a get() followed by a forget(), with an await between the  *)
(* two. With seconds > 0 the entry also goes away by itself; a lock made   *)
(* without is one whose entry never expires.                               *)
(*                                                                         *)
(* The Redis, Memcached and Upstash stores add in one command; the array,  *)
(* file and DynamoDB stores add by has() and then put() (AtomicAdd FALSE). *)
(* A client is one lock object used for one get() or block() call.         *)
(***************************************************************************)
EXTENDS Naturals, FiniteSets

CONSTANTS
    Clients,
    NoOwner,    \* absence of the entry
    Blocking,   \* the clients that call block(); the others call get()
    AtomicAdd   \* whether the store's add() is one command

ASSUME LockAssumption ==
    /\ IsFiniteSet(Clients) /\ NoOwner \notin Clients
    /\ Blocking \subseteq Clients
    /\ AtomicAdd \in BOOLEAN

VARIABLES
    entry,    \* the owner stored under the key
    pc,       \* where each client is in get() or block()
    expired   \* history: clients whose entry expired

lockVars == <<entry, pc, expired>>

Holding == {"inside", "releasing", "forgetting"}
Ended == {"done", "refused", "errored", "crashed"}

LockInit ==
    /\ entry = NoOwner
    /\ pc = [c \in Clients |-> "idle"]
    /\ expired = {}

LockTypeOK ==
    /\ entry \in Clients \cup {NoOwner}
    /\ pc \in [Clients -> {"idle", "trying", "putting", "waiting"} \cup Holding \cup Ended]
    /\ expired \subseteq Clients

Goto(c, label) == pc' = [pc EXCEPT ![c] = label]

----------------------------------------------------------------------------
\* get() or block() is called.
Begin(c) ==
    /\ pc[c] = "idle"
    /\ Goto(c, "trying")
    /\ UNCHANGED <<entry, expired>>

\* Mutant: add() is a put().
AttemptOverwrites(c) ==
    /\ pc[c] = "trying"
    /\ entry' = c
    /\ Goto(c, "inside")
    /\ UNCHANGED expired

\* add() as one command: SET with NX.
AddAtOnce(c) ==
    /\ AtomicAdd
    /\ pc[c] = "trying" /\ entry = NoOwner
    /\ entry' = c
    /\ Goto(c, "inside")

\* add() as has(), and a put() when that found nothing.
AddInTwo(c) ==
    /\ ~AtomicAdd
    /\ \/ /\ pc[c] = "trying" /\ entry = NoOwner
          /\ Goto(c, "putting")
          /\ UNCHANGED entry
       \/ /\ pc[c] = "putting"
          /\ entry' = c
          /\ Goto(c, "inside")

\* acquire(): the store's add(), which refuses when there is an entry.
Attempt(c) ==
    /\ \/ AddAtOnce(c)
       \/ AddInTwo(c)
       \/ pc[c] = "trying" /\ entry # NoOwner /\ Goto(c, "waiting") /\ UNCHANGED entry
    /\ UNCHANGED expired

\* block(): the sleep is over and the deadline has not passed.
Retry(c) ==
    /\ pc[c] = "waiting" /\ c \in Blocking
    /\ Goto(c, "trying")
    /\ UNCHANGED <<entry, expired>>

\* Mutant: who was refused forgets the key all the same.
GiveUpForgets(c) ==
    /\ pc[c] = "waiting"
    /\ entry' = NoOwner
    /\ Goto(c, "refused")
    /\ UNCHANGED expired

\* Mutant: the deadline is looked at only when the lock is free.
GiveUpFree(c) ==
    /\ pc[c] = "waiting" /\ entry = NoOwner
    /\ Goto(c, "refused")
    /\ UNCHANGED <<entry, expired>>

\* LockTimeoutError of block(), LockAcquisitionError of get().
GiveUp(c) ==
    /\ pc[c] = "waiting"
    /\ Goto(c, "refused")
    /\ UNCHANGED <<entry, expired>>

\* The callback resolves or rejects: `finally` releases either way.
CallbackEnds(c) ==
    /\ pc[c] = "inside"
    /\ Goto(c, "releasing")
    /\ UNCHANGED <<entry, expired>>

\* release(): get(), and the comparison of the owner.
ReleaseGet(c) ==
    /\ pc[c] = "releasing"
    /\ Goto(c, IF entry = c THEN "forgetting" ELSE "done")
    /\ UNCHANGED <<entry, expired>>

\* Mutant: release() returns without the forget().
ForgetNothing(c) ==
    /\ pc[c] = "forgetting"
    /\ Goto(c, "done")
    /\ UNCHANGED <<entry, expired>>

\* release(): forget() of the key, whoever owns it by now.
Forget(c) ==
    /\ pc[c] = "forgetting"
    /\ entry' = NoOwner
    /\ Goto(c, "done")
    /\ UNCHANGED expired

\* A call of the store rejects, and get() or block() with it. An add() may
\* have been applied before its reply was lost.
StoreFails(c) ==
    /\ pc[c] \in {"trying", "putting", "releasing", "forgetting"}
    /\ Goto(c, "errored")
    /\ \/ UNCHANGED entry
       \/ /\ \/ pc[c] = "trying" /\ AtomicAdd /\ entry = NoOwner
             \/ pc[c] = "putting"
          /\ entry' = c
    /\ UNCHANGED expired

\* A process ends with the clients cs in it.
Crash(cs) ==
    /\ \E c \in cs : pc[c] \notin Ended
    /\ pc' = [c \in Clients |-> IF c \in cs /\ pc[c] \notin Ended THEN "crashed" ELSE pc[c]]
    /\ UNCHANGED <<entry, expired>>

\* Mutant: an absent entry expires.
ExpireAbsent ==
    /\ expired' = expired \cup {entry}
    /\ entry' = NoOwner
    /\ UNCHANGED pc

\* The time to live of the entry passes.
Expire ==
    /\ entry # NoOwner
    /\ expired' = expired \cup {entry}
    /\ entry' = NoOwner
    /\ UNCHANGED pc

Acquiring(c) == Attempt(c) \/ Retry(c)
Releasing(c) == ReleaseGet(c) \/ Forget(c)

----------------------------------------------------------------------------
(* The lock on its own *)

ClientStep(c) ==
    Begin(c) \/ Acquiring(c) \/ GiveUp(c) \/ CallbackEnds(c) \/ Releasing(c)

LockNext ==
    \/ \E c \in Clients : ClientStep(c) \/ StoreFails(c)
    \/ \E cs \in SUBSET Clients : Crash(cs)
    \/ Expire

LockSpec == LockInit /\ [][LockNext]_lockVars

----------------------------------------------------------------------------
Insiders == {c \in Clients : pc[c] = "inside"}

(***************************************************************************)
(* Mutual exclusion: until a time to live has passed, the callbacks of two *)
(* clients never run at once, whatever fails or crashes.                   *)
(***************************************************************************)
Exclusive == expired = {} => \A c, d \in Insiders : c = d

(***************************************************************************)
(* Every expiry lets in at most one client too many, also when release()   *)
(* found its own entry, the entry expired, and forget() then deletes the   *)
(* entry of the next owner.                                                *)
(***************************************************************************)
BoundedOverlap == Cardinality(Insiders) <= 1 + Cardinality(expired)

(***************************************************************************)
(* The entry is left behind only by a crash or an error of the store: a    *)
(* get() or block() that ended normally, or was refused, owns nothing.     *)
(***************************************************************************)
LeaksOnlyByFault ==
    \A c \in Clients : entry = c => pc[c] \in Holding \cup {"errored", "crashed"}

=============================================================================
