------------------------ MODULE CacheRemember_proofs ------------------------
(***************************************************************************)
(* The lock and remember(), for every set of processes and calls.          *)
(*                                                                         *)
(* The lock, over a store whose add() is one command. The argument counts  *)
(* strays: clients that act as owners although the entry is not theirs.    *)
(* An expiry makes at most one stray, the client whose entry it was; and a *)
(* stray that forgets another client's entry makes that client a stray as  *)
(* it stops being one.                                                     *)
(*                                                                         *)
(* remember(). Its lock steps are steps of CacheLock, so the exclusion     *)
(* proved there carries over; a computation is found through               *)
(* pendingRemember, so a process has one at a time; and whoever computes   *)
(* looked again under the lock, so that only one value is stored until     *)
(* something expires.                                                      *)
(***************************************************************************)
EXTENDS CacheRemember, FiniteSetTheorems, TLAPS

Strays == {c \in Clients : pc[c] \in Holding /\ entry # c}

\* A client whose entry expired does not acquire again.
Spent ==
    /\ entry \notin expired
    /\ \A c \in Clients : pc[c] \in {"idle", "trying", "putting", "waiting"} => c \notin expired

NeverPuts == \A c \in Clients : pc[c] # "putting"

Counted == Cardinality(Strays) <= Cardinality(expired)

Locked == LockTypeOK /\ LeaksOnlyByFault /\ Spent /\ NeverPuts /\ Counted

USE LockAssumption

LEMMA Finite ==
    ASSUME LockTypeOK
    PROVE  /\ IsFiniteSet(Strays) /\ Cardinality(Strays) \in Nat
           /\ IsFiniteSet(expired) /\ Cardinality(expired) \in Nat
  BY FS_Subset, FS_CardinalityType DEF Strays, LockTypeOK

\* One more element, at most one more in the count.
LEMMA OneMore ==
    ASSUME NEW S, NEW x, IsFiniteSet(S)
    PROVE  /\ IsFiniteSet(S \cup {x})
           /\ Cardinality(S \cup {x}) <= Cardinality(S) + 1
<1>1. /\ IsFiniteSet(S \cup {x})
      /\ Cardinality(S \cup {x}) = IF x \in S THEN Cardinality(S) ELSE Cardinality(S) + 1
  BY FS_AddElement
<1>2. Cardinality(S) \in Nat
  BY FS_CardinalityType
<1> QED BY <1>1, <1>2

LEMMA InitLocked == LockInit => Locked
<1> SUFFICES ASSUME LockInit PROVE Locked
  OBVIOUS
<1>1. Strays = {} /\ expired = {}
  BY DEF LockInit, Strays, Holding
<1>2. Counted
  BY <1>1, FS_EmptySet DEF Counted
<1> QED
  BY <1>2 DEF LockInit, Locked, LockTypeOK, LeaksOnlyByFault, Spent, NeverPuts

\* The parts of the invariant that are not about the count.
LEMMA NextBasics ==
    ASSUME AtomicAdd, Locked, LockNext
    PROVE  (LockTypeOK /\ LeaksOnlyByFault /\ Spent /\ NeverPuts)'
<1> USE DEF Locked, LockTypeOK, LeaksOnlyByFault, Spent, NeverPuts, Goto, Holding, Ended
<1>1. ASSUME NEW c \in Clients, Begin(c) \/ Retry(c) \/ GiveUp(c) \/ CallbackEnds(c)
      PROVE  (LockTypeOK /\ LeaksOnlyByFault /\ Spent /\ NeverPuts)'
  BY <1>1 DEF Begin, Retry, GiveUp, CallbackEnds
<1>2. ASSUME NEW c \in Clients, Attempt(c)
      PROVE  (LockTypeOK /\ LeaksOnlyByFault /\ Spent /\ NeverPuts)'
  BY <1>2 DEF Attempt, AddAtOnce, AddInTwo
<1>3. ASSUME NEW c \in Clients, ReleaseGet(c) \/ Forget(c)
      PROVE  (LockTypeOK /\ LeaksOnlyByFault /\ Spent /\ NeverPuts)'
  BY <1>3 DEF ReleaseGet, Forget
<1>4. ASSUME NEW c \in Clients, StoreFails(c)
      PROVE  (LockTypeOK /\ LeaksOnlyByFault /\ Spent /\ NeverPuts)'
  BY <1>4 DEF StoreFails
<1>5. ASSUME NEW cs \in SUBSET Clients, Crash(cs)
      PROVE  (LockTypeOK /\ LeaksOnlyByFault /\ Spent /\ NeverPuts)'
  BY <1>5 DEF Crash
<1>6. ASSUME Expire
      PROVE  (LockTypeOK /\ LeaksOnlyByFault /\ Spent /\ NeverPuts)'
  BY <1>6 DEF Expire
<1> QED
  BY <1>1, <1>2, <1>3, <1>4, <1>5, <1>6 DEF LockNext, ClientStep, Acquiring, Releasing

----------------------------------------------------------------------------
\* A step that makes no stray keeps the count.
LEMMA NoNewStray ==
    ASSUME Locked, LockTypeOK', Strays' \subseteq Strays, expired' = expired
    PROVE  Counted'
<1>1. Cardinality(Strays') <= Cardinality(Strays) /\ Cardinality(Strays') \in Nat
  BY Finite, FS_Subset, FS_CardinalityType DEF Locked
<1> QED
  BY <1>1, Finite DEF Locked, Counted

LEMMA ForgetCounts ==
    ASSUME Locked, LockTypeOK', NEW c \in Clients, Forget(c)
    PROVE  Counted'
<1> USE DEF Locked
<1>1. expired' = expired /\ entry' = NoOwner /\ pc' = [pc EXCEPT ![c] = "done"]
  BY DEF Forget, Goto
<1>2. CASE entry \in {c, NoOwner}
  <2>1. Strays' \subseteq Strays
    BY <1>1, <1>2 DEF Strays, Holding, LockTypeOK
  <2> QED BY <2>1, <1>1, NoNewStray
<1>3. CASE entry \notin {c, NoOwner}
  <2> DEFINE Others == Strays \ {c}
  <2>1. c \in Strays
    BY <1>3 DEF Strays, Holding, Forget
  <2>2. Strays' \subseteq Others \cup {entry}
    BY <1>1, <1>3 DEF Strays, Holding, LockTypeOK
  <2>3. IsFiniteSet(Others) /\ Cardinality(Others) = Cardinality(Strays) - 1
    BY <2>1, Finite, FS_RemoveElement
  <2>4. /\ IsFiniteSet(Others \cup {entry})
        /\ Cardinality(Others \cup {entry}) <= Cardinality(Strays)
    <3> HIDE DEF Others
    <3>1. /\ IsFiniteSet(Others \cup {entry})
          /\ Cardinality(Others \cup {entry}) <= Cardinality(Others) + 1
      BY <2>3, OneMore
    <3> QED BY <3>1, <2>3, Finite
  <2>5. Cardinality(Strays') <= Cardinality(Others \cup {entry})
        /\ Cardinality(Strays') \in Nat /\ Cardinality(Others \cup {entry}) \in Nat
    BY <2>2, <2>4, FS_Subset, FS_CardinalityType
  <2> QED
    BY <2>4, <2>5, <1>1, Finite DEF Counted
<1> QED BY <1>2, <1>3

LEMMA ExpireCounts ==
    ASSUME Locked, LockTypeOK', Expire
    PROVE  Counted'
<1> USE DEF Locked
<1>1. /\ expired' = expired \cup {entry} /\ entry \notin expired
      /\ entry' = NoOwner /\ pc' = pc
  BY DEF Expire, Spent
<1>2. Strays' \subseteq Strays \cup {entry}
  BY <1>1 DEF Strays
<1>3. Cardinality(expired') = Cardinality(expired) + 1
  BY <1>1, Finite, FS_AddElement
<1>4. /\ IsFiniteSet(Strays \cup {entry})
      /\ Cardinality(Strays \cup {entry}) <= Cardinality(Strays) + 1
  BY Finite, OneMore
<1>5. Cardinality(Strays') <= Cardinality(Strays \cup {entry})
      /\ Cardinality(Strays') \in Nat /\ Cardinality(Strays \cup {entry}) \in Nat
  BY <1>2, <1>4, FS_Subset, FS_CardinalityType
<1> QED
  BY <1>3, <1>4, <1>5, Finite DEF Counted

LEMMA NextCounts ==
    ASSUME AtomicAdd, Locked, LockTypeOK', LockNext
    PROVE  Counted'
<1> USE DEF Strays, Holding, Goto, Locked, LockTypeOK
<1>1. ASSUME NEW c \in Clients, Begin(c) \/ Retry(c) \/ GiveUp(c) \/ CallbackEnds(c)
      PROVE  Strays' \subseteq Strays /\ expired' = expired
  BY <1>1 DEF Begin, Retry, GiveUp, CallbackEnds
<1>2. ASSUME NEW c \in Clients, Attempt(c)
      PROVE  Strays' \subseteq Strays /\ expired' = expired
  BY <1>2 DEF Attempt, AddAtOnce, AddInTwo
<1>3. ASSUME NEW c \in Clients, ReleaseGet(c)
      PROVE  Strays' \subseteq Strays /\ expired' = expired
  BY <1>3 DEF ReleaseGet
<1>4. ASSUME NEW c \in Clients, StoreFails(c)
      PROVE  Strays' \subseteq Strays /\ expired' = expired
  BY <1>4 DEF StoreFails, NeverPuts
<1>5. ASSUME NEW cs \in SUBSET Clients, Crash(cs)
      PROVE  Strays' \subseteq Strays /\ expired' = expired
  BY <1>5 DEF Crash, Ended
<1> HIDE DEF Strays, Holding, Goto, Locked, LockTypeOK
<1> QED
  BY <1>1, <1>2, <1>3, <1>4, <1>5, NoNewStray, ForgetCounts, ExpireCounts
  DEF LockNext, ClientStep, Acquiring, Releasing

LEMMA LockedInvariant ==
    ASSUME AtomicAdd
    PROVE  LockSpec => []Locked
<1>1. ASSUME Locked, [LockNext]_lockVars PROVE Locked'
  <2>1. CASE LockNext
    BY <2>1, <1>1, NextBasics, NextCounts DEF Locked
  <2>2. CASE UNCHANGED lockVars
    BY <2>2, <1>1 DEF lockVars, Locked, LockTypeOK, LeaksOnlyByFault, Spent,
                      NeverPuts, Counted, Strays
  <2> QED BY <1>1, <2>1, <2>2
<1> QED
  BY <1>1, InitLocked, PTL DEF LockSpec

----------------------------------------------------------------------------
(***************************************************************************)
(* Mutual exclusion until a time to live has passed: with no expiry there  *)
(* is no stray, so whoever runs its callback owns the entry.               *)
(***************************************************************************)
THEOREM LockIsExclusive ==
    ASSUME AtomicAdd
    PROVE  LockSpec => []Exclusive
<1>1. Locked => Exclusive
  <2> SUFFICES ASSUME Locked, expired = {} PROVE \A c, d \in Insiders : c = d
    BY DEF Exclusive
  <2>1. Cardinality(Strays) = 0
    BY Finite, FS_EmptySet DEF Locked, Counted
  <2>2. Strays = {}
    BY <2>1, Finite, FS_EmptySet DEF Locked
  <2> QED
    BY <2>2 DEF Strays, Insiders, Holding
<1> QED
  BY <1>1, LockedInvariant, PTL

(***************************************************************************)
(* However the expiries, releases and faults interleave, the callbacks     *)
(* that run at once are at most one more than the entries that expired.    *)
(***************************************************************************)
THEOREM OverlapIsBounded ==
    ASSUME AtomicAdd
    PROVE  LockSpec => []BoundedOverlap
<1>1. Locked => BoundedOverlap
  <2> SUFFICES ASSUME Locked PROVE Cardinality(Insiders) <= 1 + Cardinality(expired)
    BY DEF BoundedOverlap
  <2>1. Insiders \subseteq Strays \cup {entry}
    BY DEF Insiders, Strays, Holding
  <2>2. /\ IsFiniteSet(Strays \cup {entry})
        /\ Cardinality(Strays \cup {entry}) <= Cardinality(Strays) + 1
    BY Finite, OneMore DEF Locked
  <2>3. Cardinality(Insiders) <= Cardinality(Strays \cup {entry})
        /\ Cardinality(Insiders) \in Nat /\ Cardinality(Strays \cup {entry}) \in Nat
    BY <2>1, <2>2, FS_Subset, FS_CardinalityType
  <2> QED
    BY <2>2, <2>3, Finite DEF Locked, Counted
<1> QED
  BY <1>1, LockedInvariant, PTL

(***************************************************************************)
(* Only a crash or an error of the store leaves the entry behind.          *)
(***************************************************************************)
THEOREM LeaksAreFaults ==
    ASSUME AtomicAdd
    PROVE  LockSpec => []LeaksOnlyByFault
<1>1. Locked => LeaksOnlyByFault
  BY DEF Locked
<1> QED
  BY <1>1, LockedInvariant, PTL

----------------------------------------------------------------------------
(* remember() *)


USE RememberAssumption

\* remember() drives the lock of a call only while the call leads.
LockOfLeader ==
    \A c \in Clients :
        /\ Alive(c) /\ pc[c] # "idle" => step[c] \notin {"new", "missed", "sharing"}
        /\ ~Alive(c) => pc[c] \in Ended
        /\ step[c] \in {"fallback"} \cup Settled => pc[c] \in {"idle"} \cup Ended
        /\ step[c] = "sharing" => leader[c] \in Clients

\* The call that computes for its process is the one in pendingRemember.
LeaderPending ==
    \A c \in Clients :
        Alive(c) /\ step[c] \in {"leading", "fallback"} => pending[procOf[c]] = c

Shared == TypeOK /\ LockOfLeader /\ LeaderPending

LEMMA InitShared == Init => Shared
<1> SUFFICES ASSUME Init PROVE Shared
  OBVIOUS
<1>1. TypeOK
  BY DEF Init, LockInit, TypeOK, LockTypeOK, Absent
<1>2. LockOfLeader /\ LeaderPending
  BY DEF Init, LockInit, LockOfLeader, LeaderPending, Alive, Settled
<1> QED BY <1>1, <1>2 DEF Shared

\* What a step of the lock of c, and nothing else, changes.
LEMMA LockStepTypes ==
    ASSUME TypeOK, NEW c \in Clients,
           Acquiring(c) \/ CallbackEnds(c) \/ Releasing(c) \/ GiveUp(c) \/ StoreFails(c) \/ Begin(c)
    PROVE  /\ LockTypeOK'
           /\ \A d \in Clients \ {c} : pc'[d] = pc[d]
  BY DEF TypeOK, LockTypeOK, Acquiring, Attempt, AddAtOnce, AddInTwo, Retry, CallbackEnds, Releasing,
         ReleaseGet, Forget, GiveUp, StoreFails, Begin, Goto, Holding, Ended

LEMMA CallShared ==
    ASSUME Shared, NEW c \in Clients, CallStep(c) \/ LockFails(c) \/ GetFails(c)
    PROVE  Shared'
<1> USE DEF Shared, TypeOK, LockOfLeader, LeaderPending, Alive, Absent,
            Settled, At, Advance
<1>1. CASE Look(c)
  BY <1>1 DEF Look, lockVars, LockTypeOK
<1>2. CASE Share(c)
  BY <1>2 DEF Share, lockVars, LockTypeOK
<1>3. CASE Lead(c)
  <2>1. /\ LockTypeOK' /\ \A d \in Clients \ {c} : pc'[d] = pc[d]
        /\ pc[c] = "idle" /\ pc'[c] = "trying"
    BY <1>3, LockStepTypes DEF Lead, Begin, Goto, LockTypeOK
  <2>2. /\ pending[procOf[c]] = Absent /\ pending' = [pending EXCEPT ![procOf[c]] = c]
        /\ step[c] = "missed" /\ step' = [step EXCEPT ![c] = "leading"]
        /\ procOf[c] \notin down
        /\ UNCHANGED <<inner, result, leader, down, cached, stored, lapsed>>
    BY <1>3 DEF Lead
  <2>3. TypeOK'
    BY <2>1, <2>2
  <2>4. LockOfLeader'
    <3> SUFFICES ASSUME NEW d \in Clients
                 PROVE  /\ Alive(d)' /\ pc'[d] # "idle" => step'[d] \notin {"new", "missed", "sharing"}
                        /\ ~Alive(d)' => pc'[d] \in Ended
                        /\ step'[d] \in {"fallback"} \cup Settled => pc'[d] \in {"idle"} \cup Ended
                        /\ step'[d] = "sharing" => leader'[d] \in Clients
      OBVIOUS
    <3>1. CASE d = c
      BY <3>1, <2>1, <2>2
    <3>2. CASE d # c
      BY <3>2, <2>1, <2>2
    <3> QED BY <3>1, <3>2
  <2>5. LeaderPending'
    BY <2>2
  <2> QED BY <2>3, <2>4, <2>5
<1>4. CASE ShareSettles(c)
  <2>1. /\ UNCHANGED <<pc, entry, expired, inner, leader, pending, down, cached, stored, lapsed>>
        /\ step[c] = "sharing" /\ step' = [step EXCEPT ![c] = step[leader[c]]]
        /\ step[leader[c]] \in Settled /\ procOf[c] \notin down
        /\ result' = [result EXCEPT ![c] = result[leader[c]]]
        /\ leader[c] \in Clients
    BY <1>4 DEF ShareSettles, lockVars
  <2>2. TypeOK'
    BY <2>1 DEF LockTypeOK
  <2>3. LockOfLeader' /\ LeaderPending'
    BY <2>1
  <2> QED BY <2>2, <2>3
<1>5. CASE Acquire(c)
  <2>1. /\ LockTypeOK' /\ \A d \in Clients \ {c} : pc'[d] = pc[d]
        /\ pc[c] \in {"trying", "putting", "waiting"}
        /\ pc'[c] \in {"trying", "putting", "waiting", "inside"}
    BY <1>5, LockStepTypes DEF Acquire, Acquiring, Attempt, AddAtOnce, AddInTwo, Retry, Goto, LockTypeOK
  <2>2. step[c] = "leading" /\ Alive(c)
    BY <2>1 DEF Ended
  <2>3. /\ inner' \in [Clients -> {"none", "checking", "computing", "storing", "returned", "threw"}]
        /\ UNCHANGED <<step, result, leader, pending, down, cached, stored, lapsed>>
    BY <1>5 DEF Acquire
  <2>4. TypeOK'
    BY <2>1, <2>3
  <2>5. LockOfLeader' /\ LeaderPending'
    BY <2>1, <2>2, <2>3 DEF Ended
  <2> QED BY <2>4, <2>5
<1>6. CASE Recheck(c) \/ Store(c) \/ InnerThrows(c)
  <2>1. /\ pc[c] = "inside"
        /\ \/ UNCHANGED lockVars
           \/ CallbackEnds(c)
    BY <1>6 DEF Recheck, Store, InnerThrows, Inside, CallbackReturns
  <2>2. step[c] = "leading" /\ Alive(c)
    BY <2>1 DEF Ended
  <2>3. /\ LockTypeOK' /\ \A d \in Clients \ {c} : pc'[d] = pc[d]
        /\ pc'[c] \in {"inside", "releasing"}
    BY <2>1, LockStepTypes DEF CallbackEnds, Goto, lockVars, LockTypeOK
  <2>4. /\ UNCHANGED <<step, leader, pending, down>>
        /\ inner' \in [Clients -> {"none", "checking", "computing", "storing", "returned", "threw"}]
        /\ result' \in [Clients -> Clients \cup {Absent}]
        /\ cached' \in Clients \cup {Absent} /\ stored' \subseteq Clients /\ lapsed' = lapsed
    BY <1>6 DEF Recheck, Store, InnerThrows, CallbackReturns
  <2> QED BY <2>1, <2>2, <2>3, <2>4 DEF Ended
<1>7. CASE Compute(c)
  BY <1>7 DEF Compute, lockVars, LockTypeOK
<1>8. CASE LeaveLock(c) \/ LockFails(c)
  <2>1. /\ LockTypeOK' /\ \A d \in Clients \ {c} : pc'[d] = pc[d]
        /\ pc[c] \in {"trying", "putting", "waiting", "releasing", "forgetting"}
        /\ pc'[c] \in {"forgetting", "done", "refused", "errored"}
    BY <1>8, LockStepTypes DEF LeaveLock, LockFails, Releasing, ReleaseGet, Forget, GiveUp,
                               StoreFails, Goto, LockTypeOK
  <2>2. step[c] = "leading" /\ Alive(c)
    BY <2>1 DEF Ended
  <2> QED BY <1>8, <2>1, <2>2 DEF LeaveLock, LockFails, rememberVars, Ended
<1>9. CASE Answer(c) \/ BlockRejects(c) \/ FallBack(c) \/ GetFails(c)
  BY <1>9 DEF Answer, BlockRejects, FallBack, GetFails, lockVars, LockTypeOK, Ended
<1>10. CASE ClearPending(c)
  BY <1>10 DEF ClearPending, lockVars, LockTypeOK
<1> QED
  BY <1>1, <1>2, <1>3, <1>4, <1>5, <1>6, <1>7, <1>8, <1>9, <1>10 DEF CallStep

LEMMA OthersShared ==
    ASSUME Shared,
           \/ \E p \in Processes : CrashProcess(p)
           \/ Lapse
           \/ Expire /\ UNCHANGED rememberVars
    PROVE  Shared'
<1> USE DEF Shared, TypeOK, LockOfLeader, LeaderPending, Alive, Absent, Settled
<1>1. ASSUME NEW p \in Processes, CrashProcess(p) PROVE Shared'
  <2>1. /\ LockTypeOK'
        /\ \A c \in Clients : procOf[c] = p => pc'[c] \in Ended
        /\ \A c \in Clients : procOf[c] # p => pc'[c] = pc[c]
        /\ \A c \in Clients : pc[c] \in Ended => pc'[c] = pc[c]
        /\ \A c \in Clients : pc'[c] \in {pc[c]} \cup Ended
    BY <1>1 DEF CrashProcess, Crash, lockVars, LockTypeOK, Ended
  <2>2. /\ UNCHANGED <<step, inner, result, leader, cached, stored, lapsed>>
        /\ pending' = [pending EXCEPT ![p] = Absent] /\ down' = down \cup {p}
    BY <1>1 DEF CrashProcess
  <2>3. TypeOK'
    BY <2>1, <2>2
  <2>4. LockOfLeader'
    BY <2>1, <2>2
  <2>5. LeaderPending'
    BY <2>2
  <2> QED BY <2>3, <2>4, <2>5
<1>2. CASE Lapse
  BY <1>2 DEF Lapse, lockVars, LockTypeOK
<1>3. CASE Expire /\ UNCHANGED rememberVars
  BY <1>3 DEF Expire, rememberVars, LockTypeOK
<1> QED BY <1>1, <1>2, <1>3

LEMMA SharedInvariant == Spec => []Shared
<1>1. ASSUME Shared, [Next]_vars PROVE Shared'
  <2>1. CASE Next
    BY <2>1, <1>1, CallShared, OthersShared DEF Next
  <2>2. CASE UNCHANGED vars
    BY <2>2, <1>1 DEF vars, lockVars, rememberVars, Shared, TypeOK, LockTypeOK, LockOfLeader,
                      LeaderPending, Alive
  <2> QED BY <1>1, <2>1, <2>2
<1> QED
  BY <1>1, InitShared, PTL DEF Spec

----------------------------------------------------------------------------
(***************************************************************************)
(* Type correctness, of the lock a call drives and of remember() itself.   *)
(***************************************************************************)
THEOREM RememberTyped == Spec => []TypeOK
<1>1. Shared => TypeOK
  BY DEF Shared
<1> QED
  BY <1>1, SharedInvariant, PTL

(***************************************************************************)
(* remember() does to the lock only what CacheLock does, so what is proved *)
(* of CacheLock can be cited for the calls of remember().                  *)
(***************************************************************************)
LEMMA RememberLocks == Spec => LockSpec
<1>1. Init => LockInit
  BY DEF Init
<1>2. ASSUME [Next]_vars PROVE [LockNext]_lockVars
  <2>1. ASSUME NEW c \in Clients, CallStep(c) PROVE [LockNext]_lockVars
    BY <2>1 DEF CallStep, Look, Share, Lead, ShareSettles, Acquire, Recheck, Compute, Store,
                InnerThrows, LeaveLock, Answer, BlockRejects, FallBack, ClearPending,
                CallbackReturns, LockNext, ClientStep
  <2>2. ASSUME NEW c \in Clients, LockFails(c) \/ GetFails(c) PROVE [LockNext]_lockVars
    BY <2>2 DEF LockFails, GetFails, LockNext
  <2>3. ASSUME NEW p \in Processes, CrashProcess(p) PROVE [LockNext]_lockVars
    BY <2>3 DEF CrashProcess, LockNext
  <2>4. CASE Lapse \/ (Expire /\ UNCHANGED rememberVars) \/ UNCHANGED vars
    BY <2>4 DEF Lapse, LockNext, vars
  <2> QED BY <1>2, <2>1, <2>2, <2>3, <2>4 DEF Next
<1> QED
  BY <1>1, <1>2, PTL DEF Spec, LockSpec

(***************************************************************************)
(* What the lock promises on its own it promises inside remember(): the    *)
(* callbacks exclude each other until something expires, overlap by no     *)
(* more than what expired, and only a fault leaves the entry behind.       *)
(***************************************************************************)
THEOREM RememberExcludes ==
    ASSUME AtomicAdd
    PROVE  Spec => [](Exclusive /\ BoundedOverlap /\ LeaksOnlyByFault)
BY RememberLocks, LockIsExclusive, OverlapIsBounded, LeaksAreFaults, PTL

\* A call that computes is alive, leads, and is the one of its process.
LEMMA ComputingLeads ==
    ASSUME Shared, NEW c \in Computing
    PROVE  pending[procOf[c]] = c
  BY DEF Computing, Shared, TypeOK, LockOfLeader, LeaderPending, Settled, Ended

(***************************************************************************)
(* A process runs one computation of the key at a time, with any store.    *)
(***************************************************************************)
THEOREM OneComputation == Spec => []SoleComputation
<1>1. Shared => SoleComputation
  BY ComputingLeads DEF SoleComputation, Computing
<1> QED
  BY <1>1, SharedInvariant, PTL

----------------------------------------------------------------------------
\* While nothing has expired, a stored value is still there, and whoever
\* computes found none.
Unstored ==
    expired = {} /\ ~lapsed =>
        /\ cached = Absent => stored = {}
        /\ \A c \in Computing : stored = {}
        /\ \A c, d \in stored : c = d

Once == TypeOK /\ Exclusive /\ Unstored

LEMMA NextUnstored ==
    ASSUME Once, Next
    PROVE  Unstored'
<1> SUFFICES ASSUME expired' = {}, ~lapsed'
             PROVE  /\ cached' = Absent => stored' = {}
                    /\ \A c \in Computing' : stored' = {}
                    /\ \A c, d \in stored' : c = d
  BY DEF Unstored
<1> DEFINE Harmless == /\ UNCHANGED <<cached, stored>>
                       /\ Computing' \subseteq Computing \/ cached = Absent
<1> USE DEF Once, TypeOK, LockTypeOK, Unstored, Computing, Absent
<1>1. expired = {} /\ ~lapsed
  BY DEF Next, CallStep, Look, Share, Lead, ShareSettles, Acquire, Recheck, Compute, Store,
         InnerThrows, LeaveLock, LockFails, GetFails, Answer, BlockRejects, FallBack,
         ClearPending, CrashProcess, Lapse,
         Expire, rememberVars, lockVars, Acquiring, Attempt, AddAtOnce, AddInTwo, Retry, CallbackReturns,
         CallbackEnds, Releasing, ReleaseGet, Forget, GiveUp, StoreFails, Crash, Begin
<1>2. ASSUME NEW c \in Clients,
             \/ Look(c) \/ Share(c) \/ ShareSettles(c) \/ Answer(c)
             \/ BlockRejects(c) \/ FallBack(c) \/ GetFails(c) \/ ClearPending(c)
      PROVE  Harmless
  BY <1>2 DEF Look, Share, ShareSettles, Answer, BlockRejects, FallBack, GetFails, ClearPending,
              lockVars
<1>3. ASSUME NEW c \in Clients, Lead(c) \/ LeaveLock(c) \/ LockFails(c)
      PROVE  Harmless
  BY <1>3 DEF Lead, LeaveLock, LockFails, rememberVars, Begin, Releasing, ReleaseGet, Forget,
              GiveUp, StoreFails, Goto
<1>4. ASSUME NEW c \in Clients, Acquire(c) \/ InnerThrows(c)
      PROVE  Harmless
  BY <1>4 DEF Acquire, Acquiring, Attempt, AddAtOnce, AddInTwo, Retry, InnerThrows, CallbackEnds, Goto
<1>5. ASSUME NEW c \in Clients, Recheck(c)
      PROVE  Harmless
  BY <1>5 DEF Recheck, CallbackReturns, CallbackEnds, Goto
<1>6. ASSUME NEW c \in Clients, Compute(c)
      PROVE  Harmless
  BY <1>6 DEF Compute, lockVars, Inside
<1>7. ASSUME NEW c \in Clients, Store(c)
      PROVE  cached' = c /\ stored' = {c} /\ Computing' = {}
  <2>1. c \in Computing /\ stored = {}
    BY <1>1, <1>7 DEF Store, Inside
  <2>2. \A d \in Computing : d = c
    BY <1>1, <2>1 DEF Exclusive, Insiders
  <2> QED BY <1>7, <2>1, <2>2 DEF Store, CallbackReturns, CallbackEnds, Goto
<1>8. ASSUME NEW p \in Processes, CrashProcess(p)
      PROVE  Harmless
  BY <1>8 DEF CrashProcess, Crash, lockVars, Ended
<1>9. ASSUME Lapse \/ (Expire /\ UNCHANGED rememberVars)
      PROVE  FALSE
  BY <1>1, <1>9 DEF Lapse, Expire
<1>10. Harmless \/ \E c \in Clients : Store(c)
  <2> HIDE DEF Harmless, Once, TypeOK, LockTypeOK, Unstored, Computing, Absent
  <2>1. CASE \E c \in Clients : CallStep(c) \/ LockFails(c) \/ GetFails(c)
    BY <2>1, <1>2, <1>3, <1>4, <1>5, <1>6 DEF CallStep
  <2>2. CASE Lapse \/ (Expire /\ UNCHANGED rememberVars)
    BY <2>2, <1>9
  <2> QED BY <2>1, <2>2, <1>8 DEF Next
<1>11. CASE Harmless
  BY <1>1, <1>11
<1>12. CASE \E c \in Clients : Store(c)
  BY <1>7, <1>12
<1> QED
  BY <1>10, <1>11, <1>12

(***************************************************************************)
(* No stampede: while neither the lock nor the value expires, one call of  *)
(* all processes stores the value.                                         *)
(***************************************************************************)
THEOREM NoStampede ==
    ASSUME AtomicAdd
    PROVE  Spec => []StoredOnce
<1>1. Spec => []Exclusive
  BY RememberLocks, LockIsExclusive, PTL
<1>2. Init => Unstored
  BY DEF Init, LockInit, Unstored, Computing, Absent
<1>3. ASSUME TypeOK, Exclusive, Unstored, [Next]_vars PROVE Unstored'
  <2>1. CASE Next
    BY <2>1, <1>3, NextUnstored DEF Once
  <2>2. CASE UNCHANGED vars
    BY <2>2, <1>3 DEF vars, lockVars, rememberVars, Unstored, Computing
  <2> QED BY <1>3, <2>1, <2>2
<1>4. Unstored => StoredOnce
  BY DEF Unstored, StoredOnce
<1> QED
  BY <1>1, RememberTyped, <1>2, <1>3, <1>4, PTL DEF Spec

----------------------------------------------------------------------------
\* Where the value in hand comes from: a leading call has looked it up or
\* stored it by the time its callback returns.
Origin(c) ==
    /\ step[c] \in {"new", "missed", "sharing"} => inner[c] = "none"
    /\ step[c] = "leading" /\ inner[c] = "storing" => result[c] = c
    /\ step[c] = "leading" /\ inner[c] = "returned" => result[c] \in stored
    /\ step[c] = "answered" => result[c] \in stored

Faithful ==
    /\ cached \in stored \cup {Absent}
    /\ \A c \in Clients : Origin(c)

LEMMA NextFaithful ==
    ASSUME Shared, Faithful, Next
    PROVE  Faithful'
<1> USE DEF Shared, TypeOK, Faithful, Origin, Absent, At, Advance
<1>1. ASSUME NEW c \in Clients, Look(c) \/ Share(c) \/ Lead(c) PROVE Faithful'
  BY <1>1 DEF Look, Share, Lead
<1>2. ASSUME NEW c \in Clients, ShareSettles(c) PROVE Faithful'
  <2>1. /\ step[c] = "sharing" /\ leader[c] \in Clients /\ step[leader[c]] \in Settled
        /\ step' = [step EXCEPT ![c] = step[leader[c]]]
        /\ result' = [result EXCEPT ![c] = result[leader[c]]]
        /\ UNCHANGED <<inner, cached, stored>>
    BY <1>2 DEF ShareSettles, LockOfLeader
  <2> QED BY <2>1 DEF Settled
<1>3. ASSUME NEW c \in Clients, Acquire(c) \/ Recheck(c) \/ Compute(c) \/ Store(c) \/ InnerThrows(c)
      PROVE  Faithful'
  <2>1. pc[c] \notin {"idle"} \cup Ended
    BY <1>3 DEF Acquire, Acquiring, Attempt, AddAtOnce, AddInTwo, Retry, Recheck, Compute, Store, InnerThrows,
                Inside, Ended
  <2>2. step[c] = "leading" /\ step' = step
    BY <1>3, <2>1 DEF LockOfLeader, Settled, Acquire, Recheck, Compute, Store, InnerThrows
  <2>3. CASE Acquire(c) \/ Compute(c) \/ InnerThrows(c)
    BY <2>2, <2>3 DEF Acquire, Acquiring, Attempt, AddAtOnce, AddInTwo, Retry, Compute, InnerThrows, Goto,
                      LockTypeOK
  <2>4. CASE Recheck(c)
    BY <2>2, <2>4 DEF Recheck, CallbackReturns
  <2>5. CASE Store(c)
    <3>1. stored' = stored \cup {c} /\ cached' = c /\ result' = result /\ result[c] = c
      BY <2>2, <2>5 DEF Store, Inside
    <3>2. inner' = [inner EXCEPT ![c] = "returned"]
      BY <2>5 DEF Store, CallbackReturns
    <3> QED BY <2>2, <3>1, <3>2
  <2> QED BY <1>3, <2>3, <2>4, <2>5
<1>4. ASSUME NEW c \in Clients,
             LeaveLock(c) \/ LockFails(c) \/ BlockRejects(c) \/ ClearPending(c) \/ GetFails(c)
      PROVE  Faithful'
  BY <1>4 DEF LeaveLock, LockFails, BlockRejects, ClearPending, GetFails, rememberVars
<1>5. ASSUME NEW c \in Clients, Answer(c) \/ FallBack(c) PROVE Faithful'
  BY <1>5 DEF Answer, FallBack
<1>6. CASE (\E p \in Processes : CrashProcess(p)) \/ Lapse \/ (Expire /\ UNCHANGED rememberVars)
  BY <1>6 DEF CrashProcess, Lapse, rememberVars
<1> QED
  <2> HIDE DEF Shared, TypeOK, Faithful, Origin, Absent, At, Advance
  <2> QED BY <1>1, <1>2, <1>3, <1>4, <1>5, <1>6 DEF Next, CallStep

(***************************************************************************)
(* A call only ever answers what a completed computation has stored.       *)
(***************************************************************************)
THEOREM AnswersComeFromStore == Spec => []AnswersAreStored
<1>1. Init => Faithful
  BY DEF Init, Faithful, Origin, Absent
<1>2. ASSUME Shared, Faithful, [Next]_vars PROVE Faithful'
  <2>1. CASE Next
    BY <2>1, <1>2, NextFaithful
  <2>2. CASE UNCHANGED vars
    BY <2>2, <1>2 DEF vars, rememberVars, Faithful, Origin
  <2> QED BY <1>2, <2>1, <2>2
<1>3. Faithful => AnswersAreStored
  BY DEF Faithful, Origin, AnswersAreStored
<1> QED
  BY <1>1, <1>2, <1>3, SharedInvariant, PTL DEF Spec

=============================================================================
