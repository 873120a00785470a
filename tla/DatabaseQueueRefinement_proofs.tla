------------------- MODULE DatabaseQueueRefinement_proofs -------------------
(***************************************************************************)
(* The proof that chains run in order on the database queue, and that the  *)
(* driver, the loop and the retry command implement JobDelivery: every     *)
(* statement is a step of the promise, or changes nothing in it.           *)
(***************************************************************************)
EXTENDS DatabaseQueue_proofs

USE JobsAssumption, BoundsAssumption

\* Whatever is on record or in hand was accepted before.
Known ==
    /\ \A i \in Ids : rows[i].job # NoJob => rows[i].job \in accepted
    /\ \A i \in Ids : failed[i] # NoJob => failed[i] \in accepted
    /\ \A w \in Workers : pc[w] \in {"selected"} \cup Working => rec[w].job \in accepted
    /\ \A o \in Operators : op[o].step # "none" => op[o].job \in accepted

Ordered == Safe /\ Known /\ ChainOrder

LEMMA InitOrdered == Init => Ordered
<1> SUFFICES ASSUME Init PROVE Ordered
  OBVIOUS
<1>1. Safe
  BY InitSafe
<1>2. Known
  BY DEF Init, ProcInit, FailedInit, Known, NoRow, NoRetry, Working, Failed
<1>3. ChainOrder
  BY DEF Init, ProcInit, ChainOrder
<1> QED BY <1>1, <1>2, <1>3 DEF Ordered

----------------------------------------------------------------------------
(* What a step does to OnRecord, and the step of the promise it is *)

PromiseStep == [Promise!Next]_(Promise!vars)

LEMMA Stutters ==
    ASSUME OnRecord' = OnRecord, UNCHANGED <<accepted, done, forgotten>>
    PROVE  PromiseStep
BY DEF PromiseStep, Promise!vars

LEMMA AcceptedMayEnter ==
    ASSUME ChainOrder, NEW j \in Jobs, j \in accepted
    PROVE  Promise!MayEnter(j)
BY DEF ChainOrder, Promise!MayEnter, HasNext

LEMMA Enters ==
    ASSUME NEW j \in Jobs, Promise!MayEnter(j), OnRecord' = OnRecord \cup {j},
           accepted' \in {accepted, accepted \cup {j}}, UNCHANGED <<done, forgotten>>
    PROVE  PromiseStep
BY DEF PromiseStep, Promise!Next, Promise!Enter

LEMMA KeptOnRecord ==
    ASSUME failed' = failed, \A i \in Ids : rows'[i].job = rows[i].job
    PROVE  OnRecord' = OnRecord
BY DEF OnRecord, Holds

LEMMA InsertOnRecord ==
    ASSUME Safe, NEW j \in Jobs, NEW due \in BOOLEAN, Insert(j, due), failed' = failed
    PROVE  OnRecord' = OnRecord \cup {j}
<1>1. nextId \in Ids
  BY DEF Insert, Safe, Typed, TypeOK, Ids
<1>2. PICK k \in Ids : k = nextId
  BY <1>1
<1>3. /\ rows'[k].job = j /\ rows[k].job = NoJob
      /\ \A i \in Ids \ {k} : rows'[i].job = rows[i].job
  BY <1>2 DEF Insert, NewRow, Safe, Typed, TypeOK, RecordsFresh, Ids
<1> QED BY <1>3 DEF OnRecord, Holds

LEMMA RecordOnRecord ==
    ASSUME Safe, NEW j \in Jobs, nextId <= MaxId, InsertFailed(nextId, j), rows' = rows
    PROVE  OnRecord' = OnRecord \cup {j}
<1>1. nextId \in Ids
  BY DEF Safe, Typed, TypeOK, Ids
<1>2. PICK k \in Ids : k = nextId
  BY <1>1
<1>3. /\ failed'[k] = j /\ failed[k] = NoJob
      /\ \A i \in Ids \ {k} : failed'[i] = failed[i]
  BY <1>2 DEF InsertFailed, Safe, Typed, TypeOK, RecordsFresh, Ids
<1> QED BY <1>3 DEF OnRecord, Holds

\* A record of j is deleted that a later one, or nothing owed, makes superfluous.
LEMMA Deletes ==
    ASSUME NEW i \in Ids, NEW j \in Jobs, CoveredAfter(i, j),
           \/ /\ rows[i].job \in {j, NoJob} /\ rows'[i].job = NoJob /\ failed' = failed
              /\ \A k \in Ids \ {i} : rows'[k].job = rows[k].job
           \/ /\ failed[i] \in {j, NoJob} /\ failed'[i] = NoJob /\ rows' = rows
              /\ \A k \in Ids \ {i} : failed'[k] = failed[k],
           UNCHANGED <<accepted, done, forgotten>>
    PROVE  PromiseStep
<1>1. \A x \in Jobs \ {j}, k \in Ids : Holds(k, x)' <=> Holds(k, x)
  BY DEF Holds
<1>2. \A k \in Ids : Holds(k, j)' => Holds(k, j)
  BY DEF Holds
<1>3. CASE \E k \in Ids : Holds(k, j)'
  <2>1. OnRecord' = OnRecord
    BY <1>1, <1>2, <1>3 DEF OnRecord
  <2> QED BY <2>1, Stutters
<1>4. CASE ~\E k \in Ids : Holds(k, j)'
  <2>1. OnRecord' = OnRecord \ {j}
    BY <1>1, <1>4 DEF OnRecord
  <2>2. Settled(j)
    <3>1. ASSUME NEW k \in Ids, k > i, Holds(k, j)
          PROVE  FALSE
      <4>1. k # i
        BY <3>1 DEF Ids
      <4>2. Holds(k, j)'
        BY <3>1, <4>1 DEF Holds
      <4> QED BY <1>4, <4>2
    <3> QED BY <3>1 DEF CoveredAfter
  <2>3. Promise!Leave(j)
    BY <2>1, <2>2 DEF Promise!Leave, Promise!Finished, Settled, HasNext
  <2> QED BY <2>3 DEF PromiseStep, Promise!Next
<1> QED BY <1>3, <1>4

----------------------------------------------------------------------------
(* Each step keeps Ordered and is a step of the promise *)

LEMMA DispatchOrdered ==
    ASSUME Ordered, Safe', NEW j \in Jobs, NEW due \in BOOLEAN, Dispatch(j, due)
    PROVE  Ordered' /\ PromiseStep
<1>1. /\ Insert(j, due) /\ accepted' = accepted \cup {j} /\ j \in Heads
      /\ UNCHANGED <<pc, rec, op, failed, done, forgotten>>
  BY DEF Dispatch, failedVars
<1>2. /\ OnRecord' = OnRecord \cup {j}
      /\ \A i \in Ids : rows'[i].job \in {rows[i].job, j}
  <2>1. rows \in [Ids -> Row] /\ nextId \in Ids
    BY <1>1 DEF Ordered, Safe, Typed, TypeOK, Insert, Ids
  <2> QED BY <1>1, <2>1, InsertOnRecord DEF Ordered, Insert, NewRow
<1>3. Known'
  BY <1>1, <1>2 DEF Ordered, Known
<1>4. ChainOrder'
  BY <1>1 DEF Ordered, ChainOrder, Heads, HasNext
<1>5. Promise!MayEnter(j)
  BY <1>1 DEF Heads, Promise!MayEnter
<1> QED BY <1>1, <1>2, <1>3, <1>4, <1>5, Enters DEF Ordered

LEMMA PushNextLinkOrdered ==
    ASSUME Ordered, Safe', NEW w \in Workers, PushNextLink(w)
    PROVE  Ordered' /\ PromiseStep
<1>1. rec[w].job \in done /\ rec[w].job \in Jobs /\ NextLink[rec[w].job] \in Jobs
  BY DEF PushNextLink, Ordered, Safe, DeletersSecured, WorkerSecured, Typed, HandsOK,
         Working, HasNext
<1>2. PICK j \in Jobs : j = NextLink[rec[w].job]
  BY <1>1
<1>3. /\ Insert(j, TRUE) /\ accepted' = accepted \cup {j}
      /\ UNCHANGED <<rec, op, failed, done, forgotten>>
      /\ pc[w] = "chaining" /\ \A x \in Workers \ {w} : pc'[x] = pc[x]
  BY <1>2 DEF PushNextLink, Goto, failedVars, Ordered, Safe, Typed, TypeOK
<1>4. /\ OnRecord' = OnRecord \cup {j}
      /\ \A i \in Ids : rows'[i].job \in {rows[i].job, j}
  <2>1. rows \in [Ids -> Row] /\ nextId \in Ids
    BY <1>3 DEF Ordered, Safe, Typed, TypeOK, Insert, Ids
  <2> QED BY <1>3, <2>1, InsertOnRecord DEF Ordered, Insert, NewRow
<1>5. Known'
  BY <1>3, <1>4 DEF Ordered, Known, Working
<1>6. \A k \in Jobs : NextLink[k] = j => k \in done
  BY <1>1, <1>2, ChainsAssumption
<1>7. ChainOrder'
  BY <1>3, <1>6 DEF Ordered, ChainOrder, HasNext
<1>8. Promise!MayEnter(j)
  BY <1>6 DEF Promise!MayEnter
<1> QED BY <1>3, <1>4, <1>5, <1>7, <1>8, Enters DEF Ordered

LEMMA RecordFailedOrdered ==
    ASSUME Ordered, Safe', NEW w \in Workers, RecordFailed(w)
    PROVE  Ordered' /\ PromiseStep
<1>1. rec[w].job \in Jobs /\ rec[w].job \in accepted
  BY DEF RecordFailed, Ordered, Known, Safe, Typed, HandsOK, Working, Failed
<1>2. PICK j \in Jobs : j = rec[w].job /\ j \in accepted
  BY <1>1
<1>3. /\ InsertFailed(nextId, j) /\ nextId <= MaxId /\ pc[w] = "recording"
      /\ UNCHANGED <<rec, op, rows, accepted, done, forgotten>>
      /\ \A x \in Workers \ {w} : pc'[x] = pc[x]
  BY <1>2 DEF RecordFailed, Goto, Ordered, Safe, Typed, TypeOK
<1>4. /\ OnRecord' = OnRecord \cup {j}
      /\ \A i \in Ids : failed'[i] \in {failed[i], j}
  <2>1. failed \in [Ids -> Jobs \cup {NoJob}]
    BY DEF Ordered, Safe, Typed, TypeOK
  <2> QED BY <1>3, <2>1, RecordOnRecord DEF Ordered, InsertFailed
<1>5. Known'
  BY <1>2, <1>3, <1>4 DEF Ordered, Known, Working, Failed
<1>6. ChainOrder'
  BY <1>3 DEF Ordered, ChainOrder, HasNext
<1>7. Promise!MayEnter(j)
  BY <1>2, AcceptedMayEnter DEF Ordered
<1> QED BY <1>3, <1>4, <1>5, <1>6, <1>7, Enters DEF Ordered

LEMMA DeleteOrdered ==
    ASSUME Ordered, Safe', NEW w \in Workers, DeleteJob(w) \/ Bury(w)
    PROVE  Ordered' /\ PromiseStep
<1>1. /\ UNCHANGED <<op, failed, accepted, done, forgotten>> /\ Grows
      /\ rec[w].id \in Ids /\ rec[w].job \in Jobs
      /\ rows[rec[w].id].job \in {rec[w].job, NoJob}
      /\ CoveredAfter(rec[w].id, rec[w].job)
      /\ pc'[w] = "idle"
      /\ \A x \in Workers \ {w} : pc'[x] = pc[x] /\ rec'[x] = rec[x]
  BY DEF DeleteJob, Bury, NextJob, Goto, Grows, failedVars, Ordered, Safe, Typed, TypeOK,
         HandsOK, WorkerKeys, Working, Failed, DeletersSecured, WorkerSecured, CoveredAfter
<1>2. PICK i \in Ids, j \in Jobs : i = rec[w].id /\ j = rec[w].job
  BY <1>1
<1>3. rows'[i].job = NoJob /\ \A k \in Ids \ {i} : rows'[k].job = rows[k].job
  BY <1>2 DEF DeleteJob, Bury, DeleteRow, NoRow, Ordered, Safe, Typed, TypeOK
<1>4. PromiseStep
  BY <1>1, <1>2, <1>3, Deletes
<1>5. \A k \in Ids : rows'[k].job \in {rows[k].job, NoJob}
  BY <1>3
<1>6. Known'
  BY <1>1, <1>5 DEF Ordered, Known, Working, Failed
<1>7. ChainOrder'
  BY <1>1 DEF Ordered, ChainOrder, HasNext
<1> QED BY <1>4, <1>6, <1>7 DEF Ordered

LEMMA LoopOrdered ==
    ASSUME Ordered, Safe', NEW w \in Workers, LoopStep(w) \/ Disturb(w)
    PROVE  Ordered' /\ PromiseStep
<1>1. /\ UNCHANGED <<op, failed, rows, accepted, forgotten>> /\ done \subseteq done'
      /\ \A x \in Workers :
           pc'[x] \in {"selected"} \cup Working
             => pc[x] \in {"selected"} \cup Working /\ rec'[x] = rec[x]
  BY DEF LoopStep, Disturb, HandleSucceeds, HandleFails, StepFails, Exit, Shutdown, Crash,
         Restart, Catch, Goto, failedVars, Working, Failed, Down, Ordered, Safe, Typed, TypeOK
<1>2. Known'
  BY <1>1 DEF Ordered, Known
<1>3. ChainOrder'
  BY <1>1 DEF Ordered, ChainOrder, HasNext
<1>4. OnRecord' = OnRecord
  BY <1>1, KeptOnRecord
<1>5. CASE HandleSucceeds(w)
  <2>1. PICK j \in Jobs : j = rec[w].job /\ j \in accepted
    BY <1>5 DEF HandleSucceeds, Ordered, Known, Safe, Typed, HandsOK, Working
  <2>2. Promise!Run(j)
    BY <1>1, <1>4, <1>5, <2>1 DEF Promise!Run, HandleSucceeds
  <2> QED BY <1>2, <1>3, <2>2 DEF Ordered, PromiseStep, Promise!Next
<1>6. CASE ~HandleSucceeds(w)
  <2>1. done' = done
    BY <1>6 DEF LoopStep, Disturb, HandleFails, StepFails, Exit, Shutdown, Crash, Restart
  <2> QED BY <1>1, <1>2, <1>3, <1>4, <2>1, Stutters DEF Ordered
<1> QED BY <1>5, <1>6

LEMMA QuietStatementsOrdered ==
    ASSUME Ordered, Safe', NEW w \in Workers,
           \/ PopSelect(w) \/ PopReserve(w) \/ PopFails(w)
           \/ ReleaseRead(w) \/ ReleaseGone(w) \/ ReleaseWrite(w)
    PROVE  Ordered' /\ PromiseStep
<1>1. UNCHANGED <<op, failed, accepted, done, forgotten>>
  BY DEF PopSelect, PopReserve, PopFails, ReleaseRead, ReleaseGone, ReleaseWrite, failedVars
<1>2. /\ pc \in [Workers -> {"idle", "selected"} \cup Working \cup Down]
      /\ rec \in [Workers -> Record] /\ rows \in [Ids -> Row]
      /\ pc[w] \in {"selected"} \cup Working => rec[w].id \in Ids
  BY DEF Ordered, Safe, Typed, TypeOK, HandsOK
<1>3. \A i \in Ids : rows'[i].job = rows[i].job
  <2>1. CASE PopReserve(w)
    BY <1>2, <2>1 DEF PopReserve, UpdateRow, Row
  <2>2. CASE ReleaseWrite(w)
    BY <1>2, <2>2 DEF ReleaseWrite, UpdateRow, Row, Working, Failed
  <2> QED BY <2>1, <2>2 DEF PopSelect, PopFails, ReleaseRead, ReleaseGone
<1>4. \A x \in Workers :
        pc'[x] \in {"selected"} \cup Working => rec'[x].job \in accepted
  <2>1. \A x \in Workers \ {w} : pc'[x] = pc[x] /\ rec'[x] = rec[x]
    BY <1>2 DEF PopSelect, PopReserve, PopFails, ReleaseRead, ReleaseGone, ReleaseWrite,
                NextJob, Goto
  <2>2. CASE PopSelect(w)
    <3>1. PICK i \in Poppable : rec'[w].job = rows[i].job
      BY <1>2, <2>2 DEF PopSelect
    <3> QED BY <2>1, <3>1 DEF Poppable, RowExists, Ordered, Known
  <2>3. CASE PopReserve(w) \/ ReleaseRead(w)
    <3>1. rec'[w].job = rec[w].job /\ pc[w] \in {"selected"} \cup Working
      BY <1>2, <2>3 DEF PopReserve, ReleaseRead, Record, Working, Failed
    <3> QED BY <2>1, <3>1 DEF Ordered, Known
  <2>4. CASE PopFails(w) \/ ReleaseGone(w) \/ ReleaseWrite(w)
    <3>1. pc'[w] = "idle"
      BY <1>2, <2>4 DEF PopFails, ReleaseGone, ReleaseWrite, NextJob, Goto
    <3> QED BY <2>1, <3>1 DEF Ordered, Known, Working, Failed
  <2> QED BY <2>2, <2>3, <2>4
<1>5. Known'
  BY <1>1, <1>3, <1>4 DEF Ordered, Known
<1>6. ChainOrder'
  BY <1>1 DEF Ordered, ChainOrder, HasNext
<1>7. PromiseStep
  BY <1>1, <1>3, KeptOnRecord, Stutters
<1> QED BY <1>5, <1>6, <1>7 DEF Ordered

LEMMA OperatorOrdered ==
    ASSUME Ordered, Safe', NEW o \in Operators, OperatorStep(o)
    PROVE  Ordered' /\ PromiseStep
<1>1. /\ UNCHANGED <<pc, rec, accepted, done, forgotten>>
      /\ op \in [Operators -> Retry] /\ rows \in [Ids -> Row]
      /\ failed \in [Ids -> Jobs \cup {NoJob}]
  BY DEF OperatorStep, RetryPush, RetryPushed, RetryFind, RetryDelete, RetryKilled,
         procVars, Ordered, Safe, Typed, TypeOK
<1>2. ChainOrder'
  BY <1>1 DEF Ordered, ChainOrder, HasNext
<1>3. CASE RetryPush(o)
  <2>1. op[o].step = "found" /\ op[o].job \in Jobs /\ op[o].job \in accepted
    BY <1>3 DEF RetryPush, RetryPushed, Ordered, Known, Safe, OperatorKeys
  <2>2. PICK j \in Jobs : j = op[o].job /\ j \in accepted
    BY <2>1
  <2>3. Insert(j, TRUE) /\ failed' = failed /\ nextId \in Ids
    BY <1>3, <2>2 DEF RetryPush, RetryPushed, Insert, Ids, Ordered, Safe, Typed, TypeOK
  <2>4. OnRecord' = OnRecord \cup {j}
    BY <2>3, InsertOnRecord DEF Ordered
  <2>5. \A i \in Ids : rows'[i].job \in {rows[i].job, j}
    BY <1>1, <2>3 DEF Insert, NewRow
  <2>6. \A x \in Operators : op'[x].job = op[x].job /\ (op[x].step = "none" => op'[x].step = "none")
    BY <1>1, <1>3, <2>1 DEF RetryPush, RetryPushed, Retry
  <2>7. Known'
    BY <1>1, <2>2, <2>3, <2>5, <2>6 DEF Ordered, Known
  <2>8. PromiseStep
    BY <1>1, <2>2, <2>4, AcceptedMayEnter, Enters DEF Ordered
  <2> QED BY <1>2, <2>7, <2>8 DEF Ordered
<1>4. CASE RetryFind(o) /\ UNCHANGED <<procVars, rows, nextId>>
  <2>1. PICK i \in Ids :
          /\ failed[i] # NoJob
          /\ op' = [op EXCEPT ![o] = [step |-> "found", id |-> i, job |-> failed[i]]]
    BY <1>4 DEF RetryFind
  <2>2. failed' = failed /\ rows' = rows
    BY <1>4 DEF RetryFind
  <2>3. Known'
    BY <1>1, <2>1, <2>2 DEF Ordered, Known
  <2>4. PromiseStep
    BY <1>1, <2>2, KeptOnRecord, Stutters
  <2> QED BY <1>2, <2>3, <2>4 DEF Ordered
<1>5. CASE RetryDelete(o) /\ UNCHANGED <<procVars, rows, nextId>>
  <2>1. /\ op[o].id \in Ids /\ op[o].job \in Jobs
        /\ failed[op[o].id] \in {op[o].job, NoJob}
        /\ CoveredAfter(op[o].id, op[o].job)
    BY <1>5 DEF RetryDelete, Ordered, Safe, OperatorKeys, DeletersSecured, OperatorSecured
  <2>2. PICK i \in Ids, j \in Jobs : i = op[o].id /\ j = op[o].job
    BY <2>1
  <2>3. /\ failed'[i] = NoJob /\ rows' = rows
        /\ \A k \in Ids \ {i} : failed'[k] = failed[k]
    BY <1>1, <1>5, <2>2 DEF RetryDelete, DeleteFailed
  <2>4. PromiseStep
    BY <1>1, <2>1, <2>2, <2>3, Deletes
  <2>5. /\ \A k \in Ids : failed'[k] \in {failed[k], NoJob}
        /\ op'[o].step = "none" /\ \A x \in Operators \ {o} : op'[x] = op[x]
    BY <1>1, <1>5, <2>3 DEF RetryDelete, NoRetry
  <2>6. Known'
    BY <1>1, <2>3, <2>5 DEF Ordered, Known
  <2> QED BY <1>2, <2>4, <2>6 DEF Ordered
<1>6. CASE RetryKilled(o) /\ UNCHANGED <<procVars, rows, nextId>>
  <2>1. /\ failed' = failed /\ rows' = rows
        /\ op'[o].step = "none" /\ \A x \in Operators \ {o} : op'[x] = op[x]
    BY <1>1, <1>6 DEF RetryKilled, NoRetry
  <2>2. Known'
    BY <1>1, <2>1 DEF Ordered, Known
  <2>3. PromiseStep
    BY <1>1, <2>1, KeptOnRecord, Stutters
  <2> QED BY <1>2, <2>2, <2>3 DEF Ordered
<1> QED BY <1>3, <1>4, <1>5, <1>6 DEF OperatorStep

LEMMA ClockOrdered ==
    ASSUME Ordered, Safe', NEW i \in Ids, BecomesDue(i)
    PROVE  Ordered' /\ PromiseStep
<1>1. /\ UNCHANGED <<pc, rec, op, failed, accepted, done, forgotten>>
      /\ \A k \in Ids : rows'[k].job = rows[k].job
  BY DEF BecomesDue, procVars, failedVars, Ordered, Safe, Typed, TypeOK, Row
<1>2. Known' /\ ChainOrder'
  BY <1>1 DEF Ordered, Known, ChainOrder, HasNext
<1> QED BY <1>1, <1>2, KeptOnRecord, Stutters DEF Ordered

LEMMA ForgetOrdered ==
    ASSUME Ordered, Safe', NEW i \in Ids, ForgetFailed(i)
    PROVE  Ordered' /\ PromiseStep
<1>1. /\ UNCHANGED <<pc, rec, op, rows, accepted, done>>
      /\ failed[i] \in Jobs /\ forgotten' = forgotten \cup {failed[i]}
      /\ failed'[i] = NoJob /\ \A k \in Ids \ {i} : failed'[k] = failed[k]
  BY DEF ForgetFailed, Forget, DeleteFailed, procVars, Ordered, Safe, Typed, TypeOK
<1>2. PICK j \in Jobs : j = failed[i]
  BY <1>1
<1>3. /\ \A x \in Jobs \ {j}, k \in Ids : Holds(k, x)' <=> Holds(k, x)
      /\ Holds(i, j)
  BY <1>1, <1>2 DEF Holds
<1>4. OnRecord' \in {OnRecord, OnRecord \ {j}} /\ j \in OnRecord
  <2>1. CASE \E k \in Ids : Holds(k, j)'
    <3>1. OnRecord' = OnRecord
      BY <1>3, <2>1 DEF OnRecord
    <3> QED BY <1>3, <3>1 DEF OnRecord
  <2>2. CASE ~\E k \in Ids : Holds(k, j)'
    <3>1. OnRecord' = OnRecord \ {j}
      BY <1>3, <2>2 DEF OnRecord
    <3> QED BY <1>3, <3>1 DEF OnRecord
  <2> QED BY <2>1, <2>2
<1>5. Promise!Discard(j)
  BY <1>1, <1>2, <1>4 DEF Promise!Discard
<1>6. \A k \in Ids : failed'[k] \in {failed[k], NoJob}
  BY <1>1
<1>7. Known' /\ ChainOrder'
  BY <1>1, <1>6 DEF Ordered, Known, ChainOrder, HasNext
<1> QED BY <1>5, <1>7 DEF Ordered, PromiseStep, Promise!Next

LEMMA StepOrdered ==
    ASSUME Ordered, [Next]_vars
    PROVE  Ordered' /\ PromiseStep
<1>1. Safe'
  BY StepSafe DEF Ordered
<1>2. ASSUME NEW w \in Workers, WorkerStep(w) \/ Disturb(w)
      PROVE  Ordered' /\ PromiseStep
  BY <1>1, <1>2, LoopOrdered, QuietStatementsOrdered, PushNextLinkOrdered,
     RecordFailedOrdered, DeleteOrdered DEF WorkerStep
<1>3. CASE UNCHANGED vars
  <2>1. UNCHANGED <<pc, rec, op, failed, rows, accepted, done, forgotten>>
    BY <1>3 DEF vars, procVars, failedVars
  <2>2. Known' /\ ChainOrder'
    BY <2>1 DEF Ordered, Known, ChainOrder, HasNext
  <2> QED BY <1>1, <2>1, <2>2, KeptOnRecord, Stutters DEF Ordered
<1> QED BY <1>1, <1>2, <1>3, DispatchOrdered, ClockOrdered, ForgetOrdered,
           OperatorOrdered DEF Next

(***************************************************************************)
(* A link enters the queue only after the job before it has run.           *)
(***************************************************************************)
THEOREM ChainsAreOrdered == Spec => []ChainOrder
<1>1. Ordered => ChainOrder
  BY DEF Ordered
<1>2. Ordered /\ [Next]_vars => Ordered'
  BY StepOrdered
<1> QED BY <1>1, <1>2, InitOrdered, PTL DEF Spec

(***************************************************************************)
(* The database queue implements the promise.                              *)
(***************************************************************************)
THEOREM Implements == Spec => Delivers
<1>1. Init => Promise!Init
  BY DEF Init, ProcInit, FailedInit, Promise!Init, OnRecord, Holds, NoRow
<1>2. Ordered /\ [Next]_vars => Ordered'
  BY StepOrdered
<1>3. Ordered /\ [Next]_vars => [Promise!Next]_(Promise!vars)
  BY StepOrdered DEF PromiseStep
<1> QED BY <1>1, <1>2, <1>3, InitOrdered, PTL DEF Spec, Delivers, Promise!Spec

=============================================================================
