------------------------ MODULE DatabaseQueue_proofs ------------------------
(***************************************************************************)
(* What DatabaseQueue guarantees for every set of jobs, chain, number of   *)
(* workers and operators, and every bound: types, that no job is lost, how *)
(* often a job fails before it is recorded, and who holds a reserved row.  *)
(***************************************************************************)
EXTENDS DatabaseQueue, FiniteSetTheorems, TLAPS

\* What a worker between pop() and the end of its try/catch has in hand.
HandsOK ==
    \A w \in Workers :
        /\ pc[w] \in {"selected"} \cup Working => rec[w].id \in Ids /\ rec[w].job \in Jobs
        /\ pc[w] = "chaining" => HasNext(rec[w].job)

Typed == TypeOK /\ HandsOK

USE JobsAssumption, BoundsAssumption

LEMMA InitTyped == Init => Typed
  BY DEF Init, ProcInit, FailedInit, Typed, TypeOK, HandsOK, Ids, NoRow, Row,
         NoRecord, Record, NoRetry, Retry, Working, Failed, Down

LEMMA ProducersTyped ==
    ASSUME Typed,
           \/ \E j \in Jobs, due \in BOOLEAN : Dispatch(j, due)
           \/ \E i \in Ids : BecomesDue(i) \/ ForgetFailed(i)
    PROVE  Typed'
<1> USE DEF Typed, TypeOK, HandsOK
<1>1. CASE \E j \in Jobs, due \in BOOLEAN : Dispatch(j, due)
  BY <1>1, SMTT(30) DEF Dispatch, Insert, NewRow, Row, Ids, failedVars, HasNext
<1>2. CASE \E i \in Ids : BecomesDue(i)
  <2> PICK i \in Ids : BecomesDue(i)
    BY <1>2
  <2>1. rows[i] \in Row
    OBVIOUS
  <2>2. [rows[i] EXCEPT !.due = TRUE] \in Row
    BY <2>1 DEF Row
  <2>3. rows' \in [Ids -> Row]
    BY <2>2 DEF BecomesDue
  <2> QED
    BY <2>3 DEF BecomesDue, procVars, failedVars, HasNext
<1>3. CASE \E i \in Ids : ForgetFailed(i)
  BY <1>3 DEF ForgetFailed, Forget, DeleteFailed, procVars, HasNext
<1> QED BY <1>1, <1>2, <1>3

----------------------------------------------------------------------------
LEMMA LoopTyped ==
    ASSUME Typed, NEW w \in Workers, LoopStep(w) \/ Disturb(w)
    PROVE  Typed'
<1> USE DEF Typed, TypeOK, HandsOK, Goto, Catch, NextJob, Working, Failed, Down
<1>1. CASE HandleSucceeds(w) /\ UNCHANGED <<failedVars, rows, nextId>>
  BY <1>1 DEF HandleSucceeds, failedVars
<1>2. ASSUME Catch(w), pc[w] \in Working
      PROVE  /\ pc' \in [Workers -> {"idle", "selected"} \cup Working \cup Down]
             /\ fails' \in [Ids -> Nat]
             /\ pc'[w] \in {"recording", "releasing"}
             /\ \A x \in Workers \ {w} : pc'[x] = pc[x]
  <2>1. fails[rec[w].id] \in Nat
    BY <1>2
  <2> QED BY <2>1, <1>2 DEF Exhausted
<1>3. CASE HandleFails(w) /\ UNCHANGED <<failedVars, rows, nextId>>
  BY <1>2, <1>3 DEF HandleFails, failedVars, HasNext
<1>4. CASE StepFails(w) /\ UNCHANGED <<failedVars, rows, nextId>>
  BY <1>2, <1>4 DEF StepFails, failedVars, HasNext
<1>5. CASE Exit(w) /\ UNCHANGED <<failedVars, rows, nextId>>
  BY <1>5 DEF Exit, failedVars, HasNext
<1>6. CASE Shutdown(w) /\ UNCHANGED <<failedVars, rows, nextId>>
  BY <1>6 DEF Shutdown, failedVars, HasNext
<1>7. CASE Crash(w, InHand(w)) /\ UNCHANGED <<failedVars, rows, nextId>>
  <2>1. rec[w].id \in Ids \cup {0}
    BY DEF Record
  <2> QED BY <1>7, <2>1 DEF Crash, InHand, failedVars, HasNext, NoRecord, Record
<1>8. CASE Restart(w) /\ UNCHANGED <<failedVars, rows, nextId>>
  BY <1>8 DEF Restart, failedVars, HasNext
<1> QED BY <1>1, <1>3, <1>4, <1>5, <1>6, <1>7, <1>8 DEF LoopStep, Disturb

LEMMA InsertTyped ==
    ASSUME rows \in [Ids -> Row], nextId \in 1 .. MaxId + 1,
           NEW j \in Jobs \cup {NoJob}, NEW due \in BOOLEAN, Insert(j, due)
    PROVE  rows' \in [Ids -> Row] /\ nextId' \in 1 .. MaxId + 1
<1>1. NewRow(j, due) \in Row
  BY DEF NewRow, Row
<1> QED BY <1>1 DEF Insert, Ids

LEMMA UpdateTyped ==
    ASSUME rows \in [Ids -> Row], NEW i \in Ids, NEW row \in Row, UpdateRow(i, row)
    PROVE  rows' \in [Ids -> Row]
BY DEF UpdateRow

LEMMA DeleteTyped ==
    ASSUME rows \in [Ids -> Row], NEW i \in Ids, DeleteRow(i)
    PROVE  rows' \in [Ids -> Row]
BY DEF DeleteRow, NoRow, Row

LEMMA StatementsTyped ==
    ASSUME Typed, NEW w \in Workers,
           \/ PopSelect(w) \/ PopReserve(w) \/ PopFails(w)
           \/ PushNextLink(w) \/ DeleteJob(w) \/ RecordFailed(w) \/ Bury(w)
           \/ ReleaseRead(w) \/ ReleaseGone(w) \/ ReleaseWrite(w)
    PROVE  Typed'
<1> USE DEF Typed, TypeOK, HandsOK, Goto, NextJob, Working, Failed, Down
<1>0. pc[w] \in {"selected"} \cup Working => rec[w].id \in Ids /\ rec[w].job \in Jobs
  OBVIOUS
<1>a. NoRecord \in Record
  BY DEF NoRecord, Record
<1>1. CASE PopSelect(w)
  <2>1. PICK i \in Poppable :
          rec' = [rec EXCEPT ![w] =
                    [id |-> i, job |-> rows[i].job, attempts |-> rows[i].attempts]]
    BY <1>1 DEF PopSelect
  <2>2. i \in Ids /\ rows[i].job \in Jobs /\ rows[i].attempts \in Nat
    BY <2>1 DEF Poppable, RowExists, Row
  <2>3. [id |-> i, job |-> rows[i].job, attempts |-> rows[i].attempts] \in Record
    BY <2>2 DEF Record
  <2> QED BY <1>1, <2>1, <2>2, <2>3 DEF PopSelect, failedVars, HasNext
<1>2. CASE PopReserve(w)
  <2>0. rows[rec[w].id] \in Row
    BY <1>0, <1>2 DEF PopReserve
  <2>1. [rows[rec[w].id] EXCEPT !.reserved = TRUE] \in Row
    BY <2>0 DEF Row
  <2>2. rows' \in [Ids -> Row]
    BY <1>0, <1>2, <2>1, UpdateTyped DEF PopReserve
  <2> QED BY <1>2, <2>2 DEF PopReserve, failedVars, HasNext
<1>3. CASE PopFails(w)
  BY <1>3, <1>a DEF PopFails, failedVars, HasNext
<1>4. CASE PushNextLink(w)
  <2>1. NextLink[rec[w].job] \in Jobs
    BY <1>0, <1>4 DEF PushNextLink, HasNext
  <2>2. rows' \in [Ids -> Row] /\ nextId' \in 1 .. MaxId + 1
    BY <1>4, <2>1, InsertTyped DEF PushNextLink
  <2> QED BY <1>4, <2>1, <2>2 DEF PushNextLink, failedVars, HasNext
<1>5. CASE DeleteJob(w) \/ Bury(w)
  <2>1. rows' \in [Ids -> Row]
    BY <1>0, <1>5, DeleteTyped DEF DeleteJob, Bury
  <2> QED BY <1>5, <1>a, <2>1 DEF DeleteJob, Bury, failedVars, HasNext
<1>6. CASE RecordFailed(w)
  <2>1. failed' \in [Ids -> Jobs \cup {NoJob}] /\ nextId' \in 1 .. MaxId + 1
    BY <1>0, <1>6 DEF RecordFailed, InsertFailed, Ids
  <2> QED BY <1>6, <2>1 DEF RecordFailed, HasNext
<1>7. CASE ReleaseRead(w)
  <2>1. rows[rec[w].id].attempts \in Nat
    BY <1>0, <1>7 DEF ReleaseRead, Row
  <2>2. [rec[w] EXCEPT !.attempts = rows[rec[w].id].attempts] \in Record
    BY <2>1 DEF Record
  <2>3. /\ rec' = [rec EXCEPT ![w] = [rec[w] EXCEPT !.attempts = rows[rec[w].id].attempts]]
        /\ rec'[w].id = rec[w].id /\ rec'[w].job = rec[w].job
    BY <1>7 DEF ReleaseRead, Record
  <2> QED BY <1>7, <2>2, <2>3 DEF ReleaseRead, failedVars, HasNext
<1>8. CASE ReleaseGone(w)
  BY <1>8, <1>a DEF ReleaseGone, failedVars, HasNext
<1>9. CASE ReleaseWrite(w)
  <2>1. rec[w].attempts + 1 \in Nat
    BY DEF Record
  <2>0. rows[rec[w].id] \in Row
    BY <1>0, <1>9 DEF ReleaseWrite
  <2>2. [rows[rec[w].id] EXCEPT !.reserved = FALSE, !.due = FALSE,
                                !.attempts = rec[w].attempts + 1] \in Row
    BY <2>0, <2>1 DEF Row
  <2>3. rows' \in [Ids -> Row]
    BY <1>0, <1>9, <2>2, UpdateTyped DEF ReleaseWrite
  <2> QED BY <1>9, <1>a, <2>3 DEF ReleaseWrite, failedVars, HasNext
<1> QED BY <1>1, <1>2, <1>3, <1>4, <1>5, <1>6, <1>7, <1>8, <1>9

LEMMA OperatorsTyped ==
    ASSUME Typed, NEW o \in Operators, OperatorStep(o)
    PROVE  Typed'
<1> USE DEF Typed, TypeOK, HandsOK
<1>0. op[o] \in Retry
  OBVIOUS
<1>1. CASE RetryPush(o)
  <2>1. op[o].job \in Jobs \cup {NoJob}
    BY <1>0 DEF Retry
  <2>2. rows' \in [Ids -> Row] /\ nextId' \in 1 .. MaxId + 1
    BY <1>1, <2>1, InsertTyped DEF RetryPush
  <2>3. [op[o] EXCEPT !.step = "pushed"] \in Retry
    BY <1>0 DEF Retry
  <2>4. op' \in [Operators -> Retry]
    <3>1. op' = [op EXCEPT ![o] = [op[o] EXCEPT !.step = "pushed"]]
      BY <1>1 DEF RetryPush, RetryPushed
    <3> QED BY <3>1, <2>3
  <2> QED BY <1>1, <2>2, <2>4 DEF RetryPush, RetryPushed, procVars, HasNext
<1>2. CASE RetryFind(o) /\ UNCHANGED <<procVars, rows, nextId>>
  <2>1. PICK i \in Ids :
          op' = [op EXCEPT ![o] = [step |-> "found", id |-> i, job |-> failed[i]]]
    BY <1>2 DEF RetryFind
  <2>2. [step |-> "found", id |-> i, job |-> failed[i]] \in Retry
    BY DEF Retry
  <2> QED BY <1>2, <2>1, <2>2 DEF RetryFind, procVars, HasNext
<1>3. CASE (RetryDelete(o) \/ RetryKilled(o)) /\ UNCHANGED <<procVars, rows, nextId>>
  <2>1. NoRetry \in Retry
    BY DEF NoRetry, Retry
  <2>2. op' \in [Operators -> Retry] /\ failed' \in [Ids -> Jobs \cup {NoJob}]
    BY <1>3, <2>1 DEF RetryDelete, RetryKilled, DeleteFailed
  <2> QED BY <1>3, <2>2 DEF RetryDelete, RetryKilled, procVars, HasNext
<1> QED BY <1>1, <1>2, <1>3 DEF OperatorStep

LEMMA StutteringTyped ==
    ASSUME Typed, UNCHANGED vars
    PROVE  Typed'
BY DEF Typed, TypeOK, HandsOK, vars, procVars, failedVars, HasNext

LEMMA StepTyped ==
    ASSUME Typed, [Next]_vars
    PROVE  Typed'
<1>1. CASE \E j \in Jobs, due \in BOOLEAN : Dispatch(j, due)
  BY <1>1, ProducersTyped
<1>2. CASE \E i \in Ids : BecomesDue(i) \/ ForgetFailed(i)
  BY <1>2, ProducersTyped
<1>3. CASE \E w \in Workers : WorkerStep(w) \/ Disturb(w)
  BY <1>3, LoopTyped, StatementsTyped DEF WorkerStep
<1>4. CASE \E o \in Operators : OperatorStep(o)
  BY <1>4, OperatorsTyped
<1>5. CASE UNCHANGED vars
  BY <1>5, StutteringTyped
<1> QED BY <1>1, <1>2, <1>3, <1>4, <1>5 DEF Next

(***************************************************************************)
(* Every variable keeps its type, and a worker inside the try/catch of a   *)
(* job always has the key of a row and a job in its record.                *)
(***************************************************************************)
THEOREM TypeCorrect == Spec => []TypeOK
<1>1. Typed => TypeOK
  BY DEF Typed
<1> QED BY <1>1, InitTyped, StepTyped, PTL DEF Spec

----------------------------------------------------------------------------
(***************************************************************************)
(* No job is lost.                                                         *)
(*                                                                         *)
(* NoJobLost is not inductive: a worker may hold the key of a row that     *)
(* another one deleted, an operator the key of a failed record that was    *)
(* retried meanwhile. Safe adds that keys are never reused, that a key in  *)
(* hand still names the job it was read with, and DeletersSecured.         *)
(***************************************************************************)

\* AUTOINCREMENT: a key in use is below the counter.
RecordsFresh ==
    \A i \in Ids : rows[i].job # NoJob \/ failed[i] # NoJob => i < nextId

\* A key in hand names the job it was read with, or nothing any more.
WorkerKeys(w) ==
    pc[w] \in {"selected"} \cup Working =>
        /\ rec[w].id < nextId
        /\ rows[rec[w].id].job \in {rec[w].job, NoJob}

OperatorKeys(o) ==
    op[o].step # "none" =>
        /\ op[o].id \in Ids /\ op[o].id < nextId
        /\ op[o].job \in Jobs
        /\ failed[op[o].id] \in {op[o].job, NoJob}

Safe ==
    /\ Typed
    /\ RecordsFresh
    /\ \A w \in Workers : WorkerKeys(w)
    /\ \A o \in Operators : OperatorKeys(o)
    /\ DeletersSecured
    /\ NoJobLost

LEMMA InitSafe == Init => Safe
<1> SUFFICES ASSUME Init PROVE Safe
  OBVIOUS
<1>1. Typed
  BY InitTyped
<1>2. RecordsFresh
  BY DEF Init, FailedInit, RecordsFresh, NoRow
<1>3. \A w \in Workers : WorkerKeys(w) /\ WorkerSecured(w)
  BY DEF Init, ProcInit, WorkerKeys, WorkerSecured, Working, Failed
<1>4. \A o \in Operators : OperatorKeys(o) /\ OperatorSecured(o)
  BY DEF Init, FailedInit, OperatorKeys, OperatorSecured, NoRetry
<1>5. NoJobLost
  BY DEF Init, ProcInit, NoJobLost
<1> QED BY <1>1, <1>2, <1>3, <1>4, <1>5 DEF Safe, DeletersSecured

----------------------------------------------------------------------------
(* What every step does to the records, and what follows for everybody who *)
(* takes no part in it.                                                    *)

Grows == done \subseteq done' /\ accepted \subseteq accepted' /\ forgotten \subseteq forgotten'

\* A record stays, or is given up for a later one, or nothing is owed any more.
Moves ==
    \A j \in Jobs, i \in Ids : Holds(i, j) => Holds(i, j)' \/ CoveredAfter(i, j)'

\* A key in use changes to naming nothing, never to naming another job.
KeepsKeys ==
    /\ nextId' \in Nat /\ nextId <= nextId'
    /\ \A i \in Ids : i < nextId =>
         /\ rows'[i].job \in {rows[i].job, NoJob}
         /\ failed'[i] \in {failed[i], NoJob}

Frame == Grows /\ Moves /\ KeepsKeys /\ RecordsFresh'

LEMMA SettledStable ==
    ASSUME Grows, NEW j \in Jobs, Settled(j)
    PROVE  Settled(j)'
BY DEF Grows, Settled, HasNext

LEMMA CoverStable ==
    ASSUME Grows, Moves, NEW j \in Jobs, NEW i \in Ids, CoveredAfter(i, j)
    PROVE  CoveredAfter(i, j)'
<1>1. CASE Settled(j)
  BY <1>1, SettledStable DEF CoveredAfter
<1>2. ASSUME NEW k \in Ids, k > i, Holds(k, j)
      PROVE  CoveredAfter(i, j)'
  <2>1. Holds(k, j)' \/ CoveredAfter(k, j)'
    BY <1>2 DEF Moves
  <2> QED BY <1>2, <2>1 DEF CoveredAfter, Ids
<1> QED BY <1>1, <1>2 DEF CoveredAfter

LEMMA NoJobLostStep ==
    ASSUME NoJobLost, Frame, accepted \subseteq Jobs,
           \A j \in accepted' \ accepted : \E i \in Ids : Holds(i, j)'
    PROVE  NoJobLost'
<1> SUFFICES ASSUME NEW j \in accepted', j \in accepted
             PROVE  Settled(j)' \/ \E i \in Ids : Holds(i, j)'
  BY DEF NoJobLost
<1>1. CASE Settled(j)
  BY <1>1, SettledStable DEF Frame
<1>2. ASSUME NEW i \in Ids, Holds(i, j)
      PROVE  Settled(j)' \/ \E k \in Ids : Holds(k, j)'
  BY <1>2 DEF Frame, Moves, CoveredAfter
<1> QED BY <1>1, <1>2 DEF NoJobLost

LEMMA BystandingWorker ==
    ASSUME Safe, Frame, NEW w \in Workers, pc'[w] = pc[w], rec'[w] = rec[w]
    PROVE  WorkerKeys(w)' /\ WorkerSecured(w)'
<1> DEFINE j == rec[w].job
           i == rec[w].id
<1>1. pc[w] \in {"selected"} \cup Working => i \in Ids /\ j \in Jobs
  BY DEF Safe, Typed, HandsOK
<1>2. WorkerKeys(w)'
  <2> SUFFICES ASSUME pc[w] \in {"selected"} \cup Working
               PROVE  i < nextId' /\ rows'[i].job \in {j, NoJob}
    BY DEF WorkerKeys
  <2>1. i \in Ids /\ i < nextId /\ rows[i].job \in {j, NoJob}
    BY <1>1 DEF Safe, WorkerKeys
  <2>2. rows'[i].job \in {rows[i].job, NoJob}
    BY <2>1 DEF Frame, KeepsKeys
  <2>3. i < nextId'
    BY <2>1 DEF Frame, KeepsKeys, Safe, Typed, TypeOK, Ids
  <2> QED BY <2>1, <2>2, <2>3
<1>3. pc[w] = "chaining" => rec'[w].job \in done'
  BY DEF Safe, DeletersSecured, WorkerSecured, Frame, Grows
<1>4. ASSUME pc[w] = "deleting"
      PROVE  Settled(rec[w].job)'
  <2>1. PICK x \in Jobs : x = rec[w].job
    BY <1>1, <1>4 DEF Working
  <2>2. Settled(x)'
    BY <1>4, <2>1, SettledStable DEF Safe, DeletersSecured, WorkerSecured, Frame
  <2> QED BY <2>1, <2>2 DEF Settled, HasNext
<1>5. ASSUME pc[w] = "burying"
      PROVE  CoveredAfter(rec[w].id, rec[w].job)'
  <2>1. PICK x \in Jobs, y \in Ids : x = rec[w].job /\ y = rec[w].id
    BY <1>1, <1>5 DEF Working
  <2>2. CoveredAfter(y, x)'
    BY <1>5, <2>1, CoverStable DEF Safe, DeletersSecured, WorkerSecured, Frame
  <2> QED BY <2>1, <2>2 DEF CoveredAfter, Settled, HasNext, Holds
<1> QED BY <1>2, <1>3, <1>4, <1>5 DEF WorkerSecured

LEMMA BystandingOperator ==
    ASSUME Safe, Frame, NEW o \in Operators, op'[o] = op[o]
    PROVE  OperatorKeys(o)' /\ OperatorSecured(o)'
<1>1. OperatorKeys(o)'
  <2> SUFFICES ASSUME op[o].step # "none"
               PROVE  /\ op[o].id \in Ids /\ op[o].id < nextId'
                      /\ op[o].job \in Jobs
                      /\ failed'[op[o].id] \in {op[o].job, NoJob}
    BY DEF OperatorKeys
  <2>1. /\ op[o].id \in Ids /\ op[o].id < nextId /\ op[o].job \in Jobs
        /\ failed[op[o].id] \in {op[o].job, NoJob}
    BY DEF Safe, OperatorKeys
  <2>2. failed'[op[o].id] \in {failed[op[o].id], NoJob}
    BY <2>1 DEF Frame, KeepsKeys
  <2>3. op[o].id < nextId'
    BY <2>1 DEF Frame, KeepsKeys, Safe, Typed, TypeOK, Ids
  <2> QED BY <2>1, <2>2, <2>3
<1>2. ASSUME op[o].step = "pushed"
      PROVE  CoveredAfter(op[o].id, op[o].job)'
  <2>1. PICK x \in Jobs, y \in Ids : x = op[o].job /\ y = op[o].id
    BY <1>2 DEF Safe, OperatorKeys
  <2>2. CoveredAfter(y, x)'
    BY <1>2, <2>1, CoverStable DEF Safe, DeletersSecured, OperatorSecured, Frame
  <2> QED BY <2>1, <2>2 DEF CoveredAfter, Settled, HasNext, Holds
<1> QED BY <1>1, <1>2 DEF OperatorSecured

----------------------------------------------------------------------------
(* The five ways in which a step changes the two tables *)

LEMMA KeptFrame ==
    ASSUME Safe, Grows, failed' = failed, nextId' = nextId,
           \A i \in Ids : rows'[i].job = rows[i].job
    PROVE  Frame
<1>1. Moves
  BY DEF Moves, Holds
<1>2. KeepsKeys
  BY DEF KeepsKeys, Safe, Typed, TypeOK
<1>3. RecordsFresh'
  BY DEF RecordsFresh, Safe
<1> QED BY <1>1, <1>2, <1>3 DEF Frame

\* An insert into jobs.
LEMMA InsertFrame ==
    ASSUME Safe, Grows, NEW j \in Jobs, NEW due \in BOOLEAN, Insert(j, due),
           failed' = failed
    PROVE  /\ Frame
           /\ nextId' = nextId + 1
           /\ \E k \in Ids : k = nextId /\ Holds(k, j)'
<1>1. nextId \in Ids /\ nextId' = nextId + 1
  BY DEF Insert, Safe, Typed, TypeOK, Ids
<1>2. PICK k \in Ids : k = nextId
  BY <1>1
<1>3. /\ rows'[k] = NewRow(j, due) /\ rows[k].job = NoJob
      /\ \A i \in Ids \ {k} : rows'[i] = rows[i]
  BY <1>2 DEF Insert, Safe, Typed, TypeOK, RecordsFresh, Ids
<1>4. Holds(k, j)'
  BY <1>3 DEF Holds, NewRow
<1>5. Moves
  <2> SUFFICES ASSUME NEW x \in Jobs, NEW i \in Ids, Holds(i, x)
               PROVE  Holds(i, x)'
    BY DEF Moves
  <2> QED BY <1>3 DEF Holds
<1>6. KeepsKeys
  BY <1>1, <1>2, <1>3 DEF KeepsKeys, Safe, Typed, TypeOK, Ids
<1>7. RecordsFresh'
  BY <1>1, <1>2, <1>3 DEF RecordsFresh, Safe, Ids
<1> QED BY <1>1, <1>2, <1>4, <1>5, <1>6, <1>7 DEF Frame

\* An insert into failed_jobs.
LEMMA RecordFrame ==
    ASSUME Safe, Grows, NEW j \in Jobs, nextId <= MaxId, InsertFailed(nextId, j),
           nextId' = nextId + 1, rows' = rows
    PROVE  Frame /\ \E k \in Ids : k = nextId /\ Holds(k, j)'
<1>1. nextId \in Ids
  BY DEF Safe, Typed, TypeOK, Ids
<1>2. PICK k \in Ids : k = nextId
  BY <1>1
<1>3. /\ failed'[k] = j /\ failed[k] = NoJob
      /\ \A i \in Ids \ {k} : failed'[i] = failed[i]
  BY <1>2 DEF InsertFailed, Safe, Typed, TypeOK, RecordsFresh, Ids
<1>4. Holds(k, j)'
  BY <1>3 DEF Holds
<1>5. Moves
  BY <1>3 DEF Moves, Holds
<1>6. KeepsKeys
  BY <1>1, <1>2, <1>3 DEF KeepsKeys, Safe, Typed, TypeOK, Ids
<1>7. RecordsFresh'
  BY <1>1, <1>2, <1>3 DEF RecordsFresh, Safe, Ids
<1> QED BY <1>2, <1>4, <1>5, <1>6, <1>7 DEF Frame

\* A row is deleted; its job is covered.
LEMMA DeleteRowFrame ==
    ASSUME Safe, Grows, NEW i \in Ids, DeleteRow(i), failed' = failed, nextId' = nextId,
           \A j \in Jobs : rows[i].job = j => CoveredAfter(i, j)
    PROVE  Frame
<1>1. /\ rows'[i].job = NoJob
      /\ \A k \in Ids \ {i} : rows'[k] = rows[k]
  BY DEF DeleteRow, NoRow, Safe, Typed, TypeOK
<1>2. Moves
  <2> SUFFICES ASSUME NEW j \in Jobs, NEW k \in Ids, Holds(k, j), ~Holds(k, j)'
               PROVE  CoveredAfter(k, j)'
    BY DEF Moves
  <2>1. k = i /\ rows[i].job = j
    BY <1>1 DEF Holds
  <2>2. CASE Settled(j)
    BY <2>2, SettledStable DEF CoveredAfter
  <2>3. ASSUME NEW y \in Ids, y > i, Holds(y, j)
        PROVE  CoveredAfter(k, j)'
    <3>1. y # i
      BY <2>3 DEF Ids
    <3>2. Holds(y, j)'
      BY <1>1, <2>3, <3>1 DEF Holds
    <3> QED BY <2>1, <2>3, <3>2 DEF CoveredAfter
  <2> QED BY <2>1, <2>2, <2>3 DEF CoveredAfter
<1>3. KeepsKeys
  <2>1. nextId' \in Nat /\ nextId <= nextId'
    BY DEF Safe, Typed, TypeOK
  <2> QED BY <1>1, <2>1 DEF KeepsKeys
<1>4. RecordsFresh'
  BY <1>1 DEF RecordsFresh, Safe
<1> QED BY <1>2, <1>3, <1>4 DEF Frame

\* A failed record is deleted; its job is covered, or discarded by this step.
LEMMA DeleteFailedFrame ==
    ASSUME Safe, Grows, NEW i \in Ids, DeleteFailed(i), rows' = rows, nextId' = nextId,
           \A j \in Jobs : failed[i] = j => CoveredAfter(i, j) \/ Settled(j)'
    PROVE  Frame
<1>1. /\ failed'[i] = NoJob
      /\ \A k \in Ids \ {i} : failed'[k] = failed[k]
  BY DEF DeleteFailed, Safe, Typed, TypeOK
<1>2. Moves
  <2> SUFFICES ASSUME NEW j \in Jobs, NEW k \in Ids, Holds(k, j), ~Holds(k, j)'
               PROVE  CoveredAfter(k, j)'
    BY DEF Moves
  <2>1. k = i /\ failed[i] = j
    BY <1>1 DEF Holds
  <2>2. CASE Settled(j) \/ Settled(j)'
    BY <2>2, SettledStable DEF CoveredAfter
  <2>3. ASSUME NEW y \in Ids, y > i, Holds(y, j)
        PROVE  CoveredAfter(k, j)'
    <3>1. y # i
      BY <2>3 DEF Ids
    <3>2. Holds(y, j)'
      BY <1>1, <2>3, <3>1 DEF Holds
    <3> QED BY <2>1, <2>3, <3>2 DEF CoveredAfter
  <2> QED BY <2>1, <2>2, <2>3 DEF CoveredAfter
<1>3. KeepsKeys
  <2>1. nextId' \in Nat /\ nextId <= nextId'
    BY DEF Safe, Typed, TypeOK
  <2> QED BY <1>1, <2>1 DEF KeepsKeys
<1>4. RecordsFresh'
  BY <1>1 DEF RecordsFresh, Safe
<1> QED BY <1>2, <1>3, <1>4 DEF Frame

----------------------------------------------------------------------------
(* The steps of a worker *)

\* What a step of w has to establish; everybody else is a bystander.
Advances(w) ==
    /\ Frame
    /\ op' = op
    /\ \A x \in Workers \ {w} : pc'[x] = pc[x] /\ rec'[x] = rec[x]
    /\ WorkerKeys(w)' /\ WorkerSecured(w)'
    /\ \A j \in accepted' \ accepted : \E i \in Ids : Holds(i, j)'

\* The worker lets go of its row and no job is accepted.
LEMMA LetsGo ==
    ASSUME NEW w \in Workers, Frame, op' = op, accepted' = accepted,
           \A x \in Workers \ {w} : pc'[x] = pc[x] /\ rec'[x] = rec[x],
           pc'[w] \in {"idle"} \cup Down
    PROVE  Advances(w)
BY DEF Advances, WorkerKeys, WorkerSecured, Working, Failed, Down

\* The worker keeps its row, which keeps its job.
LEMMA KeepsRow ==
    ASSUME Safe, NEW w \in Workers, Frame, pc[w] \in {"selected"} \cup Working,
           rec'[w].id = rec[w].id, rec'[w].job = rec[w].job
    PROVE  WorkerKeys(w)'
<1> DEFINE i == rec[w].id
<1>1. i \in Ids /\ i < nextId /\ rows[i].job \in {rec[w].job, NoJob}
  BY DEF Safe, Typed, HandsOK, WorkerKeys
<1>2. rows'[i].job \in {rows[i].job, NoJob}
  BY <1>1 DEF Frame, KeepsKeys
<1>3. i < nextId'
  BY <1>1 DEF Frame, KeepsKeys, Safe, Typed, TypeOK, Ids
<1> QED BY <1>1, <1>2, <1>3 DEF WorkerKeys

LEMMA LoopSafe ==
    ASSUME Safe, NEW w \in Workers, LoopStep(w) \/ Disturb(w)
    PROVE  Advances(w)
<1>1. /\ UNCHANGED <<failedVars, rows, nextId>>
      /\ \/ HandleSucceeds(w) \/ HandleFails(w) \/ StepFails(w) \/ Exit(w)
         \/ Shutdown(w) \/ Crash(w, InHand(w)) \/ Restart(w)
  BY DEF LoopStep, Disturb
<1>2. Grows /\ op' = op /\ accepted' = accepted
  BY <1>1 DEF HandleSucceeds, HandleFails, StepFails, Exit, Shutdown, Crash, Restart,
              Grows, failedVars
<1>3. Frame
  BY <1>1, <1>2, KeptFrame DEF failedVars
<1>4. pc \in [Workers -> {"idle", "selected"} \cup Working \cup Down] /\ rec \in [Workers -> Record]
  BY DEF Safe, Typed, TypeOK
<1>5. CASE HandleSucceeds(w)
  <2>1. /\ rec' = rec /\ done' = done \cup {rec[w].job}
        /\ pc'[w] \in {"chaining", "deleting"}
        /\ pc'[w] = "deleting" => ~HasNext(rec[w].job)
        /\ \A x \in Workers \ {w} : pc'[x] = pc[x]
    BY <1>4, <1>5 DEF HandleSucceeds, Goto
  <2>2. WorkerKeys(w)'
    BY <1>3, <1>5, <2>1, KeepsRow DEF HandleSucceeds, Working
  <2>3. WorkerSecured(w)'
    BY <2>1 DEF WorkerSecured, Settled, HasNext
  <2> QED BY <1>2, <1>3, <2>1, <2>2, <2>3 DEF Advances
<1>6. CASE HandleFails(w) \/ StepFails(w)
  <2>1. /\ rec' = rec /\ pc'[w] \in {"recording", "releasing"}
        /\ \A x \in Workers \ {w} : pc'[x] = pc[x]
    BY <1>4, <1>6 DEF HandleFails, StepFails, Catch, Goto
  <2>2. WorkerKeys(w)'
    BY <1>3, <1>6, <2>1, KeepsRow DEF HandleFails, StepFails, Working
  <2>3. WorkerSecured(w)'
    BY <2>1 DEF WorkerSecured
  <2> QED BY <1>2, <1>3, <2>1, <2>2, <2>3 DEF Advances
<1>7. CASE Shutdown(w)
  <2>1. \A x \in Workers : pc'[x] = pc[x] /\ rec'[x] = rec[x]
    BY <1>7 DEF Shutdown
  <2>2. WorkerKeys(w)' /\ WorkerSecured(w)'
    BY <1>3, <2>1, BystandingWorker
  <2> QED BY <1>2, <1>3, <2>1, <2>2 DEF Advances
<1>8. CASE Exit(w) \/ Crash(w, InHand(w)) \/ Restart(w)
  <2>1. /\ pc'[w] \in {"idle"} \cup Down
        /\ \A x \in Workers \ {w} : pc'[x] = pc[x] /\ rec'[x] = rec[x]
    BY <1>4, <1>8 DEF Exit, Crash, Restart, Goto, Down
  <2> QED BY <1>2, <1>3, <2>1, LetsGo
<1> QED BY <1>1, <1>5, <1>6, <1>7, <1>8

LEMMA QuietStatementsSafe ==
    ASSUME Safe, NEW w \in Workers,
           \/ PopSelect(w) \/ PopReserve(w) \/ PopFails(w)
           \/ ReleaseRead(w) \/ ReleaseGone(w) \/ ReleaseWrite(w)
    PROVE  Advances(w)
<1>1. Grows /\ op' = op /\ accepted' = accepted /\ failed' = failed /\ nextId' = nextId
  BY DEF PopSelect, PopReserve, PopFails, ReleaseRead, ReleaseGone, ReleaseWrite,
         Grows, failedVars
<1>2. /\ pc \in [Workers -> {"idle", "selected"} \cup Working \cup Down]
      /\ rec \in [Workers -> Record] /\ rows \in [Ids -> Row]
      /\ pc[w] \in {"selected"} \cup Working => rec[w].id \in Ids
  BY DEF Safe, Typed, TypeOK, HandsOK
<1>3. \A i \in Ids : rows'[i].job = rows[i].job
  <2>1. CASE PopReserve(w)
    BY <1>2, <2>1 DEF PopReserve, UpdateRow, Row
  <2>2. CASE ReleaseWrite(w)
    BY <1>2, <2>2 DEF ReleaseWrite, UpdateRow, Row, Working, Failed
  <2> QED BY <2>1, <2>2 DEF PopSelect, PopFails, ReleaseRead, ReleaseGone
<1>4. Frame
  BY <1>1, <1>3, KeptFrame
<1>5. CASE PopSelect(w)
  <2>1. PICK i \in Poppable :
          rec' = [rec EXCEPT ![w] =
                    [id |-> i, job |-> rows[i].job, attempts |-> rows[i].attempts]]
    BY <1>5 DEF PopSelect
  <2>2. /\ i \in Ids /\ i < nextId
        /\ pc'[w] = "selected" /\ rec'[w].id = i /\ rec'[w].job = rows[i].job
        /\ \A x \in Workers \ {w} : pc'[x] = pc[x] /\ rec'[x] = rec[x]
    BY <1>2, <1>5, <2>1 DEF PopSelect, Goto, Poppable, RowExists, Safe, RecordsFresh
  <2>3. WorkerKeys(w)' /\ WorkerSecured(w)'
    BY <1>1, <1>3, <2>2 DEF WorkerKeys, WorkerSecured
  <2> QED BY <1>1, <1>4, <2>2, <2>3 DEF Advances
<1>6. CASE PopReserve(w) \/ ReleaseRead(w)
  <2>1. /\ rec'[w].id = rec[w].id /\ rec'[w].job = rec[w].job
        /\ pc[w] \in {"selected"} \cup Working /\ pc'[w] \in {"handling", "rewriting"}
        /\ \A x \in Workers \ {w} : pc'[x] = pc[x] /\ rec'[x] = rec[x]
    BY <1>2, <1>6 DEF PopReserve, ReleaseRead, Goto, Record, Working, Failed
  <2>2. WorkerKeys(w)'
    BY <1>4, <2>1, KeepsRow
  <2>3. WorkerSecured(w)'
    BY <2>1 DEF WorkerSecured
  <2> QED BY <1>1, <1>4, <2>1, <2>2, <2>3 DEF Advances
<1>7. CASE PopFails(w) \/ ReleaseGone(w) \/ ReleaseWrite(w)
  <2>1. /\ pc'[w] = "idle"
        /\ \A x \in Workers \ {w} : pc'[x] = pc[x] /\ rec'[x] = rec[x]
    BY <1>2, <1>7 DEF PopFails, ReleaseGone, ReleaseWrite, NextJob, Goto
  <2> QED BY <1>1, <1>4, <2>1, LetsGo
<1> QED BY <1>5, <1>6, <1>7

LEMMA PushNextLinkSafe ==
    ASSUME Safe, NEW w \in Workers, PushNextLink(w)
    PROVE  Advances(w)
<1>1. rec[w].job \in done /\ rec[w].job \in Jobs /\ NextLink[rec[w].job] \in Jobs
  BY DEF PushNextLink, Safe, DeletersSecured, WorkerSecured, Typed, HandsOK, Working, HasNext
<1>2. Grows /\ op' = op /\ failed' = failed /\ rec' = rec
  BY DEF PushNextLink, Grows, failedVars
<1>3. PICK j \in Jobs : j = NextLink[rec[w].job]
  BY <1>1
<1>4. accepted' = accepted \cup {j} /\ Insert(j, TRUE)
  BY <1>3 DEF PushNextLink
<1>5. Frame /\ \E k \in Ids : Holds(k, j)'
  BY <1>2, <1>4, InsertFrame
<1>6. /\ pc[w] = "chaining" /\ pc'[w] = "deleting"
      /\ \A x \in Workers \ {w} : pc'[x] = pc[x]
  BY DEF PushNextLink, Goto, Safe, Typed, TypeOK
<1>7. WorkerKeys(w)'
  BY <1>2, <1>5, <1>6, KeepsRow DEF Working
<1>8. WorkerSecured(w)'
  BY <1>1, <1>2, <1>3, <1>4, <1>6 DEF WorkerSecured, Settled, HasNext, Grows
<1> QED BY <1>2, <1>4, <1>5, <1>6, <1>7, <1>8 DEF Advances

LEMMA RecordFailedSafe ==
    ASSUME Safe, NEW w \in Workers, RecordFailed(w)
    PROVE  Advances(w)
<1>1. rec[w].id \in Ids /\ rec[w].job \in Jobs /\ rec[w].id < nextId
  BY DEF RecordFailed, Safe, Typed, HandsOK, WorkerKeys, Working, Failed
<1>2. /\ Grows /\ op' = op /\ rows' = rows /\ rec' = rec /\ accepted' = accepted
      /\ nextId' = nextId + 1 /\ nextId <= MaxId
  BY DEF RecordFailed, Grows
<1>3. PICK j \in Jobs : j = rec[w].job
  BY <1>1
<1>4. InsertFailed(nextId, j)
  BY <1>3 DEF RecordFailed
<1>5. Frame /\ \E k \in Ids : k = nextId /\ Holds(k, j)'
  BY <1>2, <1>4, RecordFrame
<1>6. /\ pc[w] = "recording" /\ pc'[w] = "burying"
      /\ \A x \in Workers \ {w} : pc'[x] = pc[x]
  BY DEF RecordFailed, Goto, Safe, Typed, TypeOK
<1>7. WorkerKeys(w)'
  BY <1>2, <1>5, <1>6, KeepsRow DEF Working, Failed
<1>8. CoveredAfter(rec[w].id, rec[w].job)'
  BY <1>1, <1>2, <1>3, <1>5 DEF CoveredAfter, Holds, Ids
<1>9. WorkerSecured(w)'
  BY <1>6, <1>8 DEF WorkerSecured
<1> QED BY <1>2, <1>5, <1>6, <1>7, <1>9 DEF Advances

LEMMA DeleteSafe ==
    ASSUME Safe, NEW w \in Workers, DeleteJob(w) \/ Bury(w)
    PROVE  Advances(w)
<1>1. /\ Grows /\ op' = op /\ accepted' = accepted /\ failed' = failed /\ nextId' = nextId
      /\ DeleteRow(rec[w].id)
  BY DEF DeleteJob, Bury, Grows, failedVars
<1>2. /\ rec[w].id \in Ids /\ rows[rec[w].id].job \in {rec[w].job, NoJob}
      /\ CoveredAfter(rec[w].id, rec[w].job)
  BY DEF DeleteJob, Bury, Safe, Typed, HandsOK, WorkerKeys, Working, Failed,
         DeletersSecured, WorkerSecured, CoveredAfter
<1>3. Frame
  <2>1. PICK i \in Ids : i = rec[w].id
    BY <1>2
  <2>2. \A j \in Jobs : rows[i].job = j => CoveredAfter(i, j)
    BY <1>2, <2>1
  <2> QED BY <1>1, <2>1, <2>2, DeleteRowFrame
<1>4. /\ pc'[w] = "idle"
      /\ \A x \in Workers \ {w} : pc'[x] = pc[x] /\ rec'[x] = rec[x]
  BY DEF DeleteJob, Bury, NextJob, Goto, Safe, Typed, TypeOK
<1> QED BY <1>1, <1>3, <1>4, LetsGo

----------------------------------------------------------------------------
(* Everybody else *)

\* A step outside the workers: nobody's record in hand changes but o's.
LEMMA OperatorSafe ==
    ASSUME Safe, NEW o \in Operators, OperatorStep(o)
    PROVE  /\ Frame
           /\ UNCHANGED <<pc, rec, accepted>>
           /\ \A x \in Operators \ {o} : op'[x] = op[x]
           /\ OperatorKeys(o)' /\ OperatorSecured(o)'
<1>1. op \in [Operators -> Retry]
  BY DEF Safe, Typed, TypeOK
<1>2. CASE RetryPush(o)
  <2>1. /\ Grows /\ failed' = failed /\ UNCHANGED <<pc, rec, accepted>>
        /\ op[o].step = "found"
        /\ op'[o].step = "pushed" /\ op'[o].id = op[o].id /\ op'[o].job = op[o].job
        /\ \A x \in Operators \ {o} : op'[x] = op[x]
    BY <1>1, <1>2 DEF RetryPush, RetryPushed, procVars, Grows, Retry
  <2>2. /\ op[o].id \in Ids /\ op[o].id < nextId /\ op[o].job \in Jobs
        /\ failed[op[o].id] \in {op[o].job, NoJob}
    BY <2>1 DEF Safe, OperatorKeys
  <2>3. PICK j \in Jobs : j = op[o].job
    BY <2>2
  <2>4. Frame /\ nextId' = nextId + 1 /\ \E k \in Ids : k = nextId /\ Holds(k, j)'
    BY <1>2, <2>1, <2>3, InsertFrame DEF RetryPush
  <2>5. nextId \in Nat
    BY DEF Safe, Typed, TypeOK
  <2>6. OperatorKeys(o)'
    BY <2>1, <2>2, <2>4, <2>5 DEF OperatorKeys, Ids
  <2>7. CoveredAfter(op[o].id, op[o].job)'
    BY <2>1, <2>2, <2>3, <2>4, <2>5 DEF CoveredAfter, Holds, Ids
  <2>8. OperatorSecured(o)'
    BY <2>1, <2>7 DEF OperatorSecured, CoveredAfter, Settled, HasNext, Holds
  <2> QED BY <2>1, <2>4, <2>6, <2>8
<1>3. CASE RetryFind(o) /\ UNCHANGED <<procVars, rows, nextId>>
  <2>1. /\ Grows /\ failed' = failed /\ rows' = rows /\ nextId' = nextId
        /\ UNCHANGED <<pc, rec, accepted>>
    BY <1>3 DEF RetryFind, procVars, Grows
  <2>2. Frame
    BY <2>1, KeptFrame
  <2>3. PICK i \in Ids :
          /\ failed[i] # NoJob
          /\ op' = [op EXCEPT ![o] = [step |-> "found", id |-> i, job |-> failed[i]]]
    BY <1>3 DEF RetryFind
  <2>4. /\ op'[o] = [step |-> "found", id |-> i, job |-> failed[i]]
        /\ \A x \in Operators \ {o} : op'[x] = op[x]
        /\ failed[i] \in Jobs /\ i < nextId
    BY <1>1, <2>3 DEF Safe, Typed, TypeOK, RecordsFresh
  <2>5. OperatorKeys(o)' /\ OperatorSecured(o)'
    BY <2>1, <2>4 DEF OperatorKeys, OperatorSecured
  <2> QED BY <2>1, <2>2, <2>4, <2>5
<1>4. CASE RetryDelete(o) /\ UNCHANGED <<procVars, rows, nextId>>
  <2>1. /\ Grows /\ rows' = rows /\ nextId' = nextId /\ UNCHANGED <<pc, rec, accepted>>
        /\ op[o].step = "pushed" /\ DeleteFailed(op[o].id)
        /\ op'[o] = NoRetry /\ \A x \in Operators \ {o} : op'[x] = op[x]
    BY <1>1, <1>4 DEF RetryDelete, procVars, Grows
  <2>2. /\ op[o].id \in Ids /\ failed[op[o].id] \in {op[o].job, NoJob}
        /\ CoveredAfter(op[o].id, op[o].job)
    BY <2>1 DEF Safe, OperatorKeys, DeletersSecured, OperatorSecured
  <2>3. PICK i \in Ids : i = op[o].id
    BY <2>2
  <2>4. \A j \in Jobs : failed[i] = j => CoveredAfter(i, j) \/ Settled(j)'
    BY <2>2, <2>3
  <2>5. Frame
    BY <2>1, <2>3, <2>4, DeleteFailedFrame
  <2>6. OperatorKeys(o)' /\ OperatorSecured(o)'
    BY <2>1 DEF OperatorKeys, OperatorSecured, NoRetry
  <2> QED BY <2>1, <2>5, <2>6
<1>5. CASE RetryKilled(o) /\ UNCHANGED <<procVars, rows, nextId>>
  <2>1. /\ Grows /\ rows' = rows /\ failed' = failed /\ nextId' = nextId
        /\ UNCHANGED <<pc, rec, accepted>>
        /\ op'[o] = NoRetry /\ \A x \in Operators \ {o} : op'[x] = op[x]
    BY <1>1, <1>5 DEF RetryKilled, procVars, Grows
  <2>2. Frame
    BY <2>1, KeptFrame
  <2>3. OperatorKeys(o)' /\ OperatorSecured(o)'
    BY <2>1 DEF OperatorKeys, OperatorSecured, NoRetry
  <2> QED BY <2>1, <2>2, <2>3
<1> QED BY <1>2, <1>3, <1>4, <1>5 DEF OperatorStep

\* Producers, the clock and forget touch neither workers nor operators.
LEMMA OutsideSafe ==
    ASSUME Safe,
           \/ \E j \in Jobs, due \in BOOLEAN : Dispatch(j, due)
           \/ \E i \in Ids : BecomesDue(i) \/ ForgetFailed(i)
           \/ UNCHANGED vars
    PROVE  /\ Frame
           /\ UNCHANGED <<pc, rec, op>>
           /\ \A j \in accepted' \ accepted : \E i \in Ids : Holds(i, j)'
<1>1. ASSUME NEW j \in Jobs, NEW due \in BOOLEAN, Dispatch(j, due)
      PROVE  /\ Frame /\ UNCHANGED <<pc, rec, op>>
             /\ accepted' = accepted \cup {j} /\ \E i \in Ids : Holds(i, j)'
  <2>1. /\ Grows /\ failed' = failed /\ Insert(j, due) /\ UNCHANGED <<pc, rec, op>>
        /\ accepted' = accepted \cup {j}
    BY <1>1 DEF Dispatch, failedVars, Grows
  <2> QED BY <2>1, InsertFrame
<1>2. ASSUME NEW i \in Ids, BecomesDue(i)
      PROVE  Frame /\ UNCHANGED <<pc, rec, op, accepted>>
  <2>1. /\ Grows /\ failed' = failed /\ nextId' = nextId
        /\ UNCHANGED <<pc, rec, op, accepted>>
    BY <1>2 DEF BecomesDue, procVars, failedVars, Grows
  <2>2. \A k \in Ids : rows'[k].job = rows[k].job
    BY <1>2 DEF BecomesDue, Safe, Typed, TypeOK, Row
  <2> QED BY <2>1, <2>2, KeptFrame
<1>3. ASSUME NEW i \in Ids, ForgetFailed(i)
      PROVE  Frame /\ UNCHANGED <<pc, rec, op, accepted>>
  <2>1. /\ Grows /\ rows' = rows /\ nextId' = nextId /\ DeleteFailed(i)
        /\ UNCHANGED <<pc, rec, op, accepted>>
        /\ forgotten' = forgotten \cup {failed[i]}
    BY <1>3 DEF ForgetFailed, Forget, procVars, Grows
  <2>2. \A j \in Jobs : failed[i] = j => Settled(j)'
    BY <2>1 DEF Settled
  <2> QED BY <2>1, <2>2, DeleteFailedFrame
<1>4. CASE UNCHANGED vars
  BY <1>4, KeptFrame DEF vars, procVars, failedVars, Grows
<1> QED BY <1>1, <1>2, <1>3, <1>4

----------------------------------------------------------------------------
LEMMA WorkersSafe ==
    ASSUME Safe, NEW w \in Workers, WorkerStep(w) \/ Disturb(w)
    PROVE  Advances(w)
BY LoopSafe, QuietStatementsSafe, PushNextLinkSafe, RecordFailedSafe, DeleteSafe
   DEF WorkerStep

LEMMA StepSafe ==
    ASSUME Safe, [Next]_vars
    PROVE  Safe'
<1> DEFINE Settles == \A j \in accepted' \ accepted : \E i \in Ids : Holds(i, j)'
           Hands == /\ \A w \in Workers : WorkerKeys(w)' /\ WorkerSecured(w)'
                    /\ \A o \in Operators : OperatorKeys(o)' /\ OperatorSecured(o)'
<1>1. Typed'
  BY StepTyped DEF Safe
<1>2. ASSUME NEW w \in Workers, WorkerStep(w) \/ Disturb(w)
      PROVE  Frame /\ Settles /\ Hands
  <2>1. Advances(w)
    BY <1>2, WorkersSafe
  <2>2. \A x \in Workers \ {w} : WorkerKeys(x)' /\ WorkerSecured(x)'
    BY <2>1, BystandingWorker DEF Advances
  <2>3. \A o \in Operators : OperatorKeys(o)' /\ OperatorSecured(o)'
    BY <2>1, BystandingOperator DEF Advances
  <2> QED BY <2>1, <2>2, <2>3 DEF Advances
<1>3. ASSUME NEW o \in Operators, OperatorStep(o)
      PROVE  Frame /\ Settles /\ Hands
  <2>1. /\ Frame /\ UNCHANGED <<pc, rec, accepted>>
        /\ OperatorKeys(o)' /\ OperatorSecured(o)'
        /\ \A x \in Operators \ {o} : op'[x] = op[x]
    BY <1>3, OperatorSafe
  <2>2. \A w \in Workers : WorkerKeys(w)' /\ WorkerSecured(w)'
    BY <2>1, BystandingWorker
  <2>3. \A x \in Operators \ {o} : OperatorKeys(x)' /\ OperatorSecured(x)'
    BY <2>1, BystandingOperator
  <2> QED BY <2>1, <2>2, <2>3
<1>4. ASSUME \/ \E j \in Jobs, due \in BOOLEAN : Dispatch(j, due)
             \/ \E i \in Ids : BecomesDue(i) \/ ForgetFailed(i)
             \/ UNCHANGED vars
      PROVE  Frame /\ Settles /\ Hands
  <2>1. Frame /\ UNCHANGED <<pc, rec, op>> /\ Settles
    BY <1>4, OutsideSafe
  <2>2. \A w \in Workers : WorkerKeys(w)' /\ WorkerSecured(w)'
    BY <2>1, BystandingWorker
  <2>3. \A o \in Operators : OperatorKeys(o)' /\ OperatorSecured(o)'
    BY <2>1, BystandingOperator
  <2> QED BY <2>1, <2>2, <2>3
<1>5. Frame /\ Settles /\ Hands
  BY <1>2, <1>3, <1>4 DEF Next
<1>6. NoJobLost'
  BY <1>5, NoJobLostStep DEF Safe, Typed, TypeOK
<1>7. DeletersSecured'
  BY <1>5 DEF DeletersSecured
<1> QED BY <1>1, <1>5, <1>6, <1>7 DEF Safe, Frame

(***************************************************************************)
(* No job is lost, whatever workers, producers, operators and kills do.    *)
(***************************************************************************)
THEOREM NoJobIsLost == Spec => []NoJobLost
<1>1. Safe => NoJobLost
  BY DEF Safe
<1> QED BY <1>1, InitSafe, StepSafe, PTL DEF Spec

(***************************************************************************)
(* Whoever deletes a record has secured the job by a later one.            *)
(***************************************************************************)
THEOREM DeletersAreSecured == Spec => []DeletersSecured
<1>1. Safe => DeletersSecured
  BY DEF Safe
<1> QED BY <1>1, InitSafe, StepSafe, PTL DEF Spec

----------------------------------------------------------------------------
(***************************************************************************)
(* A job is recorded as failed only after MaxAttempts failed runs.         *)
(*                                                                         *)
(* The attempts column is written from a copy, by several workers at once. *)
(* Every failed run that is not over yet will add at most one to it, so    *)
(* the column and each copy of it stay paid for: the number, with the      *)
(* releases under way counted in, is at most the number of failed runs     *)
(* (which the history counts no further than MaxAttempts + 1).             *)
(***************************************************************************)
Releasers(i) == {w \in Workers : pc[w] \in {"releasing", "rewriting"} /\ rec[w].id = i}

Paid(i, n) == fails[i] > MaxAttempts \/ n + Cardinality(Releasers(i)) <= fails[i]

\* A worker that may still compute with its copy of the column.
Copying == {"selected"} \cup (Working \ {"recording", "burying"})

AttemptsPaid ==
    /\ \A i \in Ids : Paid(i, rows[i].attempts)
    /\ \A w \in Workers : pc[w] \in Copying => Paid(rec[w].id, rec[w].attempts)

Charged == Typed /\ AttemptsPaid /\ RecordedAfterMaxAttempts

LEMMA ReleasersFinite ==
    ASSUME NEW i
    PROVE  IsFiniteSet(Releasers(i)) /\ Cardinality(Releasers(i)) \in Nat
BY FS_Subset, FS_CardinalityType DEF Releasers

LEMMA InitCharged == Init => Charged
<1> SUFFICES ASSUME Init PROVE Charged
  OBVIOUS
<1>1. Typed
  BY InitTyped
<1>2. \A w \in Workers : pc[w] = "idle"
  BY DEF Init, ProcInit
<1>3. ASSUME NEW i \in Ids PROVE Paid(i, rows[i].attempts)
  <2>1. Releasers(i) = {}
    BY <1>2 DEF Releasers
  <2>2. Cardinality(Releasers(i)) = 0
    BY <2>1, FS_EmptySet
  <2>3. rows[i].attempts = 0 /\ fails[i] = 0
    BY DEF Init, ProcInit, NoRow
  <2> QED BY <2>2, <2>3 DEF Paid
<1>4. AttemptsPaid /\ RecordedAfterMaxAttempts
  BY <1>2, <1>3 DEF AttemptsPaid, RecordedAfterMaxAttempts, Copying, Working, Failed
<1> QED BY <1>1, <1>4 DEF Charged

\* What is paid for a number pays for a smaller one.
LEMMA PaysForLess ==
    ASSUME Typed, NEW i \in Ids, NEW m \in Nat, NEW n \in Nat, m <= n, Paid(i, n)
    PROVE  Paid(i, m)
<1>1. Cardinality(Releasers(i)) \in Nat /\ fails[i] \in Nat
  BY ReleasersFinite DEF Typed, TypeOK
<1> QED BY <1>1 DEF Paid

\* The failed runs are counted and no release is added without one.
StaysPaid == \A i \in Ids, n \in Nat : Paid(i, n) => Paid(i, n)'

LEMMA QuietPays ==
    ASSUME Typed, Typed', fails' = fails, \A i \in Ids : Releasers(i)' \subseteq Releasers(i)
    PROVE  StaysPaid
<1> SUFFICES ASSUME NEW i \in Ids, NEW n \in Nat, Paid(i, n) PROVE Paid(i, n)'
  BY DEF StaysPaid
<1>1. Cardinality(Releasers(i)') <= Cardinality(Releasers(i))
  BY ReleasersFinite, FS_Subset
<1>2. Cardinality(Releasers(i)) \in Nat /\ Cardinality(Releasers(i)') \in Nat
  BY ReleasersFinite, FS_Subset, FS_CardinalityType
<1>3. fails[i] \in Nat
  BY DEF Typed, TypeOK
<1> QED BY <1>1, <1>2, <1>3 DEF Paid

\* Catch(w) in terms of the counts: the failure pays for the release.
LEMMA CatchPays ==
    ASSUME Typed, Typed', NEW w \in Workers, pc[w] \in Working \ Failed, Catch(w), rec' = rec
    PROVE  StaysPaid
<1> DEFINE h == rec[w].id
<1>1. h \in Ids
  BY DEF Typed, HandsOK
<1>2. /\ fails' = [fails EXCEPT ![h] = IF @ > MaxAttempts THEN @ ELSE @ + 1]
      /\ pc'[w] \in {"recording", "releasing"} /\ \A x \in Workers \ {w} : pc'[x] = pc[x]
  BY DEF Catch, Goto, Typed, TypeOK
<1> SUFFICES ASSUME NEW i \in Ids, NEW n \in Nat, Paid(i, n) PROVE Paid(i, n)'
  BY DEF StaysPaid
<1>3. fails[i] \in Nat /\ fails'[i] \in Nat
  BY DEF Typed, TypeOK
<1>4. CASE i = h
  <2>1. Releasers(i)' \subseteq Releasers(i) \cup {w}
    BY <1>2 DEF Releasers
  <2>2. /\ IsFiniteSet(Releasers(i) \cup {w})
        /\ Cardinality(Releasers(i) \cup {w}) =
             IF w \in Releasers(i) THEN Cardinality(Releasers(i)) ELSE Cardinality(Releasers(i)) + 1
    BY ReleasersFinite, FS_AddElement
  <2>3. Cardinality(Releasers(i)') <= Cardinality(Releasers(i) \cup {w})
    BY <2>1, <2>2, FS_Subset
  <2>4. Cardinality(Releasers(i)) \in Nat /\ Cardinality(Releasers(i)') \in Nat
    BY <2>1, <2>2, ReleasersFinite, FS_Subset, FS_CardinalityType
  <2>5. fails'[i] = IF fails[i] > MaxAttempts THEN fails[i] ELSE fails[i] + 1
    BY <1>1, <1>2, <1>4 DEF Typed, TypeOK
  <2> QED BY <1>3, <2>2, <2>3, <2>4, <2>5 DEF Paid
<1>5. CASE i # h
  <2>1. Releasers(i)' = Releasers(i) /\ fails'[i] = fails[i]
    BY <1>2, <1>5 DEF Releasers, Typed, TypeOK
  <2> QED BY <2>1 DEF Paid
<1> QED BY <1>4, <1>5

----------------------------------------------------------------------------
\* What a worker's step does with the numbers in hand.
LEMMA WorkerNumbers ==
    ASSUME Typed, Typed', NEW w \in Workers, WorkerStep(w) \/ Disturb(w)
    PROVE  /\ \A x \in Workers \ {w} : pc'[x] = pc[x] /\ rec'[x] = rec[x]
           /\ StaysPaid
           /\ \A i \in Ids : fails[i] <= fails'[i]
           /\ pc'[w] \in Copying =>
                /\ rec'[w].id \in Ids
                /\ \/ pc[w] \in Copying /\ rec'[w] = rec[w]
                   \/ rec'[w].attempts = rows[rec'[w].id].attempts
           /\ pc'[w] \in {"recording", "burying"} =>
                /\ rec'[w] = rec[w]
                /\ \/ pc[w] \in {"recording", "burying"}
                   \/ pc[w] \in Copying /\ Exhausted(rec[w]) /\ Catch(w)
<1> USE DEF Copying, Working, Failed, Down
<1>0. /\ pc \in [Workers -> {"idle", "selected"} \cup Working \cup Down]
      /\ rec \in [Workers -> Record] /\ fails \in [Ids -> Nat]
      /\ pc[w] \in {"selected"} \cup Working => rec[w].id \in Ids
  BY DEF Typed, TypeOK, HandsOK
<1>1. CASE HandleFails(w) \/ StepFails(w)
  <2>1. pc[w] \in {"handling", "chaining", "deleting"} /\ Catch(w) /\ rec' = rec
    BY <1>1 DEF HandleFails, StepFails
  <2>2. StaysPaid
    BY <2>1, CatchPays
  <2>3. \A i \in Ids : fails[i] <= fails'[i]
    BY <1>0, <2>1 DEF Catch
  <2> QED BY <1>0, <2>1, <2>2, <2>3 DEF Catch, Goto
<1>2. CASE PopSelect(w)
  <2>1. PICK i \in Ids :
          rec' = [rec EXCEPT ![w] =
                    [id |-> i, job |-> rows[i].job, attempts |-> rows[i].attempts]]
    BY <1>2 DEF PopSelect, Poppable
  <2>2. /\ pc[w] = "idle" /\ pc' = [pc EXCEPT ![w] = "selected"] /\ fails' = fails
    BY <1>2 DEF PopSelect, Goto
  <2>3. \A i2 \in Ids : Releasers(i2)' \subseteq Releasers(i2)
    BY <1>0, <2>1, <2>2 DEF Releasers
  <2> QED BY <1>0, <2>1, <2>2, <2>3, QuietPays
<1>3. CASE ReleaseRead(w)
  <2>1. /\ pc[w] = "releasing" /\ pc' = [pc EXCEPT ![w] = "rewriting"] /\ fails' = fails
        /\ rec' = [rec EXCEPT ![w].attempts = rows[rec[w].id].attempts]
    BY <1>3 DEF ReleaseRead, Goto
  <2>2. rec'[w].id = rec[w].id /\ rec'[w].attempts = rows[rec[w].id].attempts
    BY <1>0, <2>1 DEF Record
  <2>3. \A x \in Workers : rec'[x].id = rec[x].id
    BY <1>0, <2>1, <2>2
  <2>4. \A i \in Ids : Releasers(i)' \subseteq Releasers(i)
    BY <1>0, <2>1, <2>3 DEF Releasers
  <2> QED BY <1>0, <2>1, <2>2, <2>4, QuietPays
<1>4. CASE \/ PopReserve(w) \/ PushNextLink(w) \/ RecordFailed(w)
           \/ HandleSucceeds(w) \/ Exit(w) \/ Shutdown(w) \/ Restart(w)
  <2>1. /\ rec' = rec /\ fails' = fails
        /\ \A x \in Workers \ {w} : pc'[x] = pc[x]
        /\ pc'[w] \in Copying => pc[w] \in Copying
        /\ pc'[w] \in {"releasing", "rewriting"} => pc[w] \in {"releasing", "rewriting"}
        /\ pc'[w] \in {"recording", "burying"} => pc[w] \in {"recording", "burying"}
    BY <1>0, <1>4 DEF PopReserve, PushNextLink, RecordFailed, HandleSucceeds, Exit, Shutdown,
                      Restart, Goto
  <2>2. \A i \in Ids : Releasers(i)' \subseteq Releasers(i)
    BY <2>1 DEF Releasers
  <2> QED BY <1>0, <2>1, <2>2, QuietPays
<1>5. CASE \/ PopFails(w) \/ DeleteJob(w) \/ Bury(w) \/ ReleaseGone(w) \/ ReleaseWrite(w)
           \/ Crash(w, InHand(w))
  <2>1. /\ pc'[w] \in {"idle", "crashed"} /\ fails' = fails
        /\ \A x \in Workers \ {w} : pc'[x] = pc[x] /\ rec'[x] = rec[x]
    BY <1>0, <1>5 DEF PopFails, DeleteJob, Bury, ReleaseGone, ReleaseWrite, Crash, NextJob, Goto
  <2>2. \A i \in Ids : Releasers(i)' \subseteq Releasers(i)
    BY <2>1 DEF Releasers
  <2> QED BY <1>0, <2>1, <2>2, QuietPays
<1> QED
  BY <1>1, <1>2, <1>3, <1>4, <1>5 DEF WorkerStep, LoopStep, Disturb

\* The UPDATE of release() adds one to the column and ends one release.
LEMMA WritePaid ==
    ASSUME Charged, NEW w \in Workers, ReleaseWrite(w),
           NEW h \in Ids, NEW n \in Nat, h = rec[w].id, n = rec[w].attempts
    PROVE  Paid(h, n + 1)'
<1>1. pc[w] = "rewriting" /\ Paid(h, n) /\ fails[h] \in Nat
  BY DEF Charged, Typed, TypeOK, AttemptsPaid, ReleaseWrite, Copying, Working, Failed
<1>2. /\ pc' = [pc EXCEPT ![w] = "idle"] /\ rec' = [rec EXCEPT ![w] = NoRecord] /\ fails' = fails
  BY DEF ReleaseWrite, NextJob, Goto
<1>3. w \in Releasers(h) /\ Releasers(h)' = Releasers(h) \ {w}
  <2>1. pc \in [Workers -> {"idle", "selected"} \cup Working \cup Down] /\ rec \in [Workers -> Record]
    BY DEF Charged, Typed, TypeOK
  <2> QED BY <1>1, <1>2, <2>1 DEF Releasers
<1>4. Cardinality(Releasers(h) \ {w}) = Cardinality(Releasers(h)) - 1
  BY <1>3, ReleasersFinite, FS_RemoveElement
<1>5. Cardinality(Releasers(h)') = Cardinality(Releasers(h)) - 1
  BY <1>3, <1>4
<1>6. Cardinality(Releasers(h)) \in Nat
  BY ReleasersFinite
<1> QED BY <1>1, <1>2, <1>5, <1>6 DEF Paid

\* The column changes to zero, or by the UPDATE of release().
LEMMA WorkerColumn ==
    ASSUME Typed, Typed', NEW w \in Workers, WorkerStep(w) \/ Disturb(w), ~ReleaseWrite(w)
    PROVE  \A i \in Ids : rows'[i].attempts \in {0, rows[i].attempts}
<1>1. rows \in [Ids -> Row]
  BY DEF Typed, TypeOK
<1>2. CASE PopReserve(w)
  BY <1>1, <1>2 DEF PopReserve, UpdateRow, Row
<1>3. CASE PushNextLink(w) \/ DeleteJob(w) \/ Bury(w)
  BY <1>1, <1>3 DEF PushNextLink, DeleteJob, Bury, Insert, DeleteRow, NewRow, NoRow
<1>4. CASE \/ PopSelect(w) \/ PopFails(w) \/ LoopStep(w) \/ RecordFailed(w) \/ ReleaseRead(w)
           \/ ReleaseGone(w) \/ Disturb(w)
  BY <1>4 DEF PopSelect, PopFails, LoopStep, RecordFailed, ReleaseRead, ReleaseGone, Disturb
<1> QED BY <1>2, <1>3, <1>4 DEF WorkerStep

\* What is paid for each row stays paid for, and so do the copies.
LEMMA WorkersCharged ==
    ASSUME Charged, Typed', NEW w \in Workers, WorkerStep(w) \/ Disturb(w)
    PROVE  Charged'
<1>0. Typed /\ AttemptsPaid /\ RecordedAfterMaxAttempts
  BY DEF Charged
<1>1. /\ \A x \in Workers \ {w} : pc'[x] = pc[x] /\ rec'[x] = rec[x]
      /\ StaysPaid
      /\ \A i \in Ids : fails[i] <= fails'[i]
      /\ pc'[w] \in Copying =>
           /\ rec'[w].id \in Ids
           /\ \/ pc[w] \in Copying /\ rec'[w] = rec[w]
              \/ rec'[w].attempts = rows[rec'[w].id].attempts
      /\ pc'[w] \in {"recording", "burying"} =>
           /\ rec'[w] = rec[w]
           /\ \/ pc[w] \in {"recording", "burying"}
              \/ pc[w] \in Copying /\ Exhausted(rec[w]) /\ Catch(w)
  BY <1>0, WorkerNumbers
<1>2. /\ \A i \in Ids : rows[i].attempts \in Nat /\ fails[i] \in Nat /\ fails'[i] \in Nat
      /\ \A x \in Workers : rec[x].attempts \in Nat
      /\ \A x \in Workers : pc[x] \in Copying \cup {"recording", "burying"} => rec[x].id \in Ids
  BY <1>0 DEF Typed, TypeOK, HandsOK, Row, Record, Copying, Working, Failed
<1>3. ASSUME NEW i \in Ids PROVE Paid(i, rows[i].attempts)'
  <2>1. Paid(i, rows[i].attempts)
    BY <1>0 DEF AttemptsPaid
  <2>2. CASE rows'[i].attempts \in {0, rows[i].attempts}
    <3>1. PICK n \in Nat : n = rows'[i].attempts
      BY <1>2, <2>2
    <3>2. Paid(i, n)
      BY <1>0, <1>2, <2>1, <2>2, <3>1, PaysForLess
    <3> QED BY <1>1, <3>1, <3>2 DEF StaysPaid, Paid
  <2>3. CASE ReleaseWrite(w) /\ rows'[i].attempts # rows[i].attempts
    <3>1. /\ i = rec[w].id
          /\ rows'[i].attempts = rec[w].attempts + 1
      BY <1>0, <2>3 DEF ReleaseWrite, UpdateRow, Typed, TypeOK, Row
    <3>2. PICK n \in Nat : n = rec[w].attempts
      BY <1>2
    <3>3. Paid(i, n + 1)'
      BY <2>3, <3>1, <3>2, WritePaid
    <3> QED BY <3>1, <3>2, <3>3 DEF Paid
  <2> QED BY <1>0, <2>2, <2>3, WorkerColumn
<1>4. ASSUME NEW x \in Workers, pc'[x] \in Copying
      PROVE  Paid(rec[x].id, rec[x].attempts)'
  <2>1. CASE pc[x] \in Copying /\ rec'[x] = rec[x]
    <3>1. PICK i \in Ids, n \in Nat : i = rec[x].id /\ n = rec[x].attempts
      BY <1>2, <2>1
    <3>2. Paid(i, n)'
      BY <1>0, <1>1, <2>1, <3>1 DEF AttemptsPaid, StaysPaid
    <3> QED BY <2>1, <3>1, <3>2 DEF Paid
  <2>2. CASE x = w /\ rec'[w].attempts = rows[rec'[w].id].attempts /\ rec'[w].id \in Ids
    <3>1. PICK i \in Ids, n \in Nat : i = rec'[w].id /\ n = rows[i].attempts
      BY <1>2, <2>2
    <3>2. Paid(i, n)'
      BY <1>0, <1>1, <3>1 DEF AttemptsPaid, StaysPaid
    <3> QED BY <2>2, <3>1, <3>2 DEF Paid
  <2> QED BY <1>1, <1>4, <2>1, <2>2
<1>5. ASSUME NEW x \in Workers, pc'[x] \in {"recording", "burying"}
      PROVE  fails'[rec'[x].id] >= MaxAttempts
  <2>1. CASE pc[x] \in {"recording", "burying"} /\ rec'[x] = rec[x]
    <3>1. rec[x].id \in Ids /\ fails[rec[x].id] >= MaxAttempts
      BY <1>0, <1>2, <2>1 DEF RecordedAfterMaxAttempts
    <3> QED BY <1>1, <1>2, <2>1, <3>1
  <2>2. CASE x = w /\ rec'[w] = rec[w] /\ pc[w] \in Copying /\ Exhausted(rec[w]) /\ Catch(w)
    <3>1. PICK i \in Ids, n \in Nat : i = rec[w].id /\ n = rec[w].attempts
      BY <1>2, <2>2
    <3>2. fails[i] > MaxAttempts \/ n + Cardinality(Releasers(i)) <= fails[i]
      BY <1>0, <2>2, <3>1 DEF AttemptsPaid, Paid
    <3>3. fails'[i] = IF fails[i] > MaxAttempts THEN fails[i] ELSE fails[i] + 1
      BY <1>0, <2>2, <3>1 DEF Catch, Typed, TypeOK
    <3>4. n + 1 >= MaxAttempts
      BY <2>2, <3>1 DEF Exhausted
    <3>5. Cardinality(Releasers(i)) \in Nat
      BY ReleasersFinite
    <3>6. fails'[i] >= MaxAttempts
      BY <1>2, <3>2, <3>3, <3>4, <3>5
    <3> QED BY <2>2, <3>1, <3>6
  <2> QED BY <1>1, <1>5, <2>1, <2>2
<1>6. AttemptsPaid'
  BY <1>3, <1>4 DEF AttemptsPaid, Copying
<1>7. RecordedAfterMaxAttempts'
  BY <1>5 DEF RecordedAfterMaxAttempts
<1> QED BY <1>6, <1>7 DEF Charged

\* Nobody else touches the column of a row that stays, or a failed run.
LEMMA OthersCharged ==
    ASSUME Charged, Typed',
           \/ \E j \in Jobs, due \in BOOLEAN : Dispatch(j, due)
           \/ \E i \in Ids : BecomesDue(i) \/ ForgetFailed(i)
           \/ \E o \in Operators : OperatorStep(o)
           \/ UNCHANGED vars
    PROVE  Charged'
<1>0. Typed /\ AttemptsPaid /\ RecordedAfterMaxAttempts
  BY DEF Charged
<1>1. UNCHANGED <<pc, rec, fails>>
  BY DEF Dispatch, BecomesDue, ForgetFailed, OperatorStep, RetryPush, vars, procVars
<1>2. \A i \in Ids : rows'[i].attempts \in {0, rows[i].attempts}
  <2>1. rows \in [Ids -> Row]
    BY <1>0 DEF Typed, TypeOK
  <2>2. CASE \E i \in Ids : BecomesDue(i)
    BY <2>1, <2>2 DEF BecomesDue, Row
  <2>3. CASE \/ \E j \in Jobs, due \in BOOLEAN : Dispatch(j, due)
             \/ \E o \in Operators : RetryPush(o)
    BY <2>1, <2>3 DEF Dispatch, RetryPush, Insert, NewRow
  <2> QED BY <2>2, <2>3 DEF ForgetFailed, OperatorStep, vars
<1>3. \A i \in Ids : rows[i].attempts \in Nat
  BY <1>0 DEF Typed, TypeOK, Row
<1>4. \A i : Releasers(i)' = Releasers(i)
  BY <1>1 DEF Releasers
<1>5. ASSUME NEW i \in Ids PROVE Paid(i, rows[i].attempts)'
  <2>1. PICK n \in Nat : n = rows'[i].attempts
    BY <1>2, <1>3
  <2>2. Paid(i, rows[i].attempts)
    BY <1>0 DEF AttemptsPaid
  <2>3. Paid(i, n)
    BY <1>0, <1>2, <1>3, <2>1, <2>2, PaysForLess
  <2> QED BY <1>1, <1>4, <2>1, <2>3 DEF Paid
<1>6. AttemptsPaid'
  BY <1>0, <1>1, <1>4, <1>5 DEF AttemptsPaid, Paid
<1>7. RecordedAfterMaxAttempts'
  BY <1>0, <1>1 DEF RecordedAfterMaxAttempts
<1> QED BY <1>6, <1>7 DEF Charged

(***************************************************************************)
(* A job is written to failed_jobs only after MaxAttempts failed runs of   *)
(* its entry, however many workers share the row and its column.           *)
(***************************************************************************)
THEOREM RecordedAfterEnoughFailures == Spec => []RecordedAfterMaxAttempts
<1>1. ASSUME Charged, [Next]_vars PROVE Charged'
  <2>1. Typed'
    BY <1>1, StepTyped DEF Charged
  <2>2. ASSUME NEW w \in Workers, WorkerStep(w) \/ Disturb(w) PROVE Charged'
    BY <1>1, <2>1, <2>2, WorkersCharged
  <2>3. CASE \/ \E j \in Jobs, due \in BOOLEAN : Dispatch(j, due)
             \/ \E i \in Ids : BecomesDue(i) \/ ForgetFailed(i)
             \/ \E o \in Operators : OperatorStep(o)
             \/ UNCHANGED vars
    BY <1>1, <2>1, <2>3, OthersCharged
  <2> QED BY <1>1, <2>2, <2>3 DEF Next
<1>2. Charged => RecordedAfterMaxAttempts
  BY DEF Charged
<1> QED BY <1>1, <1>2, InitCharged, PTL DEF Spec

----------------------------------------------------------------------------
(***************************************************************************)
(* A reserved row is in somebody's hands, or was when a worker was killed. *)
(* A worker lets go of a row by deleting it, by clearing reserved_at, or   *)
(* because the row is gone; ReservedRows says that nothing is reserved     *)
(* where no row is.                                                        *)
(***************************************************************************)
Held(i) == i \in orphaned \/ \E w \in Workers : pc[w] \in Working /\ rec[w].id = i

ReservedRows == \A i \in Ids : rows[i].reserved => RowExists(i)

HeldRows == Typed /\ ReservedRows /\ ReservedIsHeld

LEMMA InitHeld == Init => HeldRows
BY InitTyped DEF Init, HeldRows, ReservedRows, ReservedIsHeld, NoRow

\* Nothing new is reserved, and who holds a row goes on holding it.
LEMMA KeepsHeld ==
    ASSUME HeldRows, Typed', \A i \in Ids : Held(i) => Held(i)',
           \A i \in Ids : rows'[i].reserved => rows[i].reserved /\ RowExists(i)'
    PROVE  HeldRows'
BY DEF HeldRows, ReservedRows, ReservedIsHeld, Held

\* w lets go of one row, which is not reserved any more.
LEMMA LetsGoHeld ==
    ASSUME HeldRows, Typed', NEW w \in Workers, orphaned' = orphaned,
           \A x \in Workers \ {w} : pc'[x] = pc[x] /\ rec'[x] = rec[x],
           NEW h, h = rec[w].id, h \in Ids, ~rows'[h].reserved,
           \A i \in Ids \ {h} : rows'[i] = rows[i]
    PROVE  HeldRows'
<1>1. \A i \in Ids \ {h} : Held(i) => Held(i)'
  BY DEF Held
<1> QED BY <1>1 DEF HeldRows, ReservedRows, ReservedIsHeld, Held, RowExists

LEMMA WorkersHeld ==
    ASSUME HeldRows, Typed', NEW w \in Workers, WorkerStep(w) \/ Disturb(w)
    PROVE  HeldRows'
<1> USE DEF Working, Failed, Down
<1>0. /\ Typed /\ ReservedRows
      /\ pc \in [Workers -> {"idle", "selected"} \cup Working \cup Down]
      /\ rec \in [Workers -> Record] /\ rows \in [Ids -> Row]
      /\ pc[w] \in {"selected"} \cup Working => rec[w].id \in Ids /\ rec[w].job \in Jobs
      /\ NoJob \notin Jobs
  BY DEF HeldRows, Typed, TypeOK, HandsOK
<1>1. CASE \/ (HandleSucceeds(w) \/ HandleFails(w) \/ StepFails(w)) /\ UNCHANGED rows
           \/ RecordFailed(w) \/ PushNextLink(w)
  <2>1. /\ pc[w] \in Working /\ pc'[w] \in Working
        /\ \A x \in Workers \ {w} : pc'[x] = pc[x]
        /\ rec' = rec /\ orphaned' = orphaned
    BY <1>0, <1>1 DEF HandleSucceeds, HandleFails, StepFails, Catch, RecordFailed, PushNextLink, Goto
  <2>2. \A i \in Ids : Held(i) => Held(i)'
    BY <2>1 DEF Held
  <2>3. \A i \in Ids : rows'[i].reserved => rows[i].reserved /\ RowExists(i)'
    BY <1>0, <1>1 DEF RecordFailed, PushNextLink, Insert, NewRow, ReservedRows, RowExists
  <2> QED BY <2>2, <2>3, KeepsHeld
<1>2. CASE ReleaseRead(w)
  <2>1. /\ pc[w] = "releasing" /\ pc' = [pc EXCEPT ![w] = "rewriting"]
        /\ orphaned' = orphaned /\ rows' = rows
        /\ rec' = [rec EXCEPT ![w].attempts = rows[rec[w].id].attempts]
    BY <1>2 DEF ReleaseRead, Goto
  <2>2. \A x \in Workers : rec'[x].id = rec[x].id
    BY <1>0, <2>1 DEF Record
  <2>3. \A i \in Ids : Held(i) => Held(i)'
    BY <1>0, <2>1, <2>2 DEF Held
  <2> QED BY <1>0, <2>1, <2>3, KeepsHeld DEF ReservedRows, RowExists
<1>3. CASE \/ PopSelect(w) \/ PopFails(w)
           \/ (Exit(w) \/ Shutdown(w) \/ Restart(w)) /\ UNCHANGED rows
  <2>1. /\ pc[w] \notin Working \/ (pc'[w] = pc[w] /\ rec'[w] = rec[w])
        /\ \A x \in Workers \ {w} : pc'[x] = pc[x] /\ rec'[x] = rec[x]
        /\ orphaned' = orphaned /\ rows' = rows
    BY <1>0, <1>3 DEF PopSelect, PopFails, NextJob, Exit, Shutdown, Restart, Goto
  <2>2. \A i \in Ids : Held(i) => Held(i)'
    BY <2>1 DEF Held
  <2> QED BY <1>0, <2>1, <2>2, KeepsHeld DEF ReservedRows, RowExists
<1>4. CASE PopReserve(w)
  <2>1. /\ pc[w] = "selected" /\ pc' = [pc EXCEPT ![w] = "handling"]
        /\ rec' = rec /\ orphaned' = orphaned
    BY <1>4 DEF PopReserve, Goto
  <2>2. \A i \in Ids : Held(i) => Held(i)'
    BY <1>0, <2>1 DEF Held
  <2>3. Held(rec[w].id)'
    BY <1>0, <2>1 DEF Held
  <2>4. /\ \A i \in Ids \ {rec[w].id} : rows'[i] = rows[i]
        /\ rows'[rec[w].id].job = rows[rec[w].id].job
        /\ ~RowExists(rec[w].id) => rows'[rec[w].id] = rows[rec[w].id]
    BY <1>0, <1>4 DEF PopReserve, UpdateRow, Row
  <2>5. ReservedRows'
    BY <1>0, <2>4 DEF ReservedRows, RowExists
  <2>6. ReservedIsHeld'
    BY <2>1, <2>2, <2>3, <2>4 DEF HeldRows, ReservedIsHeld, Held
  <2> QED BY <2>5, <2>6 DEF HeldRows
<1>5. CASE DeleteJob(w) \/ Bury(w) \/ ReleaseGone(w) \/ ReleaseWrite(w)
  <2>1. /\ pc[w] \in Working /\ orphaned' = orphaned
        /\ \A x \in Workers \ {w} : pc'[x] = pc[x] /\ rec'[x] = rec[x]
    BY <1>0, <1>5 DEF DeleteJob, Bury, ReleaseGone, ReleaseWrite, NextJob, Goto
  <2>2. PICK h \in Ids : h = rec[w].id
    BY <1>0, <2>1
  <2>3. \A i \in Ids \ {h} : rows'[i] = rows[i]
    BY <1>0, <1>5, <2>2 DEF DeleteJob, Bury, ReleaseGone, ReleaseWrite, DeleteRow, UpdateRow
  <2>4. ~rows'[h].reserved
    <3>1. CASE DeleteJob(w) \/ Bury(w)
      BY <1>0, <2>2, <3>1 DEF DeleteJob, Bury, DeleteRow, NoRow
    <3>2. CASE ReleaseGone(w)
      BY <1>0, <2>2, <3>2 DEF ReleaseGone, ReservedRows
    <3>3. CASE ReleaseWrite(w) /\ ~RowExists(h)
      BY <1>0, <2>2, <3>3 DEF ReleaseWrite, UpdateRow, ReservedRows
    <3>4. CASE ReleaseWrite(w) /\ RowExists(h)
      BY <1>0, <2>2, <3>4 DEF ReleaseWrite, UpdateRow, Row
    <3> QED BY <1>5, <3>1, <3>2, <3>3, <3>4
  <2> QED BY <2>1, <2>2, <2>3, <2>4, LetsGoHeld
<1>6. CASE Crash(w, InHand(w)) /\ UNCHANGED rows
  <2>1. /\ orphaned' = orphaned \cup InHand(w) /\ rows' = rows
        /\ \A x \in Workers \ {w} : pc'[x] = pc[x] /\ rec'[x] = rec[x]
    BY <1>0, <1>6 DEF Crash, Goto
  <2>2. \A i \in Ids : Held(i) => Held(i)'
    BY <2>1 DEF Held, InHand, Ids
  <2> QED BY <1>0, <2>1, <2>2, KeepsHeld DEF ReservedRows, RowExists
<1>7. CASE LoopStep(w) \/ Disturb(w)
  <2>1. UNCHANGED rows
    BY <1>7 DEF LoopStep, Disturb
  <2> QED BY <1>1, <1>3, <1>6, <1>7, <2>1 DEF LoopStep, Disturb
<1> QED BY <1>1, <1>2, <1>3, <1>4, <1>5, <1>7 DEF WorkerStep

LEMMA OthersHeld ==
    ASSUME HeldRows, Typed',
           \/ \E j \in Jobs, due \in BOOLEAN : Dispatch(j, due)
           \/ \E i \in Ids : BecomesDue(i) \/ ForgetFailed(i)
           \/ \E o \in Operators : OperatorStep(o)
           \/ UNCHANGED vars
    PROVE  HeldRows'
<1>0. ReservedRows /\ rows \in [Ids -> Row] /\ op \in [Operators -> Retry]
  BY DEF HeldRows, Typed, TypeOK
<1>1. UNCHANGED <<pc, rec, orphaned>>
  BY DEF Dispatch, BecomesDue, ForgetFailed, OperatorStep, RetryPush, vars, procVars
<1>2. \A i \in Ids : Held(i) => Held(i)'
  BY <1>1 DEF Held
<1>3. \A i \in Ids : rows'[i].reserved => rows[i].reserved /\ RowExists(i)'
  <2>1. CASE \E i \in Ids : BecomesDue(i)
    BY <1>0, <2>1 DEF BecomesDue, Row, ReservedRows, RowExists
  <2>2. CASE \/ \E j \in Jobs, due \in BOOLEAN : Dispatch(j, due)
             \/ \E o \in Operators : RetryPush(o)
    BY <1>0, <2>2 DEF Dispatch, RetryPush, Insert, NewRow, ReservedRows, RowExists
  <2>3. CASE rows' = rows
    BY <1>0, <2>3 DEF ReservedRows, RowExists
  <2> QED BY <2>1, <2>2, <2>3 DEF ForgetFailed, OperatorStep, vars
<1> QED BY <1>2, <1>3, KeepsHeld

(***************************************************************************)
(* No reservation is left behind by a worker that goes on: a reserved row  *)
(* is in the hands of a running worker, or a killed worker held it.        *)
(***************************************************************************)
THEOREM ReservationsAreHeld == Spec => []ReservedIsHeld
<1>1. ASSUME HeldRows, [Next]_vars PROVE HeldRows'
  <2>1. Typed'
    BY <1>1, StepTyped DEF HeldRows
  <2> QED BY <1>1, <2>1, WorkersHeld, OthersHeld DEF Next
<1>2. HeldRows => ReservedIsHeld
  BY DEF HeldRows
<1> QED BY <1>1, <1>2, InitHeld, PTL DEF Spec

----------------------------------------------------------------------------
(***************************************************************************)
(* A single worker keeps the attempts column exact: nobody else writes the *)
(* row between its reads and its UPDATE, a row it holds stays reserved,    *)
(* and a row that is free has been paid for run by run.                    *)
(***************************************************************************)
Before == {"selected", "handling", "chaining", "deleting"}

RowsExact ==
    \A i \in Ids :
        /\ fails[i] <= MaxAttempts
        /\ i >= nextId => fails[i] = 0
        /\ RowExists(i) /\ ~rows[i].reserved =>
             fails[i] <= rows[i].attempts /\ rows[i].attempts < MaxAttempts

CopyExact(w) ==
    /\ pc[w] \in Before =>
         fails[rec[w].id] <= rec[w].attempts /\ rec[w].attempts < MaxAttempts
    /\ pc[w] \in {"releasing", "rewriting"} =>
         fails[rec[w].id] <= rec[w].attempts + 1 /\ rec[w].attempts + 1 < MaxAttempts
    /\ pc[w] \in Before \cup {"releasing"} /\ RowExists(rec[w].id) =>
         rows[rec[w].id].attempts = rec[w].attempts
    /\ pc[w] \in Working /\ RowExists(rec[w].id) => rows[rec[w].id].reserved

Exact == Safe /\ RowsExact /\ \A w \in Workers : CopyExact(w)

LEMMA InitExact == Init => Exact
BY InitSafe DEF Init, ProcInit, Exact, RowsExact, CopyExact, Before, Working, Failed, NoRow, RowExists

\* A fresh row has not failed, and starts at zero.
LEMMA FreshExact ==
    ASSUME RowsExact, rows \in [Ids -> Row], fails \in [Ids -> Nat], fails' = fails,
           nextId \in Nat, nextId' \in Nat, nextId' >= nextId,
           \A i \in Ids : \/ /\ rows'[i].job = rows[i].job
                             /\ rows'[i].reserved = rows[i].reserved
                             /\ rows'[i].attempts = rows[i].attempts
                          \/ i = nextId /\ rows'[i].attempts = 0
    PROVE  RowsExact'
<1> SUFFICES ASSUME NEW i \in Ids
             PROVE  /\ fails[i] <= MaxAttempts
                    /\ i >= nextId' => fails[i] = 0
                    /\ rows'[i].job # NoJob /\ ~rows'[i].reserved =>
                         fails[i] <= rows'[i].attempts /\ rows'[i].attempts < MaxAttempts
  BY DEF RowsExact, RowExists
<1>1. i \in Nat /\ MaxAttempts \in Nat \ {0}
  BY DEF Ids
<1>2. /\ fails[i] <= MaxAttempts
      /\ i >= nextId => fails[i] = 0
      /\ rows[i].job # NoJob /\ ~rows[i].reserved =>
           fails[i] <= rows[i].attempts /\ rows[i].attempts < MaxAttempts
  BY DEF RowsExact, RowExists
<1>3. i >= nextId' => fails[i] = 0
  BY <1>1, <1>2
<1>4. rows'[i].job # NoJob /\ ~rows'[i].reserved =>
           fails[i] <= rows'[i].attempts /\ rows'[i].attempts < MaxAttempts
  BY <1>1, <1>2
<1> QED BY <1>2, <1>3, <1>4

LEMMA SoleWorkerExact ==
    ASSUME NEW w, Workers = {w}, Exact, Safe', WorkerStep(w) \/ Disturb(w)
    PROVE  Exact'
<1> DEFINE h == rec[w].id
<1> USE DEF Before, Working, Failed, Down
<1>a. w \in Workers /\ TypeOK /\ HandsOK /\ WorkerKeys(w) /\ RowsExact /\ CopyExact(w)
  BY DEF Exact, Safe, Typed
<1>b. /\ pc \in [Workers -> {"idle", "selected"} \cup Working \cup Down]
      /\ rec \in [Workers -> Record] /\ rows \in [Ids -> Row] /\ fails \in [Ids -> Nat]
      /\ nextId \in Nat /\ Ids \subseteq Nat /\ MaxAttempts \in Nat \ {0}
  BY <1>a DEF TypeOK, Ids
<1>c. pc[w] \in {"selected"} \cup Working => h \in Ids /\ rec[w].job \in Jobs /\ h < nextId
  BY <1>a DEF HandsOK, WorkerKeys
<1>d. h \in Nat /\ rec[w].attempts \in Nat
  BY <1>a, <1>b DEF Record, Ids
<1>0. /\ pc \in [Workers -> {"idle", "selected"} \cup Working \cup Down]
      /\ rec \in [Workers -> Record] /\ rows \in [Ids -> Row] /\ fails \in [Ids -> Nat]
      /\ pc[w] \in {"selected"} \cup Working => h \in Ids /\ rec[w].job \in Jobs /\ h < nextId
      /\ nextId \in Nat /\ Ids \subseteq Nat /\ MaxAttempts \in Nat \ {0}
      /\ RowsExact /\ CopyExact(w) /\ w \in Workers /\ h \in Nat /\ rec[w].attempts \in Nat
  BY <1>a, <1>b, <1>c, <1>d
<1> SUFFICES RowsExact' /\ CopyExact(w)'
  BY DEF Exact, CopyExact
<1>1. CASE (HandleFails(w) \/ StepFails(w)) /\ UNCHANGED <<rows, nextId>>
  <2>1. /\ pc[w] \in {"handling", "chaining", "deleting"}
        /\ rec' = rec /\ rows' = rows /\ nextId' = nextId
        /\ fails' = [fails EXCEPT ![h] = IF @ > MaxAttempts THEN @ ELSE @ + 1]
        /\ pc' = [pc EXCEPT ![w] = IF Exhausted(rec[w]) THEN "recording" ELSE "releasing"]
    BY <1>1 DEF HandleFails, StepFails, Catch, Goto
  <2>2. /\ fails[h] <= rec[w].attempts /\ rec[w].attempts < MaxAttempts /\ fails[h] \in Nat
        /\ RowExists(h) => rows[h].reserved /\ rows[h].attempts = rec[w].attempts
    BY <1>0, <2>1 DEF CopyExact
  <2>3. fails'[h] = fails[h] + 1 /\ \A i \in Ids \ {h} : fails'[i] = fails[i]
    BY <1>0, <2>1, <2>2
  <2>4. RowsExact'
    BY <1>0, <2>1, <2>2, <2>3 DEF RowsExact, RowExists
  <2>5. pc'[w] \in {"recording", "releasing"} /\ (pc'[w] = "releasing" => rec[w].attempts + 1 < MaxAttempts)
    BY <1>0, <2>1 DEF Exhausted
  <2>6. CopyExact(w)'
    BY <1>0, <2>1, <2>2, <2>3, <2>5 DEF CopyExact, RowExists
  <2> QED BY <2>4, <2>6
<1>2. CASE PopSelect(w)
  <2>1. PICK i \in Poppable :
          rec' = [rec EXCEPT ![w] =
                    [id |-> i, job |-> rows[i].job, attempts |-> rows[i].attempts]]
    BY <1>2 DEF PopSelect
  <2>2. /\ pc' = [pc EXCEPT ![w] = "selected"] /\ UNCHANGED <<fails, rows, nextId>>
    BY <1>2 DEF PopSelect, Goto
  <2>3. /\ rec'[w].id = i /\ rec'[w].attempts = rows[i].attempts /\ pc'[w] = "selected"
        /\ i \in Ids /\ RowExists(i) /\ ~rows[i].reserved
    BY <1>0, <2>1, <2>2 DEF Poppable
  <2>4. fails[i] <= rows[i].attempts /\ rows[i].attempts < MaxAttempts
    BY <1>0, <2>3 DEF RowsExact
  <2> QED BY <1>0, <2>2, <2>3, <2>4 DEF RowsExact, CopyExact, RowExists
<1>3. CASE PopReserve(w)
  <2>1. /\ pc[w] = "selected" /\ pc' = [pc EXCEPT ![w] = "handling"]
        /\ UNCHANGED <<rec, fails, nextId>>
        /\ UpdateRow(h, [rows[h] EXCEPT !.reserved = TRUE])
    BY <1>3 DEF PopReserve, Goto
  <2>2. /\ \A i \in Ids \ {h} : rows'[i] = rows[i]
        /\ rows'[h].job = rows[h].job /\ rows'[h].attempts = rows[h].attempts
        /\ RowExists(h) => rows'[h].reserved
    BY <1>0, <2>1 DEF UpdateRow, Row
  <2>3. RowsExact'
    BY <1>0, <2>1, <2>2 DEF RowsExact, RowExists
  <2>4. CopyExact(w)'
    BY <1>0, <2>1, <2>2 DEF CopyExact, RowExists
  <2> QED BY <2>3, <2>4
<1>4. CASE PushNextLink(w)
  <2>1. /\ pc[w] = "chaining" /\ pc' = [pc EXCEPT ![w] = "deleting"]
        /\ UNCHANGED <<rec, fails>> /\ nextId' = nextId + 1
        /\ \A i \in Ids : i # nextId => rows'[i] = rows[i]
        /\ nextId \in Ids => rows'[nextId].attempts = 0
    BY <1>0, <1>4 DEF PushNextLink, Insert, NewRow, Goto
  <2>2. RowsExact'
    BY <1>0, <2>1, FreshExact
  <2>3. CopyExact(w)'
    BY <1>0, <2>1 DEF CopyExact, RowExists
  <2> QED BY <2>2, <2>3
<1>5. CASE \/ RecordFailed(w)
           \/ /\ HandleSucceeds(w) \/ Exit(w) \/ Shutdown(w) \/ Restart(w)
              /\ UNCHANGED <<rows, nextId>>
  <2>1. /\ UNCHANGED <<rec, fails, rows>> /\ nextId' \in Nat /\ nextId' >= nextId
        /\ pc'[w] \in Before \ {"selected"} => pc[w] \in Before \ {"selected"}
        /\ pc'[w] = "selected" => pc[w] = "selected"
        /\ pc'[w] \in Failed => pc'[w] = pc[w]
        /\ pc'[w] = "burying" => pc[w] \in Working
    BY <1>0, <1>5 DEF RecordFailed, HandleSucceeds, Exit, Shutdown, Restart, Goto
  <2> QED BY <1>0, <2>1 DEF RowsExact, CopyExact, RowExists
<1>6. CASE ReleaseRead(w)
  <2>1. /\ pc[w] = "releasing" /\ pc' = [pc EXCEPT ![w] = "rewriting"]
        /\ UNCHANGED <<fails, rows, nextId>> /\ RowExists(h)
        /\ rec' = [rec EXCEPT ![w].attempts = rows[h].attempts]
    BY <1>6 DEF ReleaseRead, Goto
  <2>2. rec'[w].id = h /\ rec'[w].attempts = rows[h].attempts /\ rows[h].attempts = rec[w].attempts
    BY <1>0, <2>1 DEF Record, CopyExact
  <2> QED BY <1>0, <2>1, <2>2 DEF RowsExact, CopyExact, RowExists
<1>7. CASE ReleaseWrite(w)
  <2>1. /\ pc[w] = "rewriting" /\ pc'[w] = "idle" /\ UNCHANGED <<fails, nextId>>
        /\ UpdateRow(h, [rows[h] EXCEPT !.reserved = FALSE, !.due = FALSE,
                                        !.attempts = rec[w].attempts + 1])
    BY <1>0, <1>7 DEF ReleaseWrite, NextJob, Goto
  <2>2. /\ \A i \in Ids \ {h} : rows'[i] = rows[i]
        /\ rows'[h].job = rows[h].job
        /\ RowExists(h) => rows'[h].attempts = rec[w].attempts + 1
    BY <1>0, <2>1 DEF UpdateRow, Row
  <2>3. fails[h] <= rec[w].attempts + 1 /\ rec[w].attempts + 1 < MaxAttempts
    BY <1>0, <2>1 DEF CopyExact
  <2> QED BY <1>0, <2>1, <2>2, <2>3 DEF RowsExact, CopyExact, RowExists
<1>8. CASE PopFails(w) \/ ReleaseGone(w) \/ (Crash(w, InHand(w)) /\ UNCHANGED <<rows, nextId>>)
  <2>1. /\ pc'[w] \in {"idle", "crashed"} /\ UNCHANGED <<fails, rows, nextId>>
    BY <1>0, <1>8 DEF PopFails, ReleaseGone, Crash, NextJob, Goto
  <2> QED BY <1>0, <2>1 DEF RowsExact, CopyExact, RowExists
<1>9. CASE DeleteJob(w) \/ Bury(w)
  <2>1. /\ pc[w] \in Working /\ pc'[w] = "idle" /\ UNCHANGED <<fails, nextId>>
        /\ DeleteRow(h)
    BY <1>0, <1>9 DEF DeleteJob, Bury, NextJob, Goto
  <2>2. rows'[h].job = NoJob /\ \A i \in Ids \ {h} : rows'[i] = rows[i]
    BY <1>0, <2>1 DEF DeleteRow, NoRow
  <2> QED BY <1>0, <2>1, <2>2 DEF RowsExact, CopyExact, RowExists
<1>10. CASE LoopStep(w) \/ Disturb(w)
  <2>1. UNCHANGED <<rows, nextId>>
    BY <1>10 DEF LoopStep, Disturb
  <2> QED BY <1>1, <1>5, <1>8, <1>10, <2>1 DEF LoopStep, Disturb
<1> QED
  BY <1>2, <1>3, <1>4, <1>5, <1>6, <1>7, <1>8, <1>9, <1>10 DEF WorkerStep

LEMMA OthersExact ==
    ASSUME Exact, Safe',
           \/ \E j \in Jobs, due \in BOOLEAN : Dispatch(j, due)
           \/ \E i \in Ids : BecomesDue(i) \/ ForgetFailed(i)
           \/ \E o \in Operators : OperatorStep(o)
           \/ UNCHANGED vars
    PROVE  Exact'
<1>0. /\ rows \in [Ids -> Row] /\ fails \in [Ids -> Nat]
      /\ nextId \in Nat /\ Ids \subseteq Nat /\ MaxAttempts \in Nat \ {0}
      /\ RowsExact
      /\ \A w \in Workers :
           /\ CopyExact(w)
           /\ pc[w] \in {"selected"} \cup Working => rec[w].id \in Ids /\ rec[w].id < nextId
  BY DEF Exact, Safe, Typed, TypeOK, HandsOK, WorkerKeys, Ids
<1>1. UNCHANGED <<pc, rec, fails>>
  BY DEF Dispatch, BecomesDue, ForgetFailed, OperatorStep, RetryPush, vars, procVars
<1>2. /\ nextId' \in Nat /\ nextId' >= nextId
      /\ \A i \in Ids : \/ /\ rows'[i].job = rows[i].job
                           /\ rows'[i].reserved = rows[i].reserved
                           /\ rows'[i].attempts = rows[i].attempts
                        \/ i = nextId /\ rows'[i].attempts = 0
  <2>1. CASE \E i \in Ids : BecomesDue(i)
    BY <1>0, <2>1 DEF BecomesDue, Row
  <2>2. CASE \/ \E j \in Jobs, due \in BOOLEAN : Dispatch(j, due)
             \/ \E o \in Operators : RetryPush(o)
    BY <1>0, <2>2 DEF Dispatch, RetryPush, Insert, NewRow
  <2>3. CASE UNCHANGED <<rows, nextId>>
    BY <1>0, <2>3
  <2> QED BY <2>1, <2>2, <2>3 DEF ForgetFailed, OperatorStep, vars
<1>3. RowsExact'
  BY <1>0, <1>1, <1>2, FreshExact
<1>4. ASSUME NEW w \in Workers PROVE CopyExact(w)'
  <2>1. CASE pc[w] \in {"selected"} \cup Working
    <3>1. /\ rec[w].id \in Ids /\ rec[w].id # nextId
          /\ CopyExact(w) /\ pc'[w] = pc[w] /\ rec'[w] = rec[w]
      BY <1>0, <1>1, <2>1
    <3>2. /\ rows'[rec[w].id].job = rows[rec[w].id].job
          /\ rows'[rec[w].id].reserved = rows[rec[w].id].reserved
          /\ rows'[rec[w].id].attempts = rows[rec[w].id].attempts
      BY <1>2, <3>1
    <3> QED BY <1>1, <3>1, <3>2 DEF CopyExact, RowExists
  <2>2. CASE pc[w] \notin {"selected"} \cup Working
    BY <1>1, <2>2 DEF CopyExact, Before, Working, Failed
  <2> QED BY <2>1, <2>2
<1> QED BY <1>3, <1>4 DEF Exact, CopyExact

(***************************************************************************)
(* With a single worker an entry fails at most MaxAttempts times, whatever *)
(* is killed or rejects and whatever operators push again.                 *)
(***************************************************************************)
THEOREM SoleWorkerBounded ==
    ASSUME NEW w, Workers = {w}
    PROVE  Spec => []AttemptsBounded
<1>1. ASSUME Exact, [Next]_vars PROVE Exact'
  <2>1. Safe'
    BY <1>1, StepSafe DEF Exact
  <2> QED BY <1>1, <2>1, SoleWorkerExact, OthersExact DEF Next
<1>2. Exact => AttemptsBounded
  BY DEF Exact, RowsExact, AttemptsBounded
<1> QED BY <1>1, <1>2, InitExact, PTL DEF Spec

=============================================================================
