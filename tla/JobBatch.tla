------------------------------ MODULE JobBatch ------------------------------
(***************************************************************************)
(* A job batch (PendingBatch, BatchRepository) whose jobs several workers  *)
(* run. The batch is one cache entry that every report reads, changes and  *)
(* writes back, with an await between the read and the write and no lock:  *)
(* a report can be lost, and so can a cancel.                              *)
(*                                                                         *)
(* Of the queue below only what reaches the batch is kept: which jobs      *)
(* still have a record, in the queue or in failed_jobs. Such a job can be  *)
(* run (again): several workers may have popped it (two SELECTs of a row,  *)
(* an id promoted twice), a successful run may leave it there, queue:retry *)
(* brings it back. How each comes about, and from how many attempts on a   *)
(* failed job is recorded, is the subject of DatabaseQueue and RedisQueue. *)
(* The entry is a copy per read, as the file, Redis, DynamoDB and          *)
(* Memcached stores return it.                                             *)
(***************************************************************************)
EXTENDS Naturals, FiniteSets

CONSTANTS
    BatchJobs,    \* the jobs handed to Bus.batch
    NoJob,        \* absence of a job
    Workers,
    MaxRuns       \* bound: how often a handler of the batch's jobs may end

ASSUME BatchAssumption ==
    /\ IsFiniteSet(BatchJobs) /\ BatchJobs # {} /\ NoJob \notin BatchJobs
    /\ IsFiniteSet(Workers)
    /\ MaxRuns \in Nat \ {0}

VARIABLES
    crew,       \* the workers that are started; never changes
    batch,      \* the cache entry
    unsent,     \* the jobs dispatch() has still to push
    held,       \* the jobs with a record in the queue or in failed_jobs
    pc, job,    \* per worker: the step inside process(), the job it runs
    outcome,    \* per worker: whether the run has succeeded so far
    read,       \* per worker: the entry it found
    canceller,  \* the process that calls cancel()
    runs,       \* history: how often a handler has ended
    ran,        \* history: the jobs whose handler has ended
    reports,    \* history: how many reports were written, lost ones included
    reported    \* history: the jobs a report was written for

queue == <<unsent, held>>
history == <<runs, ran, reports, reported>>

vars == <<crew, batch, queue, pc, job, outcome, read, canceller, history>>

Total == Cardinality(BatchJobs)

NoBatch == [pending |-> 0, failed |-> 0, finished |-> FALSE, cancelled |-> FALSE,
            exists |-> FALSE]

NewBatch == [pending |-> Total, failed |-> 0, finished |-> FALSE,
             cancelled |-> FALSE, exists |-> TRUE]

Entry == [pending : Nat, failed : Nat, finished : BOOLEAN, cancelled : BOOLEAN,
          exists : BOOLEAN]

Init ==
    /\ crew \in SUBSET Workers \ {{}}
    /\ batch = NoBatch
    /\ unsent = BatchJobs
    /\ held = {}
    /\ pc = [w \in Workers |-> "idle"]
    /\ job = [w \in Workers |-> NoJob]
    /\ outcome = [w \in Workers |-> FALSE]
    /\ read = [w \in Workers |-> NoBatch]
    /\ canceller = [step |-> "none", read |-> NoBatch]
    /\ runs = 0
    /\ ran = {}
    /\ reports = 0
    /\ reported = {}

TypeOK ==
    /\ crew \subseteq Workers
    /\ batch \in Entry
    /\ unsent \subseteq BatchJobs
    /\ held \subseteq BatchJobs
    /\ pc \in [Workers -> {"idle", "handling", "finding", "writing", "settling"}]
    /\ job \in [Workers -> BatchJobs \cup {NoJob}]
    /\ outcome \in [Workers -> BOOLEAN]
    /\ read \in [Workers -> Entry]
    /\ canceller \in [step : {"none", "found", "done"}, read : Entry]
    /\ runs \in 0 .. MaxRuns
    /\ ran \subseteq BatchJobs
    /\ reports \in Nat
    /\ reported \subseteq BatchJobs

Goto(w, label) == pc' = [pc EXCEPT ![w] = label]

----------------------------------------------------------------------------
(* PendingBatch.dispatch: create the entry, then push one job at a time *)

Create ==
    /\ ~batch.exists
    /\ batch' = NewBatch
    /\ UNCHANGED <<crew, queue, pc, job, outcome, read, canceller, history>>

PushJob(j) ==
    /\ batch.exists
    /\ j \in unsent
    /\ unsent' = unsent \ {j}
    /\ held' = held \cup {j}
    /\ UNCHANGED <<crew, batch, pc, job, outcome, read, canceller, history>>

----------------------------------------------------------------------------
(* QueueProcessor.run with QueueWorker.process; nothing looks at           *)
(* cancelledAt before the job runs                                         *)

\* pop(), also of a job that another worker has popped, or after queue:retry.
Take(w, j) ==
    /\ pc[w] = "idle"
    /\ j \in held
    /\ job' = [job EXCEPT ![w] = j]
    /\ Goto(w, "handling")
    /\ UNCHANGED <<crew, batch, queue, outcome, read, canceller, history>>

\* The class is not registered with this worker: the run fails unreported.
Unregistered(w) ==
    /\ pc[w] = "handling"
    /\ Goto(w, "settling")
    /\ UNCHANGED <<crew, batch, queue, job, outcome, read, canceller, history>>

Handle(w, ok) ==
    /\ pc[w] = "handling"
    /\ runs < MaxRuns
    /\ runs' = runs + 1
    /\ ran' = ran \cup {job[w]}
    /\ outcome' = [outcome EXCEPT ![w] = ok]
    /\ Goto(w, "finding")
    /\ UNCHANGED <<crew, batch, queue, job, read, canceller, reports, reported>>

\* Mutant: a cancelled batch still counts reports.
FindAnyway(w) ==
    /\ pc[w] = "finding"
    /\ read' = [read EXCEPT ![w] = batch]
    /\ Goto(w, "writing")
    /\ UNCHANGED <<crew, batch, queue, job, outcome, canceller, history>>

\* recordSuccessfulJob, recordFailedJob: find.
Find(w) ==
    /\ pc[w] = "finding"
    /\ IF batch.cancelled
       THEN Goto(w, "settling") /\ UNCHANGED read
       ELSE Goto(w, "writing") /\ read' = [read EXCEPT ![w] = batch]
    /\ UNCHANGED <<crew, batch, queue, job, outcome, canceller, history>>

\* Mutants: the counter is not clamped; a job is counted twice.
LessUnclamped(n) == n - 1
LessTwice(n) == IF n < 2 THEN 0 ELSE n - 2

\* Math.max(0, pendingJobs - 1)
Less(n) == IF n = 0 THEN 0 ELSE n - 1

\* Mutants: finishedAt is set one job early; the test precedes the decrement.
SuccessEarly(b) ==
    [b EXCEPT !.pending = Less(@),
              !.finished = @ \/ (Less(b.pending) <= 1 /\ b.failed = 0)]

SuccessLate(b) ==
    [b EXCEPT !.pending = Less(@),
              !.finished = @ \/ (b.pending = 0 /\ b.failed = 0)]

Success(b) ==
    [b EXCEPT !.pending = Less(@),
              !.finished = @ \/ (Less(b.pending) = 0 /\ b.failed = 0)]

Failure(b) ==
    [b EXCEPT !.pending = Less(@),
              !.failed = @ + 1,
              !.finished = @ \/ Less(b.pending) = 0]

\* ... and put of the entry computed from the one that was found.
Put(w) ==
    /\ pc[w] = "writing"
    /\ batch' = IF outcome[w] THEN Success(read[w]) ELSE Failure(read[w])
    /\ reports' = reports + 1
    /\ reported' = reported \cup {job[w]}
    /\ read' = [read EXCEPT ![w] = NoBatch]
    /\ Goto(w, "settling")
    /\ UNCHANGED <<crew, queue, job, outcome, canceller, runs, ran>>

\* The cache rejects: in the try block the run now counts as failed and
\* recordFailedJob is called; inside the catch block the error goes up.
ReportFails(w) ==
    /\ pc[w] \in {"finding", "writing"}
    /\ outcome' = [outcome EXCEPT ![w] = FALSE]
    /\ Goto(w, IF outcome[w] THEN "finding" ELSE "settling")
    /\ read' = [read EXCEPT ![w] = NoBatch]
    /\ UNCHANGED <<crew, batch, queue, job, canceller, history>>

Idle(w) ==
    /\ Goto(w, "idle")
    /\ job' = [job EXCEPT ![w] = NoJob]
    /\ outcome' = [outcome EXCEPT ![w] = FALSE]
    /\ read' = [read EXCEPT ![w] = NoBatch]

\* process() returned or threw: the loop deletes the job, or it releases or
\* records it. Another record of the job may be left, or none to release. The
\* hook, the continuer and deleteJob fail a run whose success was reported.
Settle(w) ==
    /\ pc[w] = "settling"
    /\ \/ held' \in {held, held \cup {job[w]}}
       \/ outcome[w] /\ held' = held \ {job[w]}
    /\ Idle(w)
    /\ UNCHANGED <<crew, batch, unsent, canceller, history>>

\* The worker is killed anywhere, and started again.
Kill(w) ==
    /\ pc[w] # "idle"
    /\ Idle(w)
    /\ UNCHANGED <<crew, batch, queue, canceller, history>>

----------------------------------------------------------------------------
(* BatchRepository.cancel, called once by some other process *)

CancelFind ==
    /\ canceller.step = "none"
    /\ batch.exists
    /\ canceller' = [step |-> "found", read |-> batch]
    /\ UNCHANGED <<crew, batch, queue, pc, job, outcome, read, history>>

CancelPut ==
    /\ canceller.step = "found"
    /\ batch' = [canceller.read EXCEPT !.cancelled = TRUE]
    /\ canceller' = [step |-> "done", read |-> NoBatch]
    /\ UNCHANGED <<crew, queue, pc, job, outcome, read, history>>

Run(w) ==
    \/ \E j \in BatchJobs : Take(w, j)
    \/ \E ok \in BOOLEAN : Handle(w, ok)
    \/ Unregistered(w) \/ Find(w) \/ Put(w) \/ ReportFails(w) \/ Settle(w)

Dispatching == Create \/ \E j \in BatchJobs : PushJob(j)

Cancelling == CancelFind \/ CancelPut

Next ==
    \/ Dispatching \/ Cancelling
    \/ \E w \in crew : Run(w) \/ Kill(w)

Spec == Init /\ [][Next]_vars

----------------------------------------------------------------------------
\* Reports about to be written.
Reporting == {w \in Workers : pc[w] = "writing"}

(***************************************************************************)
(* Lost updates only ever leave pendingJobs too high: what is pending, and *)
(* what any process is about to make of it, together with the reports that *)
(* were written, is at least the number of jobs. Reports are counted here, *)
(* not jobs: a job that runs twice may report twice.                       *)
(***************************************************************************)
PendingNeverTooLow ==
    batch.exists =>
        /\ batch.pending + reports >= Total
        /\ \A w \in Reporting : read[w].pending + reports >= Total
        /\ canceller.step = "found" => canceller.read.pending + reports >= Total

(***************************************************************************)
(* A batch is finished while a job of it has not reported only if the      *)
(* handler of some job ran twice: no order of the reports, no lost update, *)
(* rejected put, kill or cancel does it, nor jobs that finish while        *)
(* dispatch() is still pushing.                                            *)
(***************************************************************************)
FinishedEarlyOnlyByRerun ==
    batch.finished => reported = BatchJobs \/ runs > Cardinality(ran)

(***************************************************************************)
(* Once a cancel is written the batch never changes again, unless a report *)
(* that read the entry before the cancel writes it back, which undoes it.  *)
(***************************************************************************)
CancelFreezes ==
    [][batch.cancelled /\ (\A w \in Reporting : read[w].cancelled) => batch' = batch]_vars

(***************************************************************************)
(* With a single worker and no cancel, a batch without a failed report is  *)
(* finished, with nothing pending, once as many reports as jobs were       *)
(* written: whatever was killed or rejected, no report is lost.            *)
(***************************************************************************)
SuccessFinishes ==
    /\ Cardinality(crew) = 1 /\ canceller.step = "none"
    /\ reports >= Total /\ batch.failed = 0
    => batch.finished /\ batch.pending = 0

=============================================================================
