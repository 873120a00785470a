----------------------------- MODULE FailedJobs -----------------------------
(***************************************************************************)
(* The failed_jobs table (FailedJobRepository) and the commands that       *)
(* operate on it while workers run: queue:retry finds a record, pushes its *)
(* payload and only then deletes the record; forget deletes it.            *)
(***************************************************************************)
EXTENDS QueueProcessor

CONSTANT Operators  \* people running queue:retry

VARIABLES
    failed,    \* [Ids -> Jobs \cup {NoJob}]: the table, by primary key
    op,        \* [Operators -> the retry each is in the middle of]
    forgotten  \* history: jobs an operator discarded

failedVars == <<failed, op, forgotten>>

NoRetry == [step |-> "none", id |-> 0, job |-> NoJob]

Retry == [step : {"none", "found", "pushed"}, id : Ids \cup {0},
          job : Jobs \cup {NoJob}]

FailedInit ==
    /\ failed = [i \in Ids |-> NoJob]
    /\ op = [o \in Operators |-> NoRetry]
    /\ forgotten = {}

\* FailedJobRepository.record: insert under key i.
InsertFailed(i, j) == failed' = [failed EXCEPT ![i] = j]

DeleteFailed(i) == failed' = [failed EXCEPT ![i] = NoJob]

----------------------------------------------------------------------------
\* retry(): find(id); a missing record ends the command.
RetryFind(o) ==
    /\ op[o].step = "none"
    /\ \E i \in Ids :
         /\ failed[i] # NoJob
         /\ op' = [op EXCEPT ![o] = [step |-> "found", id |-> i, job |-> failed[i]]]
    /\ UNCHANGED <<failed, forgotten>>

\* retry(): push() has resolved, the record is still there.
RetryPushed(o) ==
    /\ op[o].step = "found"
    /\ op' = [op EXCEPT ![o].step = "pushed"]
    /\ UNCHANGED <<failed, forgotten>>

\* Mutant: the failed record is deleted whether or not the push came first.
RetryDeleteEarly(o) ==
    /\ op[o].step \in {"found", "pushed"}
    /\ DeleteFailed(op[o].id)
    /\ op' = [op EXCEPT ![o] = NoRetry]
    /\ UNCHANGED forgotten

\* retry(): delete by id, whoever still needs the record.
RetryDelete(o) ==
    /\ op[o].step = "pushed"
    /\ DeleteFailed(op[o].id)
    /\ op' = [op EXCEPT ![o] = NoRetry]
    /\ UNCHANGED forgotten

\* The command is interrupted between two of its statements.
RetryKilled(o) ==
    /\ op[o].step # "none"
    /\ op' = [op EXCEPT ![o] = NoRetry]
    /\ UNCHANGED <<failed, forgotten>>

\* forget(id)
Forget(i) ==
    /\ failed[i] # NoJob
    /\ DeleteFailed(i)
    /\ forgotten' = forgotten \cup {failed[i]}
    /\ UNCHANGED op

----------------------------------------------------------------------------
(* What both drivers are held to *)

\* Nothing is owed for the job any more: it ran and its successor was
\* queued, or an operator discarded it.
Settled(j) ==
    \/ j \in forgotten
    \/ j \in done /\ (HasNext(j) => NextLink[j] \in accepted)

(***************************************************************************)
(* A chain runs in order: a link enters the queue only after the handler   *)
(* of the job before it has returned, on every path, retries and failed    *)
(* jobs included.                                                          *)
(***************************************************************************)
ChainOrder ==
    \A j \in Jobs : HasNext(j) /\ NextLink[j] \in accepted => j \in done

(***************************************************************************)
(* A job is written to failed_jobs only after MaxAttempts failed runs of   *)
(* its entry, also when several workers release the same row and the       *)
(* attempts column loses updates or goes backwards.                        *)
(***************************************************************************)
RecordedAfterMaxAttempts ==
    \A w \in Workers : pc[w] \in {"recording", "burying"}
                           => fails[rec[w].id] >= MaxAttempts

(***************************************************************************)
(* With a single worker the attempts column is exact: an entry fails at    *)
(* most MaxAttempts times. (Two workers that pop the same row lose updates *)
(* of the column and run it more often.)                                   *)
(***************************************************************************)
AttemptsBounded == \A i \in Ids : fails[i] <= MaxAttempts

\* A worker that from some time on is neither stopped nor killed.
StaysUp(w) == <>[](~quit[w] /\ pc[w] \notin Down)

=============================================================================
