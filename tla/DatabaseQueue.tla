--------------------------- MODULE DatabaseQueue ----------------------------
(***************************************************************************)
(* The database queue driver under several queue:work processes.           *)
(*                                                                         *)
(* pop() is a SELECT of the first unreserved due row followed by an UPDATE *)
(* that sets reserved_at by id alone, release() is a SELECT followed by an *)
(* UPDATE computed from it: other processes act between the two. Nothing   *)
(* ever clears reserved_at but release().                                  *)
(*                                                                         *)
(* Time is reduced to what the SELECT compares: `due` says available_at is *)
(* not in the future, and BecomesDue lets the clock reach it. The keys of  *)
(* jobs and failed_jobs come from one counter; each table's keys still     *)
(* grow in the order of its inserts, which is all `ORDER BY id` sees.      *)
(***************************************************************************)
EXTENDS FailedJobs

VARIABLES
    rows,   \* the jobs table, by primary key; job = NoJob where there is no row
    nextId

vars == <<procVars, failedVars, rows, nextId>>

Row == [job : Jobs \cup {NoJob}, attempts : Nat, reserved : BOOLEAN, due : BOOLEAN]

NoRow == [job |-> NoJob, attempts |-> 0, reserved |-> FALSE, due |-> FALSE]

NewRow(j, due) == [job |-> j, attempts |-> 0, reserved |-> FALSE, due |-> due]

RowExists(i) == rows[i].job # NoJob

\* WHERE reserved_at IS NULL AND available_at <= now
Poppable == {i \in Ids : RowExists(i) /\ ~rows[i].reserved /\ rows[i].due}

Init ==
    /\ ProcInit
    /\ FailedInit
    /\ rows = [i \in Ids |-> NoRow]
    /\ nextId = 1

TypeOK ==
    /\ pc \in [Workers -> {"idle", "selected"} \cup Working \cup Down]
    /\ rec \in [Workers -> Record]
    /\ quit \in [Workers -> BOOLEAN]
    /\ accepted \subseteq Jobs /\ done \subseteq Jobs /\ forgotten \subseteq Jobs
    /\ fails \in [Ids -> Nat]
    /\ orphaned \subseteq Ids
    /\ stops \in 0 .. MaxStops /\ faults \in 0 .. MaxFaults
    /\ failed \in [Ids -> Jobs \cup {NoJob}]
    /\ op \in [Operators -> Retry]
    /\ rows \in [Ids -> Row]
    /\ nextId \in 1 .. MaxId + 1

----------------------------------------------------------------------------
(* The statements of the driver *)

Insert(j, due) ==
    /\ nextId <= MaxId
    /\ rows' = [rows EXCEPT ![nextId] = NewRow(j, due)]
    /\ nextId' = nextId + 1

DeleteRow(i) == rows' = [rows EXCEPT ![i] = NoRow]

\* UPDATE ... WHERE id = i: changes nothing when the row is gone.
UpdateRow(i, row) == rows' = [rows EXCEPT ![i] = IF RowExists(i) THEN row ELSE @]

----------------------------------------------------------------------------
(* Producers, and the clock *)

\* push() and later() of a job, or of the first job of a chain.
Dispatch(j, due) ==
    /\ j \in Heads \ accepted
    /\ Insert(j, due)
    /\ accepted' = accepted \cup {j}
    /\ UNCHANGED <<pc, rec, quit, done, fails, orphaned, stops, faults, failedVars>>

BecomesDue(i) ==
    /\ RowExists(i) /\ ~rows[i].due
    /\ rows' = [rows EXCEPT ![i].due = TRUE]
    /\ UNCHANGED <<procVars, failedVars, nextId>>

----------------------------------------------------------------------------
(* A worker *)

PopSelect(w) ==
    /\ pc[w] = "idle" /\ ~quit[w]
    /\ \E i \in Poppable :
         /\ \A k \in Poppable : i <= k
         /\ rec' = [rec EXCEPT ![w] =
                      [id |-> i, job |-> rows[i].job, attempts |-> rows[i].attempts]]
    /\ Goto(w, "selected")
    /\ UNCHANGED <<quit, accepted, done, fails, orphaned, stops, faults,
                   failedVars, rows, nextId>>

PopReserve(w) ==
    /\ pc[w] = "selected"
    /\ UpdateRow(rec[w].id, [rows[rec[w].id] EXCEPT !.reserved = TRUE])
    /\ Goto(w, "handling")
    /\ UNCHANGED <<rec, quit, accepted, done, fails, orphaned, stops, faults,
                   failedVars, nextId>>

\* The UPDATE of pop() rejects: the loop sleeps and polls again.
PopFails(w) ==
    /\ pc[w] = "selected"
    /\ faults < MaxFaults
    /\ faults' = faults + 1
    /\ NextJob(w)
    /\ UNCHANGED <<quit, accepted, done, fails, orphaned, stops, failedVars,
                   rows, nextId>>

\* The continuer: pushRaw of the first link with the rest of the chain.
PushNextLink(w) ==
    /\ pc[w] = "chaining"
    /\ Insert(NextLink[rec[w].job], TRUE)
    /\ accepted' = accepted \cup {NextLink[rec[w].job]}
    /\ Goto(w, "deleting")
    /\ UNCHANGED <<rec, quit, done, fails, orphaned, stops, faults, failedVars>>

DeleteJob(w) ==
    /\ pc[w] = "deleting"
    /\ DeleteRow(rec[w].id)
    /\ NextJob(w)
    /\ UNCHANGED <<quit, accepted, done, fails, orphaned, stops, faults,
                   failedVars, nextId>>

\* Mutant: the key is recorded in the place of the payload.
RecordFailedKey(w) ==
    /\ pc[w] = "recording"
    /\ nextId <= MaxId
    /\ InsertFailed(nextId, rec[w].id)
    /\ nextId' = nextId + 1
    /\ Goto(w, "burying")
    /\ UNCHANGED <<rec, quit, accepted, done, fails, orphaned, stops, faults,
                   op, forgotten, rows>>

RecordFailed(w) ==
    /\ pc[w] = "recording"
    /\ nextId <= MaxId
    /\ InsertFailed(nextId, rec[w].job)
    /\ nextId' = nextId + 1
    /\ Goto(w, "burying")
    /\ UNCHANGED <<rec, quit, accepted, done, fails, orphaned, stops, faults,
                   op, forgotten, rows>>

\* deleteJob after failedJobs.record.
Bury(w) ==
    /\ pc[w] = "burying"
    /\ DeleteRow(rec[w].id)
    /\ NextJob(w)
    /\ UNCHANGED <<quit, accepted, done, fails, orphaned, stops, faults,
                   failedVars, nextId>>

\* release(): the SELECT, whose attempts the UPDATE will increment.
ReleaseRead(w) ==
    /\ pc[w] = "releasing"
    /\ RowExists(rec[w].id)
    /\ rec' = [rec EXCEPT ![w].attempts = rows[rec[w].id].attempts]
    /\ Goto(w, "rewriting")
    /\ UNCHANGED <<quit, accepted, done, fails, orphaned, stops, faults,
                   failedVars, rows, nextId>>

\* release(): another worker has deleted the row.
ReleaseGone(w) ==
    /\ pc[w] = "releasing"
    /\ ~RowExists(rec[w].id)
    /\ NextJob(w)
    /\ UNCHANGED <<quit, accepted, done, fails, orphaned, stops, faults,
                   failedVars, rows, nextId>>

\* Mutant: the UPDATE does not reset reserved_at.
ReleaseWriteReserved(w) ==
    /\ pc[w] = "rewriting"
    /\ UpdateRow(rec[w].id, [rows[rec[w].id] EXCEPT
                               !.due = FALSE, !.attempts = rec[w].attempts + 1])
    /\ NextJob(w)
    /\ UNCHANGED <<quit, accepted, done, fails, orphaned, stops, faults,
                   failedVars, nextId>>

ReleaseWrite(w) ==
    /\ pc[w] = "rewriting"
    /\ UpdateRow(rec[w].id, [rows[rec[w].id] EXCEPT
                               !.reserved = FALSE, !.due = FALSE,
                               !.attempts = rec[w].attempts + 1])
    /\ NextJob(w)
    /\ UNCHANGED <<quit, accepted, done, fails, orphaned, stops, faults,
                   failedVars, nextId>>

\* The steps of the loop that leave the tables alone.
LoopStep(w) ==
    /\ \/ HandleSucceeds(w)
       \/ HandleFails(w)
       \/ StepFails(w)
       \/ Exit(w)
    /\ UNCHANGED <<failedVars, rows, nextId>>

Disturb(w) ==
    /\ Shutdown(w) \/ Crash(w, InHand(w)) \/ Restart(w)
    /\ UNCHANGED <<failedVars, rows, nextId>>

WorkerStep(w) ==
    \/ PopSelect(w) \/ PopReserve(w) \/ PopFails(w)
    \/ LoopStep(w)
    \/ PushNextLink(w) \/ DeleteJob(w)
    \/ RecordFailed(w) \/ Bury(w)
    \/ ReleaseRead(w) \/ ReleaseGone(w) \/ ReleaseWrite(w)

----------------------------------------------------------------------------
(* queue:retry and forget *)

RetryPush(o) ==
    /\ RetryPushed(o)
    /\ Insert(op[o].job, TRUE)
    /\ UNCHANGED procVars

OperatorStep(o) ==
    \/ RetryPush(o)
    \/ /\ RetryFind(o) \/ RetryDelete(o) \/ RetryKilled(o)
       /\ UNCHANGED <<procVars, rows, nextId>>

ForgetFailed(i) == Forget(i) /\ UNCHANGED <<procVars, rows, nextId>>

----------------------------------------------------------------------------
Next ==
    \/ \E j \in Jobs, due \in BOOLEAN : Dispatch(j, due)
    \/ \E i \in Ids : BecomesDue(i) \/ ForgetFailed(i)
    \/ \E w \in Workers : WorkerStep(w) \/ Disturb(w)
    \/ \E o \in Operators : OperatorStep(o)

Spec == Init /\ [][Next]_vars

\* A live process keeps executing its loop, and the clock advances.
Fairness ==
    /\ \A w \in Workers : WF_vars(WorkerStep(w))
    /\ \A i \in Ids : WF_vars(BecomesDue(i))

FairSpec == Spec /\ Fairness

----------------------------------------------------------------------------
(* What the driver and the loop guarantee *)

\* Some record of the job remains: a row of jobs or of failed_jobs.
Holds(i, j) == rows[i].job = j \/ failed[i] = j

(***************************************************************************)
(* No job is lost. From the moment push() returns, a job that has not run  *)
(* (or has not queued the next link of its chain) is in jobs or in         *)
(* failed_jobs, whatever worker is killed, whatever statement fails, and   *)
(* however two workers that popped the same row, a queue:retry and a       *)
(* forget overlap. It rests on three orders of the code: push the next     *)
(* link before deleteJob, record the failure before deleteJob, push the    *)
(* retry before deleting the failed record.                                *)
(***************************************************************************)
NoJobLost ==
    \A j \in accepted : Settled(j) \/ \E i \in Ids : Holds(i, j)

(***************************************************************************)
(* Whoever is about to delete a record of a job has secured the job first: *)
(* it is settled, or another record of it has a later key. A record is     *)
(* only ever given up for a later one, so two workers, or two operators,   *)
(* that delete at the same time cannot each rely on what the other deletes. *)
(***************************************************************************)
CoveredAfter(i, j) == Settled(j) \/ \E k \in Ids : k > i /\ Holds(k, j)

WorkerSecured(w) ==
    /\ pc[w] = "chaining" => rec[w].job \in done
    /\ pc[w] = "deleting" => Settled(rec[w].job)
    /\ pc[w] = "burying" => CoveredAfter(rec[w].id, rec[w].job)

OperatorSecured(o) == op[o].step = "pushed" => CoveredAfter(op[o].id, op[o].job)

DeletersSecured ==
    (\A w \in Workers : WorkerSecured(w)) /\ (\A o \in Operators : OperatorSecured(o))

(***************************************************************************)
(* A reservation is never left behind by a worker that goes on: a reserved *)
(* row is in the hands of a running worker, or a killed worker held it. A  *)
(* SIGTERM strands nothing.                                                *)
(***************************************************************************)
ReservedIsHeld ==
    \A i \in Ids : rows[i].reserved =>
        i \in orphaned \/ \E w \in Workers : pc[w] \in Working /\ rec[w].id = i

(***************************************************************************)
(* The queue drains: while some worker stays up, every accepted job is     *)
(* eventually run (and its successor queued), recorded in failed_jobs, or  *)
(* the job of a row that a worker had selected or reserved when killed.    *)
(***************************************************************************)
Resolved(j) ==
    \/ Settled(j)
    \/ \E i \in Ids : failed[i] = j \/ (i \in orphaned /\ rows[i].job = j)

Drains ==
    (\E w \in Workers : StaysUp(w)) =>
        \A j \in Jobs : j \in accepted ~> Resolved(j)

(***************************************************************************)
(* The driver, the loop and the retry command implement JobDelivery: each  *)
(* statement is a step of the promise or changes nothing in it.            *)
(***************************************************************************)
OnRecord == {j \in Jobs : \E i \in Ids : Holds(i, j)}

Promise == INSTANCE JobDelivery WITH onRecord <- OnRecord

Delivers == Promise!Spec

=============================================================================
