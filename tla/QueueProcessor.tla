--------------------------- MODULE QueueProcessor ---------------------------
(***************************************************************************)
(* The loop every `queue:work` process runs (QueueProcessor.run with       *)
(* QueueWorker.process inside it), without the storage driver: pop a job,  *)
(* run its handler, push the next link of its chain, delete it; on an      *)
(* error record it as failed for good or release it for a retry.           *)
(*                                                                         *)
(* DatabaseQueue and RedisQueue EXTEND this module and add the driver's    *)
(* statements. Every pc value stands between two awaits, so that another   *)
(* process can act there.                                                  *)
(***************************************************************************)
EXTENDS Naturals, FiniteSets

CONSTANTS
    Jobs,         \* the units of work an application dispatches
    NoJob,        \* absence of a job
    NextLink,     \* [Jobs -> Jobs \cup {NoJob}]: the job that follows in the chain
    Workers,      \* queue:work processes
    MaxAttempts,  \* QueueWorkerOptions.maxAttempts
    MaxId,        \* bound: database keys handed out in a behaviour
    MaxStops,     \* bound: signals and kills in a behaviour
    MaxFaults     \* bound: statements that reject in a behaviour

ASSUME JobsAssumption ==
    /\ NoJob \notin Jobs
    /\ NextLink \in [Jobs -> Jobs \cup {NoJob}]
\* A serialized job is an entry of one chain: it follows at most one other.
ASSUME ChainsAssumption ==
    \A j, k \in Jobs : NextLink[j] = NextLink[k] /\ NextLink[j] # NoJob => j = k
ASSUME BoundsAssumption ==
    /\ IsFiniteSet(Workers)
    /\ MaxAttempts \in Nat \ {0}
    /\ MaxId \in Nat /\ MaxStops \in Nat /\ MaxFaults \in Nat

VARIABLES
    pc,        \* where each worker's loop is
    rec,       \* the record pop() returned to it: id, payload, attempts
    quit,      \* shouldQuit: SIGTERM or SIGINT arrived
    accepted,  \* history: jobs whose push has returned
    done,      \* history: jobs whose handler has returned once
    fails,     \* history: failed runs of each entry, counted up to MaxAttempts + 1
    orphaned,  \* history: entries in the hands of a worker when it lost them
    stops, faults

procVars == <<pc, rec, quit, accepted, done, fails, orphaned, stops, faults>>

Ids == 1 .. MaxId

(***************************************************************************)
(* The pc values of a worker inside the try/catch of one job. The drivers  *)
(* add those of their own pop, delete and release.                         *)
(***************************************************************************)
Failed  == {"recording", "releasing", "rewriting"}
Working == {"handling", "chaining", "deleting", "burying"} \cup Failed
Down    == {"stopped", "crashed"}

NoRecord == [id |-> 0, job |-> NoJob, attempts |-> 0]

Record == [id : Ids \cup {0}, job : Jobs \cup {NoJob}, attempts : Nat]

\* Jobs dispatched on their own: every other job enters the queue as a link.
Heads == {j \in Jobs : \A k \in Jobs : NextLink[k] # j}

HasNext(j) == NextLink[j] # NoJob

ProcInit ==
    /\ pc = [w \in Workers |-> "idle"]
    /\ rec = [w \in Workers |-> NoRecord]
    /\ quit = [w \in Workers |-> FALSE]
    /\ accepted = {}
    /\ done = {}
    /\ fails = [i \in Ids |-> 0]
    /\ orphaned = {}
    /\ stops = 0
    /\ faults = 0

Goto(w, label) == pc' = [pc EXCEPT ![w] = label]

\* `processed += 1` and back to the loop condition.
NextJob(w) ==
    /\ Goto(w, "idle")
    /\ rec' = [rec EXCEPT ![w] = NoRecord]

\* The entry in the worker's hands.
InHand(w) == {rec[w].id} \ {0}

\* Mutants: the comparison off by one, either way.
ExhaustedEarly(record) == record.attempts + 2 >= MaxAttempts
ExhaustedLate(record) == record.attempts >= MaxAttempts

\* The comparison at the head of the catch block.
Exhausted(record) == record.attempts + 1 >= MaxAttempts

\* Mutant: the failed job is deleted without being recorded.
CatchDiscards(w) ==
    /\ fails' = [fails EXCEPT ![rec[w].id] = IF @ > MaxAttempts THEN @ ELSE @ + 1]
    /\ Goto(w, IF Exhausted(rec[w]) THEN "burying" ELSE "releasing")

\* The catch block: record the job as failed, or release it for a retry.
Catch(w) ==
    /\ fails' = [fails EXCEPT ![rec[w].id] = IF @ > MaxAttempts THEN @ ELSE @ + 1]
    /\ Goto(w, IF Exhausted(rec[w]) THEN "recording" ELSE "releasing")

----------------------------------------------------------------------------
\* Mutant: the rest of the chain is dropped.
HandleSucceedsAlone(w) ==
    /\ pc[w] = "handling"
    /\ done' = done \cup {rec[w].job}
    /\ Goto(w, "deleting")
    /\ UNCHANGED <<rec, quit, accepted, fails, orphaned, stops, faults>>

\* job.handle() resolves; the chain, when there is one, is continued next.
HandleSucceeds(w) ==
    /\ pc[w] = "handling"
    /\ done' = done \cup {rec[w].job}
    /\ Goto(w, IF HasNext(rec[w].job) THEN "chaining" ELSE "deleting")
    /\ UNCHANGED <<rec, quit, accepted, fails, orphaned, stops, faults>>

\* Mutant: the chain goes on after a failed attempt.
HandleFailsContinues(w) ==
    /\ pc[w] = "handling"
    /\ Goto(w, IF HasNext(rec[w].job) THEN "chaining" ELSE "deleting")
    /\ UNCHANGED <<rec, quit, accepted, done, fails, orphaned, stops, faults>>

\* job.handle() rejects, the payload does not decode or its class is unknown.
HandleFails(w) ==
    /\ pc[w] = "handling"
    /\ Catch(w)
    /\ UNCHANGED <<rec, quit, accepted, done, orphaned, stops, faults>>

\* The process hook, the continuer's push or deleteJob rejects after the
\* handler succeeded: the same catch block treats it as a failed attempt.
StepFails(w) ==
    /\ pc[w] \in {"chaining", "deleting"}
    /\ faults < MaxFaults
    /\ faults' = faults + 1
    /\ Catch(w)
    /\ UNCHANGED <<rec, quit, accepted, done, orphaned, stops>>

\* The signal handler; the flag is read only at the head of the loop.
Shutdown(w) ==
    /\ pc[w] \notin Down
    /\ ~quit[w]
    /\ stops < MaxStops
    /\ stops' = stops + 1
    /\ quit' = [quit EXCEPT ![w] = TRUE]
    /\ UNCHANGED <<pc, rec, accepted, done, fails, orphaned, faults>>

\* run() returns: the loop condition is false (a signal, or maxJobs reached).
Exit(w) ==
    /\ pc[w] = "idle"
    /\ quit[w]
    /\ Goto(w, "stopped")
    /\ UNCHANGED <<rec, quit, accepted, done, fails, orphaned, stops, faults>>

\* The process is killed, or a statement of the catch block rejects: run()
\* then rejects too and the process ends without touching the queue again.
\* `held` are the queue entries that were in its hands.
Crash(w, held) ==
    /\ pc[w] \notin Down
    /\ stops < MaxStops
    /\ stops' = stops + 1
    /\ Goto(w, "crashed")
    /\ rec' = [rec EXCEPT ![w] = NoRecord]
    /\ orphaned' = orphaned \cup held
    /\ UNCHANGED <<quit, accepted, done, fails, faults>>

\* A supervisor starts `queue:work` again.
Restart(w) ==
    /\ pc[w] \in Down
    /\ Goto(w, "idle")
    /\ quit' = [quit EXCEPT ![w] = FALSE]
    /\ UNCHANGED <<rec, accepted, done, fails, orphaned, stops, faults>>

=============================================================================
