----------------------------- MODULE RedisQueue -----------------------------
(***************************************************************************)
(* The Redis queue driver under several queue:work processes. A job is an  *)
(* envelope under its own key, and its id travels between the ready list,  *)
(* the delayed sorted set and the reserved sorted set. Every call of the   *)
(* driver is a sequence of Redis commands, each atomic and each an await,  *)
(* so the commands of several workers interleave.                          *)
(*                                                                         *)
(* `cmd` counts the commands already sent inside the current push, delete  *)
(* or release. INCR and SET of a push are one step: nobody else knows the  *)
(* id before it is listed. Scores are reduced to `due`, what               *)
(* zRangeByScore(0, now) compares; reservedAt, availableAt and the score   *)
(* of the reserved set are left out: no code reads them.                   *)
(***************************************************************************)
EXTENDS FailedJobs, Sequences, SequencesExt

CONSTANT Producers  \* application processes that dispatch jobs

\* Each of them is a process of its own, with its own calls under way.
ASSUME PushersAssumption ==
    /\ Workers \cap Operators = {}
    /\ Workers \cap Producers = {}
    /\ Operators \cap Producers = {}

VARIABLES
    envelopes,  \* the job keys; job = NoJob where the key does not exist
    ready,      \* the list: LPUSH at the head, RPOP at the tail
    delayed,    \* members of the delayed set
    due,        \* those of them whose score is not in the future
    reserved,   \* members of the reserved set
    todo,       \* [Workers -> ids promoteDelayed still has to move]
    cmd,        \* [Workers -> commands sent in the current driver call]
    stored,     \* [Workers \cup Operators \cup Producers -> id it stored but has not listed]
    nextId

keyVars == <<envelopes, ready, delayed, due, reserved, nextId>>
callVars == <<todo, cmd, stored>>
vars == <<procVars, failedVars, keyVars, callVars>>

Pushers == Workers \cup Operators \cup Producers

Envelope == [job : Jobs \cup {NoJob}, attempts : Nat]

NoEnvelope == [job |-> NoJob, attempts |-> 0]

HasEnvelope(i) == envelopes[i].job # NoJob

Init ==
    /\ ProcInit
    /\ FailedInit
    /\ envelopes = [i \in Ids |-> NoEnvelope]
    /\ ready = <<>>
    /\ delayed = {} /\ due = {} /\ reserved = {}
    /\ todo = [w \in Workers |-> {}]
    /\ cmd = [w \in Workers |-> 0]
    /\ stored = [p \in Pushers |-> 0]
    /\ nextId = 1

Popping == {"promoting", "lifting", "loading", "saving", "reserving"}

TypeOK ==
    /\ pc \in [Workers -> {"idle"} \cup Popping \cup Working \cup Down]
    /\ rec \in [Workers -> Record]
    /\ quit \in [Workers -> BOOLEAN]
    /\ accepted \subseteq Jobs /\ done \subseteq Jobs /\ forgotten \subseteq Jobs
    /\ fails \in [Ids -> Nat]
    /\ orphaned \subseteq Ids
    /\ stops \in 0 .. MaxStops /\ faults \in 0 .. MaxFaults
    /\ failed \in [Ids -> Jobs \cup {NoJob}]
    /\ op \in [Operators -> Retry]
    /\ envelopes \in [Ids -> Envelope]
    /\ ready \in Seq(Ids)
    /\ delayed \subseteq Ids /\ due \subseteq delayed /\ reserved \subseteq Ids
    /\ todo \in [Workers -> SUBSET Ids]
    /\ cmd \in [Workers -> 0 .. 3]
    /\ stored \in [Pushers -> Ids \cup {0}]
    /\ nextId \in 1 .. MaxId + 1

----------------------------------------------------------------------------
(* Redis commands *)

SetEnvelope(i, j, attempts) ==
    envelopes' = [envelopes EXCEPT ![i] = [job |-> j, attempts |-> attempts]]

DelEnvelope(i) == envelopes' = [envelopes EXCEPT ![i] = NoEnvelope]

LPush(i) == ready' = <<i>> \o ready

\* A member that is already there gets the new score.
ZAddDelayed(i) == delayed' = delayed \cup {i} /\ due' = due \ {i}

ZRemDelayed(i) == delayed' = delayed \ {i} /\ due' = due \ {i}

\* INCR and SET: the first two commands of a push by process p.
StoreNew(p, j) ==
    /\ nextId <= MaxId
    /\ stored[p] = 0
    /\ SetEnvelope(nextId, j, 0)
    /\ stored' = [stored EXCEPT ![p] = nextId]
    /\ nextId' = nextId + 1

\* The last command of a push: the id becomes visible to the workers.
List(p) ==
    /\ stored[p] # 0
    /\ LPush(stored[p])
    /\ stored' = [stored EXCEPT ![p] = 0]

Sent(w) == cmd' = [cmd EXCEPT ![w] = @ + 1]

CallReturns(w) == cmd' = [cmd EXCEPT ![w] = 0]

----------------------------------------------------------------------------
(* Producers, and the clock *)

DispatchStore(p, j) ==
    /\ j \in Heads \ accepted
    /\ \A q \in Producers : stored[q] # 0 => envelopes[stored[q]].job # j
    /\ StoreNew(p, j)
    /\ UNCHANGED <<procVars, failedVars, ready, delayed, due, reserved, todo, cmd>>

\* push() lists the id as ready.
DispatchReady(p) ==
    /\ List(p)
    /\ accepted' = accepted \cup {envelopes[stored[p]].job}
    /\ UNCHANGED <<pc, rec, quit, done, fails, orphaned, stops, faults,
                   failedVars, envelopes, delayed, due, reserved, nextId, todo, cmd>>

\* later() adds the id to the delayed set instead.
DispatchLater(p) ==
    /\ stored[p] # 0
    /\ ZAddDelayed(stored[p])
    /\ stored' = [stored EXCEPT ![p] = 0]
    /\ accepted' = accepted \cup {envelopes[stored[p]].job}
    /\ UNCHANGED <<pc, rec, quit, done, fails, orphaned, stops, faults,
                   failedVars, envelopes, ready, reserved, nextId, todo, cmd>>

BecomesDue(i) ==
    /\ i \in delayed \ due
    /\ due' = due \cup {i}
    /\ UNCHANGED <<procVars, failedVars, callVars, envelopes, ready, delayed,
                   reserved, nextId>>

----------------------------------------------------------------------------
(* pop() *)

\* promoteDelayed: zRangeByScore.
Scan(w) ==
    /\ pc[w] = "idle" /\ ~quit[w]
    /\ Goto(w, "promoting")
    /\ todo' = [todo EXCEPT ![w] = due]
    /\ UNCHANGED <<rec, quit, accepted, done, fails, orphaned, stops, faults,
                   failedVars, keyVars, cmd, stored>>

\* zRem; whether the member was still there is not looked at.
PromoteRemove(w) ==
    /\ pc[w] = "promoting"
    /\ \E i \in todo[w] :
         /\ ZRemDelayed(i)
         /\ todo' = [todo EXCEPT ![w] = @ \ {i}]
         /\ rec' = [rec EXCEPT ![w].id = i]
    /\ Goto(w, "lifting")
    /\ UNCHANGED <<quit, accepted, done, fails, orphaned, stops, faults,
                   failedVars, envelopes, ready, reserved, nextId, cmd, stored>>

PromotePush(w) ==
    /\ pc[w] = "lifting"
    /\ LPush(rec[w].id)
    /\ Goto(w, "promoting")
    /\ rec' = [rec EXCEPT ![w] = NoRecord]
    /\ UNCHANGED <<quit, accepted, done, fails, orphaned, stops, faults,
                   failedVars, envelopes, delayed, due, reserved, nextId, callVars>>

\* brPop, then rPop: one element of the list, or none and the loop sleeps.
PopReady(w) ==
    /\ pc[w] = "promoting" /\ todo[w] = {}
    /\ \/ /\ ready # <<>>
          /\ ready' = Front(ready)
          /\ rec' = [rec EXCEPT ![w].id = Last(ready)]
          /\ Goto(w, "loading")
       \/ /\ ready = <<>>
          /\ NextJob(w)
          /\ UNCHANGED ready
    /\ UNCHANGED <<quit, accepted, done, fails, orphaned, stops, faults,
                   failedVars, envelopes, delayed, due, reserved, nextId, callVars>>

\* A missing envelope makes pop() return null.
LoadPopped(w) ==
    /\ pc[w] = "loading"
    /\ IF HasEnvelope(rec[w].id)
       THEN /\ rec' = [rec EXCEPT ![w].job = envelopes[rec[w].id].job,
                                  ![w].attempts = envelopes[rec[w].id].attempts]
            /\ Goto(w, "saving")
       ELSE NextJob(w)
    /\ UNCHANGED <<quit, accepted, done, fails, orphaned, stops, faults,
                   failedVars, keyVars, callVars>>

\* The envelope is written back as it was loaded, with reservedAt set.
SavePopped(w) ==
    /\ pc[w] = "saving"
    /\ SetEnvelope(rec[w].id, rec[w].job, rec[w].attempts)
    /\ Goto(w, "reserving")
    /\ UNCHANGED <<rec, quit, accepted, done, fails, orphaned, stops, faults,
                   failedVars, ready, delayed, due, reserved, nextId, callVars>>

Reserve(w) ==
    /\ pc[w] = "reserving"
    /\ reserved' = reserved \cup {rec[w].id}
    /\ Goto(w, "handling")
    /\ UNCHANGED <<rec, quit, accepted, done, fails, orphaned, stops, faults,
                   failedVars, envelopes, ready, delayed, due, nextId, callVars>>

\* A command of pop() rejects: the loop sleeps and polls again. What the
\* call had taken out of the delayed set or the list is not put back.
PopFails(w) ==
    /\ pc[w] \in Popping
    /\ faults < MaxFaults
    /\ faults' = faults + 1
    /\ orphaned' = orphaned \cup InHand(w)
    /\ NextJob(w)
    /\ todo' = [todo EXCEPT ![w] = {}]
    /\ UNCHANGED <<quit, accepted, done, fails, stops, failedVars, keyVars, cmd, stored>>

----------------------------------------------------------------------------
(* The continuer's pushRaw *)

StoreLink(w) ==
    /\ pc[w] = "chaining"
    /\ StoreNew(w, NextLink[rec[w].job])
    /\ UNCHANGED <<procVars, failedVars, ready, delayed, due, reserved, todo, cmd>>

ListLink(w) ==
    /\ pc[w] = "chaining"
    /\ List(w)
    /\ accepted' = accepted \cup {NextLink[rec[w].job]}
    /\ Goto(w, "deleting")
    /\ UNCHANGED <<rec, quit, done, fails, orphaned, stops, faults, failedVars,
                   envelopes, delayed, due, reserved, nextId, todo, cmd>>

----------------------------------------------------------------------------
(* deleteJob(), after success and after failedJobs.record *)

Deleting(w, n) == pc[w] \in {"deleting", "burying"} /\ cmd[w] = n

\* get: without an envelope the call returns at once.
DeleteLoad(w) ==
    /\ Deleting(w, 0)
    /\ IF HasEnvelope(rec[w].id)
       THEN Sent(w) /\ UNCHANGED <<pc, rec>>
       ELSE NextJob(w) /\ UNCHANGED cmd
    /\ UNCHANGED <<quit, accepted, done, fails, orphaned, stops, faults,
                   failedVars, keyVars, todo, stored>>

DeleteKey(w) ==
    /\ Deleting(w, 1)
    /\ DelEnvelope(rec[w].id)
    /\ Sent(w)
    /\ UNCHANGED <<procVars, failedVars, ready, delayed, due, reserved, nextId,
                   todo, stored>>

DeleteReserved(w) ==
    /\ Deleting(w, 2)
    /\ reserved' = reserved \ {rec[w].id}
    /\ Sent(w)
    /\ UNCHANGED <<procVars, failedVars, envelopes, ready, delayed, due, nextId,
                   todo, stored>>

DeleteDelayed(w) ==
    /\ Deleting(w, 3)
    /\ ZRemDelayed(rec[w].id)
    /\ CallReturns(w)
    /\ NextJob(w)
    /\ UNCHANGED <<quit, accepted, done, fails, orphaned, stops, faults,
                   failedVars, envelopes, ready, reserved, nextId, todo, stored>>

\* Mutant: the key is recorded in the place of the payload.
RecordFailedKey(w) ==
    /\ pc[w] = "recording"
    /\ nextId <= MaxId
    /\ InsertFailed(nextId, rec[w].id)
    /\ nextId' = nextId + 1
    /\ Goto(w, "burying")
    /\ UNCHANGED <<rec, quit, accepted, done, fails, orphaned, stops, faults,
                   op, forgotten, envelopes, ready, delayed, due, reserved, callVars>>

RecordFailed(w) ==
    /\ pc[w] = "recording"
    /\ nextId <= MaxId
    /\ InsertFailed(nextId, rec[w].job)
    /\ nextId' = nextId + 1
    /\ Goto(w, "burying")
    /\ UNCHANGED <<rec, quit, accepted, done, fails, orphaned, stops, faults,
                   op, forgotten, envelopes, ready, delayed, due, reserved, callVars>>

----------------------------------------------------------------------------
(* release() *)

Releasing(w, n) == pc[w] = "releasing" /\ cmd[w] = n

ReleaseLoad(w) ==
    /\ Releasing(w, 0)
    /\ IF HasEnvelope(rec[w].id)
       THEN /\ rec' = [rec EXCEPT ![w].attempts = envelopes[rec[w].id].attempts]
            /\ Sent(w)
            /\ UNCHANGED pc
       ELSE NextJob(w) /\ UNCHANGED cmd
    /\ UNCHANGED <<quit, accepted, done, fails, orphaned, stops, faults,
                   failedVars, keyVars, todo, stored>>

ReleaseSave(w) ==
    /\ Releasing(w, 1)
    /\ SetEnvelope(rec[w].id, rec[w].job, rec[w].attempts + 1)
    /\ Sent(w)
    /\ UNCHANGED <<procVars, failedVars, ready, delayed, due, reserved, nextId,
                   todo, stored>>

ReleaseReserved(w) ==
    /\ Releasing(w, 2)
    /\ reserved' = reserved \ {rec[w].id}
    /\ Sent(w)
    /\ UNCHANGED <<procVars, failedVars, envelopes, ready, delayed, due, nextId,
                   todo, stored>>

\* Mutant: release() ends after the zRem.
ReleaseForgets(w) ==
    /\ Releasing(w, 3)
    /\ CallReturns(w)
    /\ NextJob(w)
    /\ UNCHANGED <<quit, accepted, done, fails, orphaned, stops, faults,
                   failedVars, keyVars, todo, stored>>

ReleaseDelay(w) ==
    /\ Releasing(w, 3)
    /\ ZAddDelayed(rec[w].id)
    /\ CallReturns(w)
    /\ NextJob(w)
    /\ UNCHANGED <<quit, accepted, done, fails, orphaned, stops, faults,
                   failedVars, envelopes, ready, reserved, nextId, todo, stored>>

----------------------------------------------------------------------------
LoopStep(w) ==
    /\ HandleSucceeds(w) \/ HandleFails(w) \/ Exit(w)
    /\ UNCHANGED <<failedVars, keyVars, callVars>>

\* A command of the chain push or of deleteJob rejects.
CallFails(w) ==
    /\ StepFails(w)
    /\ CallReturns(w)
    /\ stored' = [stored EXCEPT ![w] = 0]
    /\ UNCHANGED <<failedVars, keyVars, todo>>

Kill(w) ==
    /\ Crash(w, InHand(w))
    /\ todo' = [todo EXCEPT ![w] = {}]
    /\ CallReturns(w)
    /\ stored' = [stored EXCEPT ![w] = 0]
    /\ UNCHANGED <<failedVars, keyVars>>

Disturb(w) ==
    \/ Kill(w)
    \/ (Shutdown(w) \/ Restart(w)) /\ UNCHANGED <<failedVars, keyVars, callVars>>

WorkerStep(w) ==
    \/ Scan(w) \/ PromoteRemove(w) \/ PromotePush(w) \/ PopReady(w)
    \/ LoadPopped(w) \/ SavePopped(w) \/ Reserve(w) \/ PopFails(w)
    \/ LoopStep(w) \/ CallFails(w)
    \/ StoreLink(w) \/ ListLink(w)
    \/ DeleteLoad(w) \/ DeleteKey(w) \/ DeleteReserved(w) \/ DeleteDelayed(w)
    \/ RecordFailed(w)
    \/ ReleaseLoad(w) \/ ReleaseSave(w) \/ ReleaseReserved(w) \/ ReleaseDelay(w)

\* queue:retry: the two steps of its pushRaw.
RetryStore(o) ==
    /\ op[o].step = "found"
    /\ StoreNew(o, op[o].job)
    /\ UNCHANGED <<procVars, failedVars, ready, delayed, due, reserved, todo, cmd>>

RetryList(o) ==
    /\ RetryPushed(o)
    /\ List(o)
    /\ UNCHANGED <<procVars, envelopes, delayed, due, reserved, nextId, todo, cmd>>

\* A killed command may leave an envelope that is in no list.
RetryStops(o) ==
    /\ RetryKilled(o)
    /\ stored' = [stored EXCEPT ![o] = 0]
    /\ UNCHANGED <<procVars, keyVars, todo, cmd>>

OperatorStep(o) ==
    \/ RetryStore(o) \/ RetryList(o) \/ RetryStops(o)
    \/ (RetryFind(o) \/ RetryDelete(o)) /\ UNCHANGED <<procVars, keyVars, callVars>>

ForgetFailed(i) == Forget(i) /\ UNCHANGED <<procVars, keyVars, callVars>>

Produce(p) ==
    \/ \E j \in Jobs : DispatchStore(p, j)
    \/ DispatchReady(p)
    \/ DispatchLater(p)

Next ==
    \/ \E p \in Producers : Produce(p)
    \/ \E i \in Ids : BecomesDue(i) \/ ForgetFailed(i)
    \/ \E w \in Workers : WorkerStep(w) \/ Disturb(w)
    \/ \E o \in Operators : OperatorStep(o)

Spec == Init /\ [][Next]_vars

Fairness ==
    /\ \A w \in Workers : WF_vars(WorkerStep(w))
    /\ \A i \in Ids : WF_vars(BecomesDue(i))

FairSpec == Spec /\ Fairness

----------------------------------------------------------------------------
(* What the driver and the loop guarantee *)

Holds(i, j) == envelopes[i].job = j \/ failed[i] = j

\* The id is where a worker will find it, or in the hands of a process.
Reachable(i) ==
    \/ \E n \in DOMAIN ready : ready[n] = i
    \/ i \in delayed
    \/ \E w \in Workers : rec[w].id = i
    \/ \E p \in Pushers : stored[p] = i

(***************************************************************************)
(* No job is stranded. A job that still has to run is in failed_jobs, or   *)
(* one of its ids is in the ready list, in the delayed set or in the hands *)
(* of a process, or a kill or a rejected command took the id out of them.  *)
(* Two workers that promoted the same delayed id, a stale envelope written *)
(* over a newer one, a delete that overlaps a release: none of them loses  *)
(* the job.                                                                *)
(***************************************************************************)
NoJobStranded ==
    \A j \in accepted :
        \/ Settled(j)
        \/ \E i \in Ids : failed[i] = j
        \/ \E i \in Ids : envelopes[i].job = j /\ (Reachable(i) \/ i \in orphaned)

(***************************************************************************)
(* The queue drains: while some worker stays up, every accepted job is     *)
(* eventually run (and its successor queued), recorded in failed_jobs, or  *)
(* the job of an id that a kill or a rejected command took away.           *)
(***************************************************************************)
Resolved(j) ==
    \/ Settled(j)
    \/ \E i \in Ids : failed[i] = j \/ (i \in orphaned /\ envelopes[i].job = j)

Drains ==
    (\E w \in Workers : StaysUp(w)) =>
        \A j \in Jobs : j \in accepted ~> Resolved(j)

(***************************************************************************)
(* README.md: "Jobs that exhaust retries are written to failed_jobs": an   *)
(* entry that failed MaxAttempts times is eventually recorded, or succeeds *)
(* after all. Two workers refute it: one writes the envelope it loaded     *)
(* before the other's release over the incremented attempts, every time.   *)
(***************************************************************************)
ExhaustedIsRecorded ==
    \A i \in Ids : fails[i] >= MaxAttempts ~>
        \E j \in Jobs : j \in done \/ \E k \in Ids : failed[k] = j

(***************************************************************************)
(* The driver, the loop and the retry command implement JobDelivery, with  *)
(* the envelopes and the failed records as the record of a job.            *)
(***************************************************************************)
OnRecord == {j \in Jobs : \E i \in Ids : Holds(i, j)}

Promise == INSTANCE JobDelivery WITH onRecord <- OnRecord

Delivers == Promise!Spec

=============================================================================
