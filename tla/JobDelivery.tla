---------------------------- MODULE JobDelivery -----------------------------
(***************************************************************************)
(* What a persistent queue driver promises an application, whatever it     *)
(* stores: a job it accepted stays on record until it has run and the next *)
(* link of its chain is on record too, or until an operator discards it;   *)
(* it may run more than once. DatabaseQueue and RedisQueue implement this  *)
(* specification.                                                          *)
(***************************************************************************)
CONSTANTS Jobs, NoJob, NextLink

VARIABLES
    onRecord,  \* jobs of which the queue or failed_jobs keeps a record
    accepted,  \* jobs whose push has returned
    done,      \* jobs whose handler has returned
    forgotten  \* jobs an operator discarded

vars == <<onRecord, accepted, done, forgotten>>

Init ==
    /\ onRecord = {} /\ accepted = {} /\ done = {} /\ forgotten = {}

\* A link may enter only after the job before it has run.
MayEnter(j) == \A k \in Jobs : NextLink[k] = j => k \in done

Enter(j) ==
    /\ MayEnter(j)
    /\ onRecord' = onRecord \cup {j}
    /\ accepted' \in {accepted, accepted \cup {j}}
    /\ UNCHANGED <<done, forgotten>>

\* The push returns after the record was stored.
Acknowledge(j) ==
    /\ MayEnter(j)
    /\ j \in onRecord \/ j \in done \/ j \in forgotten
    /\ accepted' = accepted \cup {j}
    /\ UNCHANGED <<onRecord, done, forgotten>>

Run(j) ==
    /\ j \in accepted
    /\ done' = done \cup {j}
    /\ UNCHANGED <<onRecord, accepted, forgotten>>

Finished(j) == j \in done /\ (NextLink[j] # NoJob => NextLink[j] \in accepted)

Leave(j) ==
    /\ j \in forgotten \/ Finished(j)
    /\ onRecord' = onRecord \ {j}
    /\ UNCHANGED <<accepted, done, forgotten>>

\* Other records of the job may remain.
Discard(j) ==
    /\ j \in onRecord
    /\ forgotten' = forgotten \cup {j}
    /\ onRecord' \in {onRecord, onRecord \ {j}}
    /\ UNCHANGED <<accepted, done>>

Next ==
    \E j \in Jobs : Enter(j) \/ Acknowledge(j) \/ Run(j) \/ Leave(j) \/ Discard(j)

Spec == Init /\ [][Next]_vars

=============================================================================
