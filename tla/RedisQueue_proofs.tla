------------------------- MODULE RedisQueue_proofs --------------------------
(***************************************************************************)
(* What RedisQueue guarantees for every set of jobs, chain, number of      *)
(* workers, operators and producers, and every bound: types, who may name  *)
(* a key, that no job is stranded, how often a job fails before it is      *)
(* recorded, that the driver implements JobDelivery, and that one worker   *)
(* alone never runs a job too often.                                       *)
(***************************************************************************)
EXTENDS RedisQueue, FiniteSetTheorems, SequenceTheorems, TLAPS

USE JobsAssumption, BoundsAssumption, PushersAssumption

\* A worker between LoadPopped and the end of its try/catch knows the job.
Named   == {"saving", "reserving"} \cup Working
Holding == {"lifting", "loading"} \cup Named

\* What a worker has in hand at each point of its loop.
HandOK(w) ==
    /\ pc[w] \in Holding => rec[w].id \in Ids
    /\ pc[w] \in Named => rec[w].job \in Jobs
    /\ pc[w] \notin Holding => rec[w] = NoRecord
    /\ pc[w] = "chaining" => HasNext(rec[w].job)

HandsOK == \A w \in Workers : HandOK(w)

Typed == TypeOK /\ HandsOK

\* A producer has stored a job that nothing comes before.
StoredJobs == \A p \in Producers : stored[p] # 0 => envelopes[stored[p]].job \in Heads

----------------------------------------------------------------------------
(* The ready list as the set of its elements *)

InReady(i) == \E n \in DOMAIN ready : ready[n] = i

LEMMA PushReady ==
    ASSUME ready \in Seq(Ids), NEW i \in Ids, LPush(i)
    PROVE  /\ ready' \in Seq(Ids)
           /\ \A k : InReady(k)' <=> k = i \/ InReady(k)
<1>1. /\ <<i>> \in Seq(Ids) /\ Len(<<i>>) = 1 /\ <<i>>[1] = i
  OBVIOUS
<1>2. /\ ready' \in Seq(Ids) /\ Len(ready') = 1 + Len(ready)
      /\ \A n \in 1 .. 1 + Len(ready) : ready'[n] = IF n <= 1 THEN <<i>>[n] ELSE ready[n - 1]
  BY <1>1, ConcatProperties DEF LPush
<1>3. DOMAIN ready' = 1 .. 1 + Len(ready) /\ DOMAIN ready = 1 .. Len(ready) /\ Len(ready) \in Nat
  BY <1>2
<1>4. ready'[1] = i /\ \A n \in 1 .. Len(ready) : ready'[n + 1] = ready[n]
  BY <1>1, <1>2, <1>3
<1>5. ASSUME NEW k, InReady(k)' PROVE k = i \/ InReady(k)
  <2>1. PICK n \in 1 .. 1 + Len(ready) : ready'[n] = k
    BY <1>3, <1>5 DEF InReady
  <2>2. n # 1 => n - 1 \in 1 .. Len(ready) /\ ready'[n] = ready[n - 1]
    BY <1>2, <1>3
  <2> QED BY <1>3, <1>4, <2>1, <2>2 DEF InReady
<1>6. ASSUME NEW k, k = i \/ InReady(k) PROVE InReady(k)'
  <2>1. CASE k = i
    <3>1. 1 \in 1 .. 1 + Len(ready)
      BY <1>3
    <3> QED BY <1>3, <1>4, <2>1, <3>1 DEF InReady
  <2>2. ASSUME NEW n \in 1 .. Len(ready), ready[n] = k PROVE InReady(k)'
    <3>1. n + 1 \in 1 .. 1 + Len(ready) /\ ready'[n + 1] = k
      BY <1>3, <1>4, <2>2
    <3> QED BY <1>3, <3>1 DEF InReady
  <2> QED BY <1>3, <1>6, <2>1, <2>2 DEF InReady
<1> QED BY <1>2, <1>5, <1>6

LEMMA PopReadyTail ==
    ASSUME ready \in Seq(Ids), ready # <<>>, ready' = Front(ready)
    PROVE  /\ ready' \in Seq(Ids)
           /\ Last(ready) \in Ids /\ InReady(Last(ready))
           /\ \A k : InReady(k)' => InReady(k)
           /\ \A k : InReady(k) => k = Last(ready) \/ InReady(k)'
<1> DEFINE n == Len(ready)
<1>1. n \in Nat /\ n > 0 /\ DOMAIN ready = 1 .. n /\ \A m \in 1 .. n : ready[m] \in Ids
  OBVIOUS
<1>2. /\ ready' \in Seq(Ids) /\ Len(ready') = n - 1
      /\ \A m \in 1 .. n - 1 : ready'[m] = ready[m]
  <2>1. 1 \in Int /\ n - 1 \in Int /\ \A m \in 1 .. n - 1 : ready[m] \in Ids
    BY <1>1
  <2>2. /\ SubSeq(ready, 1, n - 1) \in Seq(Ids)
        /\ Len(SubSeq(ready, 1, n - 1)) = IF 1 <= n - 1 THEN (n - 1) - 1 + 1 ELSE 0
        /\ \A m \in 1 .. (n - 1) - 1 + 1 : SubSeq(ready, 1, n - 1)[m] = ready[1 + m - 1]
    BY <2>1, SubSeqProperties
  <2> QED BY <1>1, <2>2 DEF Front
<1>3. DOMAIN ready' = 1 .. n - 1
  BY <1>1, <1>2
<1> HIDE DEF n
<1>4. Last(ready) = ready[n]
  BY DEF Last, n
<1> QED BY <1>1, <1>2, <1>3, <1>4 DEF InReady

----------------------------------------------------------------------------
(* Types *)

LEMMA InitTyped == Init => Typed
<1> SUFFICES ASSUME Init PROVE Typed
  OBVIOUS
<1>1. /\ NoRecord \in Record /\ NoRetry \in Retry /\ NoEnvelope \in Envelope
      /\ <<>> \in Seq(Ids) /\ 1 \in 1 .. MaxId + 1
  BY DEF NoRecord, Record, NoRetry, Retry, NoEnvelope, Envelope, Ids
<1>2. TypeOK
  BY <1>1 DEF Init, ProcInit, FailedInit, TypeOK
<1>3. HandsOK
  BY DEF Init, ProcInit, HandsOK, HandOK, Holding, Named, Working, Failed
<1> QED BY <1>2, <1>3 DEF Typed

\* The envelopes stay envelopes under each of the commands that write them.
LEMMA EnvelopeTyped ==
    ASSUME envelopes \in [Ids -> Envelope], NEW i \in Ids,
           \/ DelEnvelope(i)
           \/ \E j \in Jobs \cup {NoJob}, n \in Nat : SetEnvelope(i, j, n)
    PROVE  envelopes' \in [Ids -> Envelope]
<1>1. NoEnvelope \in Envelope
  BY DEF NoEnvelope, Envelope
<1>2. \A j \in Jobs \cup {NoJob}, n \in Nat : [job |-> j, attempts |-> n] \in Envelope
  BY DEF Envelope
<1> QED BY <1>1, <1>2 DEF DelEnvelope, SetEnvelope

LEMMA StoreTyped ==
    ASSUME Typed, NEW p \in Pushers, NEW j \in Jobs \cup {NoJob}, StoreNew(p, j)
    PROVE  /\ envelopes' \in [Ids -> Envelope] /\ stored' \in [Pushers -> Ids \cup {0}]
           /\ nextId \in Ids /\ nextId' = nextId + 1 /\ nextId' \in 1 .. MaxId + 1
           /\ stored[p] = 0 /\ stored' = [stored EXCEPT ![p] = nextId]
           /\ envelopes'[nextId].job = j /\ envelopes'[nextId].attempts = 0
           /\ \A i \in Ids \ {nextId} : envelopes'[i] = envelopes[i]
<1>1. nextId \in Ids /\ nextId' = nextId + 1 /\ nextId' \in 1 .. MaxId + 1
  BY DEF StoreNew, Typed, TypeOK, Ids
<1>2. envelopes' = [envelopes EXCEPT ![nextId] = [job |-> j, attempts |-> 0]]
  BY DEF StoreNew, SetEnvelope
<1>3. envelopes' \in [Ids -> Envelope]
  BY <1>1, EnvelopeTyped DEF StoreNew, Typed, TypeOK
<1> QED BY <1>1, <1>2, <1>3 DEF StoreNew, Typed, TypeOK

LEMMA ListTyped ==
    ASSUME Typed, NEW p \in Pushers, List(p)
    PROVE  /\ ready' \in Seq(Ids) /\ stored' \in [Pushers -> Ids \cup {0}]
           /\ stored[p] \in Ids
           /\ stored' = [stored EXCEPT ![p] = 0]
           /\ \A k : InReady(k)' <=> k = stored[p] \/ InReady(k)
BY PushReady DEF List, Typed, TypeOK

\* A step of worker w: where its loop goes, what it then has in hand.
LEMMA HandsTyped ==
    ASSUME Typed, NEW w \in Workers, NEW r \in Record,
           NEW l \in {"idle"} \cup Popping \cup Working \cup Down,
           pc' = [pc EXCEPT ![w] = l], rec' = [rec EXCEPT ![w] = r],
           l \in Holding => r.id \in Ids,
           l \in Named => r.job \in Jobs,
           l \notin Holding => r = NoRecord,
           l = "chaining" => HasNext(r.job)
    PROVE  /\ pc' \in [Workers -> {"idle"} \cup Popping \cup Working \cup Down]
           /\ rec' \in [Workers -> Record]
           /\ HandsOK'
<1>1. /\ pc'[w] = l /\ rec'[w] = r
      /\ \A x \in Workers \ {w} : pc'[x] = pc[x] /\ rec'[x] = rec[x]
  BY DEF Typed, TypeOK
<1>2. HandOK(w)'
  BY <1>1 DEF HandOK, HasNext
<1>3. \A x \in Workers \ {w} : HandOK(x)'
  BY <1>1 DEF HandOK, HandsOK, Typed, HasNext
<1> QED BY <1>2, <1>3 DEF HandsOK, Typed, TypeOK

\* What the types say of one worker.
LEMMA HandFacts ==
    ASSUME Typed, NEW w \in Workers
    PROVE  /\ pc[w] \in {"idle"} \cup Popping \cup Working \cup Down
           /\ rec[w] \in Record /\ rec[w].id \in Ids \cup {0}
           /\ rec[w].job \in Jobs \cup {NoJob} /\ rec[w].attempts \in Nat
           /\ rec[w] = [id |-> rec[w].id, job |-> rec[w].job, attempts |-> rec[w].attempts]
           /\ [rec EXCEPT ![w] = rec[w]] = rec /\ [pc EXCEPT ![w] = pc[w]] = pc
           /\ HandOK(w) /\ NoRecord \in Record /\ cmd[w] \in 0 .. 3
BY DEF Typed, TypeOK, HandsOK, Record, NoRecord

LEMMA ReturnsTyped ==
    ASSUME Typed, NEW w \in Workers
    PROVE  /\ CallReturns(w) => cmd' \in [Workers -> 0 .. 3]
           /\ Sent(w) /\ cmd[w] < 3 => cmd' \in [Workers -> 0 .. 3]
           /\ [stored EXCEPT ![w] = 0] \in [Pushers -> Ids \cup {0}]
<1>1. cmd \in [Workers -> 0 .. 3] /\ stored \in [Pushers -> Ids \cup {0}]
  BY DEF Typed, TypeOK
<1>2. CallReturns(w) => cmd' \in [Workers -> 0 .. 3]
  BY <1>1 DEF CallReturns
<1>3. ASSUME Sent(w), cmd[w] < 3 PROVE cmd' \in [Workers -> 0 .. 3]
  <2>1. cmd[w] + 1 \in 0 .. 3
    BY <1>1, <1>3
  <2> QED BY <1>1, <1>3, <2>1 DEF Sent
<1>4. [stored EXCEPT ![w] = 0] \in [Pushers -> Ids \cup {0}]
  BY <1>1
<1> QED BY <1>2, <1>3, <1>4

LEMMA LoopTyped ==
    ASSUME Typed, NEW w \in Workers, LoopStep(w) \/ Disturb(w) \/ CallFails(w) \/ PopFails(w)
    PROVE  Typed'
<1> USE DEF Named, Holding, Popping, Working, Failed, Down
<1>0. /\ pc[w] \in {"idle"} \cup Popping \cup Working \cup Down
      /\ rec[w] \in Record /\ rec[w].id \in Ids \cup {0} /\ HandOK(w) /\ NoRecord \in Record
      /\ [rec EXCEPT ![w] = rec[w]] = rec /\ [pc EXCEPT ![w] = pc[w]] = pc
  BY HandFacts
<1>1. CASE HandleSucceeds(w) /\ UNCHANGED <<failedVars, keyVars, callVars>>
  <2>1. PICK l \in {"chaining", "deleting"} :
          pc' = [pc EXCEPT ![w] = l] /\ (l = "chaining" => HasNext(rec[w].job))
    BY <1>1 DEF HandleSucceeds, Goto
  <2>2. rec' = [rec EXCEPT ![w] = rec[w]] /\ rec[w].id \in Ids /\ rec[w].job \in Jobs
    BY <1>0, <1>1 DEF HandleSucceeds, HandOK
  <2>3. pc' \in [Workers -> {"idle"} \cup Popping \cup Working \cup Down] /\ rec' \in [Workers -> Record] /\ HandsOK'
    BY <1>0, <2>1, <2>2, HandsTyped
  <2>4. done' \subseteq Jobs
    BY <1>1, <2>2 DEF HandleSucceeds, Typed, TypeOK
  <2> QED BY <1>1, <2>3, <2>4 DEF HandleSucceeds, Typed, TypeOK, failedVars, keyVars, callVars
<1>2. ASSUME Catch(w), pc[w] \in Working \ Failed, rec' = rec
      PROVE  /\ fails' \in [Ids -> Nat]
             /\ pc' \in [Workers -> {"idle"} \cup Popping \cup Working \cup Down]
             /\ rec' \in [Workers -> Record] /\ HandsOK'
  <2>1. PICK l \in {"recording", "releasing"} : pc' = [pc EXCEPT ![w] = l]
    BY <1>2 DEF Catch, Goto
  <2>2. rec' = [rec EXCEPT ![w] = rec[w]] /\ rec[w].id \in Ids /\ rec[w].job \in Jobs
    BY <1>0, <1>2 DEF HandOK
  <2>3. pc' \in [Workers -> {"idle"} \cup Popping \cup Working \cup Down] /\ rec' \in [Workers -> Record] /\ HandsOK'
    BY <1>0, <2>1, <2>2, HandsTyped
  <2>4. fails[rec[w].id] \in Nat
    BY <2>2 DEF Typed, TypeOK
  <2>5. fails' \in [Ids -> Nat]
    BY <1>2, <2>2, <2>4 DEF Catch, Typed, TypeOK
  <2> QED BY <2>3, <2>5
<1>3. CASE HandleFails(w) /\ UNCHANGED <<failedVars, keyVars, callVars>>
  <2>1. Catch(w) /\ pc[w] \in Working \ Failed /\ rec' = rec
    BY <1>3 DEF HandleFails
  <2> QED BY <1>2, <1>3, <2>1 DEF HandleFails, Typed, TypeOK, failedVars, keyVars, callVars
<1>4. CASE CallFails(w)
  <2>1. Catch(w) /\ pc[w] \in Working \ Failed /\ rec' = rec
    BY <1>4 DEF CallFails, StepFails
  <2>2. cmd' \in [Workers -> 0 .. 3] /\ stored' \in [Pushers -> Ids \cup {0}]
    BY <1>4, ReturnsTyped DEF CallFails, Typed, TypeOK
  <2>3. faults' \in 0 .. MaxFaults
    BY <1>4 DEF CallFails, StepFails, Typed, TypeOK
  <2> QED
    BY <1>2, <1>4, <2>1, <2>2, <2>3 DEF CallFails, StepFails, Typed, TypeOK, failedVars, keyVars
<1>5. CASE PopFails(w) \/ Kill(w)
  <2>1. PICK l \in {"idle", "crashed"} : pc' = [pc EXCEPT ![w] = l]
    BY <1>5 DEF PopFails, Kill, Crash, NextJob, Goto
  <2>2. rec' = [rec EXCEPT ![w] = NoRecord]
    BY <1>5 DEF PopFails, Kill, Crash, NextJob
  <2>3. pc' \in [Workers -> {"idle"} \cup Popping \cup Working \cup Down] /\ rec' \in [Workers -> Record] /\ HandsOK'
    BY <1>0, <2>1, <2>2, HandsTyped
  <2>4. /\ cmd' \in [Workers -> 0 .. 3] /\ stored' \in [Pushers -> Ids \cup {0}]
        /\ todo' \in [Workers -> SUBSET Ids]
    <3>1. CASE PopFails(w)
      BY <3>1 DEF PopFails, Typed, TypeOK
    <3>2. CASE Kill(w)
      BY <3>2, ReturnsTyped DEF Kill, Typed, TypeOK
    <3> QED BY <1>5, <3>1, <3>2
  <2>5. orphaned' \subseteq Ids
    BY <1>0, <1>5 DEF PopFails, Kill, Crash, InHand, Typed, TypeOK
  <2>6. faults' \in 0 .. MaxFaults /\ stops' \in 0 .. MaxStops
    BY <1>5 DEF PopFails, Kill, Crash, Typed, TypeOK
  <2> QED
    BY <1>5, <2>3, <2>4, <2>5, <2>6 DEF PopFails, Kill, Crash, Typed, TypeOK, failedVars, keyVars
<1>6. CASE Shutdown(w) /\ UNCHANGED <<failedVars, keyVars, callVars>>
  <2>1. stops' \in 0 .. MaxStops /\ quit' \in [Workers -> BOOLEAN]
    BY <1>6 DEF Shutdown, Typed, TypeOK
  <2> QED
    BY <1>6, <2>1 DEF Shutdown, Typed, TypeOK, HandsOK, HandOK, HasNext, failedVars, keyVars, callVars
<1>7. CASE (Exit(w) \/ Restart(w)) /\ UNCHANGED <<failedVars, keyVars, callVars>>
  <2>1. PICK l \in {"stopped", "idle"} : pc' = [pc EXCEPT ![w] = l]
    BY <1>7 DEF Exit, Restart, Goto
  <2>2. rec' = [rec EXCEPT ![w] = rec[w]] /\ rec[w] = NoRecord
    BY <1>0, <1>7 DEF Exit, Restart, HandOK
  <2>3. pc' \in [Workers -> {"idle"} \cup Popping \cup Working \cup Down] /\ rec' \in [Workers -> Record] /\ HandsOK'
    BY <1>0, <2>1, <2>2, HandsTyped
  <2>4. quit' \in [Workers -> BOOLEAN]
    BY <1>7 DEF Exit, Restart, Typed, TypeOK
  <2> QED BY <1>7, <2>3, <2>4 DEF Exit, Restart, Typed, TypeOK, failedVars, keyVars, callVars
<1> QED BY <1>1, <1>3, <1>4, <1>5, <1>6, <1>7 DEF LoopStep, Disturb

LEMMA PopTyped ==
    ASSUME Typed, NEW w \in Workers,
           \/ Scan(w) \/ PromoteRemove(w) \/ PromotePush(w) \/ PopReady(w)
           \/ LoadPopped(w) \/ SavePopped(w) \/ Reserve(w)
    PROVE  Typed'
<1> USE DEF Named, Holding, Popping, Working, Failed, Down
<1> DEFINE HandsGood == /\ pc' \in [Workers -> {"idle"} \cup Popping \cup Working \cup Down]
                        /\ rec' \in [Workers -> Record] /\ HandsOK'
<1>0. /\ pc[w] \in {"idle"} \cup Popping \cup Working \cup Down
      /\ rec[w] \in Record /\ HandOK(w) /\ NoRecord \in Record
      /\ rec[w] = [id |-> rec[w].id, job |-> rec[w].job, attempts |-> rec[w].attempts]
      /\ [rec EXCEPT ![w] = rec[w]] = rec
  BY HandFacts
<1>1. CASE Scan(w)
  <2>1. HandsGood
    BY <1>0, <1>1, HandsTyped DEF Scan, Goto, HandOK
  <2>2. todo' \in [Workers -> SUBSET Ids]
    BY <1>1 DEF Scan, Typed, TypeOK
  <2> QED BY <1>1, <2>1, <2>2 DEF Scan, Typed, TypeOK, failedVars, keyVars
<1>2. CASE PromoteRemove(w)
  <2>1. PICK i \in todo[w] : /\ ZRemDelayed(i)
                             /\ todo' = [todo EXCEPT ![w] = @ \ {i}]
                             /\ rec' = [rec EXCEPT ![w].id = i]
    BY <1>2 DEF PromoteRemove
  <2>2. i \in Ids
    BY <2>1 DEF Typed, TypeOK
  <2>3. [rec[w] EXCEPT !.id = i] \in Record
    BY <1>0, <2>2 DEF Record
  <2>4. rec' = [rec EXCEPT ![w] = [rec[w] EXCEPT !.id = i]] /\ [rec[w] EXCEPT !.id = i].id = i
    BY <1>0, <2>1 DEF Record
  <2>5. HandsGood
    BY <1>2, <2>2, <2>3, <2>4, HandsTyped DEF PromoteRemove, Goto
  <2>6. todo' \in [Workers -> SUBSET Ids] /\ delayed' \subseteq Ids /\ due' \subseteq delayed'
    BY <2>1 DEF ZRemDelayed, Typed, TypeOK
  <2> QED BY <1>2, <2>5, <2>6 DEF PromoteRemove, Typed, TypeOK, failedVars
<1>3. CASE PromotePush(w)
  <2>1. HandsGood
    BY <1>0, <1>3, HandsTyped DEF PromotePush, Goto
  <2>2. ready' \in Seq(Ids)
    BY <1>0, <1>3, PushReady DEF PromotePush, HandOK, Typed, TypeOK
  <2> QED BY <1>3, <2>1, <2>2 DEF PromotePush, Typed, TypeOK, failedVars, callVars
<1>4. CASE PopReady(w) /\ ready # <<>>
  <2>1. /\ ready' = Front(ready) /\ rec' = [rec EXCEPT ![w].id = Last(ready)]
        /\ pc' = [pc EXCEPT ![w] = "loading"]
    BY <1>4 DEF PopReady, Goto
  <2>2. ready' \in Seq(Ids) /\ Last(ready) \in Ids
    BY <1>4, <2>1, PopReadyTail DEF Typed, TypeOK
  <2>3. [rec[w] EXCEPT !.id = Last(ready)] \in Record
    BY <1>0, <2>2 DEF Record
  <2>4. /\ rec' = [rec EXCEPT ![w] = [rec[w] EXCEPT !.id = Last(ready)]]
        /\ [rec[w] EXCEPT !.id = Last(ready)].id = Last(ready)
    BY <1>0, <2>1 DEF Record
  <2>5. HandsGood
    BY <2>1, <2>2, <2>3, <2>4, HandsTyped
  <2> QED BY <1>4, <2>2, <2>5 DEF PopReady, Typed, TypeOK, failedVars, callVars
<1>5. CASE PopReady(w) /\ ready = <<>>
  <2>1. HandsGood
    BY <1>0, <1>5, HandsTyped DEF PopReady, NextJob, Goto
  <2> QED BY <1>5, <2>1 DEF PopReady, Typed, TypeOK, failedVars, callVars
<1>6. CASE LoadPopped(w) /\ HasEnvelope(rec[w].id)
  <2>0. rec[w].id \in Ids
    BY <1>0, <1>6 DEF LoadPopped, HandOK
  <2>1. envelopes[rec[w].id].job \in Jobs /\ envelopes[rec[w].id].attempts \in Nat
    BY <1>6, <2>0 DEF HasEnvelope, Typed, TypeOK, Envelope
  <2> DEFINE r == [id |-> rec[w].id, job |-> envelopes[rec[w].id].job,
                   attempts |-> envelopes[rec[w].id].attempts]
  <2>2. rec' = [rec EXCEPT ![w] = r] /\ r \in Record
    <3>1. rec' = [rec EXCEPT ![w].job = envelopes[rec[w].id].job,
                             ![w].attempts = envelopes[rec[w].id].attempts]
      BY <1>6 DEF LoadPopped
    <3>2. r \in Record
      BY <2>0, <2>1 DEF Record
    <3>3. rec'[w] = r
      BY <1>0, <3>1 DEF Typed, TypeOK, Record
    <3> HIDE DEF r
    <3> QED BY <3>1, <3>2, <3>3 DEF Typed, TypeOK
  <2>3. HandsGood
    <3>1. pc' = [pc EXCEPT ![w] = "saving"] /\ r.id = rec[w].id /\ r.job = envelopes[rec[w].id].job
      BY <1>6 DEF LoadPopped, Goto
    <3> HIDE DEF r
    <3> QED BY <2>0, <2>1, <2>2, <3>1, HandsTyped
  <2> QED BY <1>6, <2>3 DEF LoadPopped, Typed, TypeOK, failedVars, keyVars, callVars
<1>7. CASE LoadPopped(w) /\ ~HasEnvelope(rec[w].id)
  <2>1. HandsGood
    BY <1>0, <1>7, HandsTyped DEF LoadPopped, NextJob, Goto
  <2> QED BY <1>7, <2>1 DEF LoadPopped, Typed, TypeOK, failedVars, keyVars, callVars
<1>8. CASE SavePopped(w)
  <2>1. HandsGood
    BY <1>0, <1>8, HandsTyped DEF SavePopped, Goto, HandOK
  <2>2. rec[w].id \in Ids /\ rec[w].job \in Jobs /\ rec[w].attempts \in Nat
    BY <1>0, <1>8 DEF SavePopped, HandOK, Record
  <2>3. envelopes' \in [Ids -> Envelope]
    BY <1>8, <2>2, EnvelopeTyped DEF SavePopped, Typed, TypeOK
  <2> QED BY <1>8, <2>1, <2>3 DEF SavePopped, Typed, TypeOK, failedVars, callVars
<1>9. CASE Reserve(w)
  <2>1. HandsGood
    BY <1>0, <1>9, HandsTyped DEF Reserve, Goto, HandOK
  <2>2. reserved' \subseteq Ids
    BY <1>0, <1>9 DEF Reserve, HandOK, Typed, TypeOK
  <2> QED BY <1>9, <2>1, <2>2 DEF Reserve, Typed, TypeOK, failedVars, callVars
<1> QED BY <1>1, <1>2, <1>3, <1>4, <1>5, <1>6, <1>7, <1>8, <1>9

LEMMA CallTyped ==
    ASSUME Typed, NEW w \in Workers,
           \/ StoreLink(w) \/ ListLink(w) \/ RecordFailed(w)
           \/ DeleteLoad(w) \/ DeleteKey(w) \/ DeleteReserved(w) \/ DeleteDelayed(w)
           \/ ReleaseLoad(w) \/ ReleaseSave(w) \/ ReleaseReserved(w) \/ ReleaseDelay(w)
    PROVE  Typed'
<1> USE DEF Named, Holding, Popping, Working, Failed, Down
<1> DEFINE HandsGood == /\ pc' \in [Workers -> {"idle"} \cup Popping \cup Working \cup Down]
                        /\ rec' \in [Workers -> Record] /\ HandsOK'
<1>0. /\ pc[w] \in Working
      /\ rec[w] \in Record /\ HandOK(w) /\ NoRecord \in Record
      /\ rec[w] = [id |-> rec[w].id, job |-> rec[w].job, attempts |-> rec[w].attempts]
      /\ [rec EXCEPT ![w] = rec[w]] = rec /\ [pc EXCEPT ![w] = pc[w]] = pc
      /\ rec[w].id \in Ids /\ rec[w].job \in Jobs /\ rec[w].attempts \in Nat
      /\ w \in Pushers
  <2>1. pc[w] \in Working
    BY DEF StoreLink, ListLink, RecordFailed, DeleteLoad, DeleteKey, DeleteReserved, DeleteDelayed,
           ReleaseLoad, ReleaseSave, ReleaseReserved, ReleaseDelay, Deleting, Releasing
  <2> QED BY <2>1, HandFacts DEF HandOK, Pushers
<1>a. UNCHANGED <<pc, rec>> => HandsGood
  BY DEF Typed, TypeOK, HandsOK, HandOK, HasNext
<1>b. NextJob(w) => HandsGood
  BY <1>0, HandsTyped DEF NextJob, Goto
<1>1. CASE StoreLink(w)
  <2>1. NextLink[rec[w].job] \in Jobs \cup {NoJob}
    BY <1>0
  <2>2. /\ envelopes' \in [Ids -> Envelope] /\ stored' \in [Pushers -> Ids \cup {0}]
        /\ nextId' \in 1 .. MaxId + 1
    BY <1>0, <1>1, <2>1, StoreTyped DEF StoreLink
  <2> QED BY <1>a, <1>1, <2>2 DEF StoreLink, Typed, TypeOK, procVars, failedVars
<1>2. CASE ListLink(w)
  <2>1. HandsGood
    BY <1>0, <1>2, HandsTyped DEF ListLink, Goto
  <2>2. ready' \in Seq(Ids) /\ stored' \in [Pushers -> Ids \cup {0}]
    BY <1>0, <1>2, ListTyped DEF ListLink
  <2>3. accepted' \subseteq Jobs
    BY <1>0, <1>2 DEF ListLink, HandOK, HasNext, Typed, TypeOK
  <2> QED BY <1>2, <2>1, <2>2, <2>3 DEF ListLink, Typed, TypeOK, failedVars
<1>3. CASE RecordFailed(w)
  <2>1. HandsGood
    BY <1>0, <1>3, HandsTyped DEF RecordFailed, Goto
  <2>2. failed' \in [Ids -> Jobs \cup {NoJob}] /\ nextId' \in 1 .. MaxId + 1
    BY <1>0, <1>3 DEF RecordFailed, InsertFailed, Typed, TypeOK, Ids
  <2> QED BY <1>3, <2>1, <2>2 DEF RecordFailed, Typed, TypeOK, callVars
<1>4. CASE DeleteLoad(w)
  <2>1. HandsGood
    BY <1>a, <1>b, <1>4 DEF DeleteLoad
  <2>2. cmd' \in [Workers -> 0 .. 3]
    BY <1>4, ReturnsTyped DEF DeleteLoad, Deleting, Typed, TypeOK
  <2> QED BY <1>4, <2>1, <2>2 DEF DeleteLoad, Typed, TypeOK, failedVars, keyVars
<1>5. CASE DeleteKey(w)
  <2>1. cmd' \in [Workers -> 0 .. 3]
    BY <1>5, ReturnsTyped DEF DeleteKey, Deleting
  <2>2. envelopes' \in [Ids -> Envelope]
    BY <1>0, <1>5, EnvelopeTyped DEF DeleteKey, Typed, TypeOK
  <2> QED BY <1>a, <1>5, <2>1, <2>2 DEF DeleteKey, Typed, TypeOK, procVars, failedVars
<1>6. CASE DeleteReserved(w) \/ ReleaseReserved(w)
  <2>1. cmd' \in [Workers -> 0 .. 3]
    BY <1>6, ReturnsTyped DEF DeleteReserved, ReleaseReserved, Deleting, Releasing
  <2>2. reserved' \subseteq Ids
    BY <1>6 DEF DeleteReserved, ReleaseReserved, Typed, TypeOK
  <2>3. HandsGood
    BY <1>a, <1>6 DEF DeleteReserved, ReleaseReserved, procVars
  <2> QED
    BY <1>6, <2>1, <2>2, <2>3 DEF DeleteReserved, ReleaseReserved, Typed, TypeOK, procVars, failedVars
<1>7. CASE DeleteDelayed(w) \/ ReleaseDelay(w)
  <2>1. cmd' \in [Workers -> 0 .. 3] /\ HandsGood
    BY <1>b, <1>7, ReturnsTyped DEF DeleteDelayed, ReleaseDelay
  <2>2. delayed' \subseteq Ids /\ due' \subseteq delayed'
    BY <1>0, <1>7 DEF DeleteDelayed, ReleaseDelay, ZRemDelayed, ZAddDelayed, Typed, TypeOK
  <2> QED BY <1>7, <2>1, <2>2 DEF DeleteDelayed, ReleaseDelay, Typed, TypeOK, failedVars
<1>8. CASE ReleaseLoad(w) /\ HasEnvelope(rec[w].id)
  <2>1. envelopes[rec[w].id].attempts \in Nat
    BY <1>0 DEF Typed, TypeOK, Envelope
  <2> DEFINE r == [rec[w] EXCEPT !.attempts = envelopes[rec[w].id].attempts]
  <2>2. r \in Record /\ r.id = rec[w].id /\ r.job = rec[w].job
    BY <1>0, <2>1 DEF Record
  <2>3. rec' = [rec EXCEPT ![w] = r] /\ pc' = [pc EXCEPT ![w] = pc[w]]
    BY <1>0, <1>8 DEF ReleaseLoad
  <2>4. HandsGood
    <3> HIDE DEF r
    <3> QED BY <1>0, <1>8, <2>2, <2>3, HandsTyped DEF ReleaseLoad, Releasing
  <2>5. cmd' \in [Workers -> 0 .. 3]
    BY <1>8, ReturnsTyped DEF ReleaseLoad, Releasing
  <2> QED BY <1>8, <2>4, <2>5 DEF ReleaseLoad, Typed, TypeOK, failedVars, keyVars
<1>9. CASE ReleaseLoad(w) /\ ~HasEnvelope(rec[w].id)
  BY <1>b, <1>9 DEF ReleaseLoad, Typed, TypeOK, failedVars, keyVars
<1>10. CASE ReleaseSave(w)
  <2>1. cmd' \in [Workers -> 0 .. 3]
    BY <1>10, ReturnsTyped DEF ReleaseSave, Releasing
  <2>2. envelopes' \in [Ids -> Envelope]
    <3>1. rec[w].attempts + 1 \in Nat
      BY <1>0
    <3>2. SetEnvelope(rec[w].id, rec[w].job, rec[w].attempts + 1)
      BY <1>10 DEF ReleaseSave
    <3> QED BY <1>0, <3>1, <3>2, EnvelopeTyped DEF Typed, TypeOK
  <2> QED BY <1>a, <1>10, <2>1, <2>2 DEF ReleaseSave, Typed, TypeOK, procVars, failedVars
<1> QED BY <1>1, <1>2, <1>3, <1>4, <1>5, <1>6, <1>7, <1>8, <1>9, <1>10

LEMMA OperatorsTyped ==
    ASSUME Typed, NEW o \in Operators, OperatorStep(o)
    PROVE  Typed'
<1>0. op[o] \in Retry /\ o \in Pushers /\ NoRetry \in Retry /\ [op[o] EXCEPT !.step = "pushed"] \in Retry
  <2>1. op[o] \in Retry /\ o \in Pushers
    BY DEF Typed, TypeOK, Pushers
  <2>2. NoRetry \in Retry
    BY DEF NoRetry, Retry
  <2>3. \A r \in Retry : [r EXCEPT !.step = "pushed"] \in Retry
    BY DEF Retry
  <2> QED BY <2>1, <2>2, <2>3
<1>a. UNCHANGED procVars => HandsOK'
  BY DEF Typed, HandsOK, HandOK, HasNext, procVars
<1>1. CASE RetryStore(o)
  <2>1. op[o].job \in Jobs \cup {NoJob}
    BY <1>0 DEF Retry
  <2>2. /\ envelopes' \in [Ids -> Envelope] /\ stored' \in [Pushers -> Ids \cup {0}]
        /\ nextId' \in 1 .. MaxId + 1
    BY <1>0, <1>1, <2>1, StoreTyped DEF RetryStore
  <2> QED BY <1>a, <1>1, <2>2 DEF RetryStore, Typed, TypeOK, procVars, failedVars
<1>2. CASE RetryList(o)
  <2>1. ready' \in Seq(Ids) /\ stored' \in [Pushers -> Ids \cup {0}]
    BY <1>0, <1>2, ListTyped DEF RetryList
  <2>2. op' \in [Operators -> Retry]
    <3>1. op' = [op EXCEPT ![o] = [op[o] EXCEPT !.step = "pushed"]]
      BY <1>2 DEF RetryList, RetryPushed
    <3> QED BY <1>0, <3>1 DEF Typed, TypeOK
  <2> QED BY <1>a, <1>2, <2>1, <2>2 DEF RetryList, RetryPushed, Typed, TypeOK, procVars
<1>3. CASE RetryStops(o)
  <2>1. op' \in [Operators -> Retry] /\ stored' \in [Pushers -> Ids \cup {0}]
    BY <1>0, <1>3 DEF RetryStops, RetryKilled, Typed, TypeOK
  <2> QED BY <1>a, <1>3, <2>1 DEF RetryStops, RetryKilled, Typed, TypeOK, procVars, keyVars
<1>4. CASE RetryFind(o) /\ UNCHANGED <<procVars, keyVars, callVars>>
  <2>1. PICK i \in Ids :
          op' = [op EXCEPT ![o] = [step |-> "found", id |-> i, job |-> failed[i]]]
    BY <1>4 DEF RetryFind
  <2>2. [step |-> "found", id |-> i, job |-> failed[i]] \in Retry
    BY DEF Typed, TypeOK, Retry
  <2>3. op' \in [Operators -> Retry]
    BY <2>1, <2>2 DEF Typed, TypeOK
  <2> QED BY <1>a, <1>4, <2>3 DEF RetryFind, Typed, TypeOK, procVars, keyVars, callVars
<1>5. CASE RetryDelete(o) /\ UNCHANGED <<procVars, keyVars, callVars>>
  <2>1. op' \in [Operators -> Retry] /\ failed' \in [Ids -> Jobs \cup {NoJob}]
    BY <1>0, <1>5 DEF RetryDelete, DeleteFailed, Typed, TypeOK
  <2> QED BY <1>a, <1>5, <2>1 DEF RetryDelete, Typed, TypeOK, procVars, keyVars, callVars
<1> QED BY <1>1, <1>2, <1>3, <1>4, <1>5 DEF OperatorStep

LEMMA OutsideTyped ==
    ASSUME Typed, StoredJobs,
           \/ \E p \in Producers : Produce(p)
           \/ \E i \in Ids : BecomesDue(i) \/ ForgetFailed(i)
           \/ UNCHANGED vars
    PROVE  Typed'
<1>a. UNCHANGED <<pc, rec>> => HandsOK'
  BY DEF Typed, HandsOK, HandOK, HasNext
<1>1. ASSUME NEW p \in Producers, NEW j \in Jobs, DispatchStore(p, j) PROVE Typed'
  <2>1. /\ envelopes' \in [Ids -> Envelope] /\ stored' \in [Pushers -> Ids \cup {0}]
        /\ nextId' \in 1 .. MaxId + 1
    BY <1>1, StoreTyped DEF DispatchStore, Pushers
  <2> QED BY <1>a, <1>1, <2>1 DEF DispatchStore, Typed, TypeOK, procVars, failedVars
<1>2. ASSUME NEW p \in Producers, DispatchReady(p) PROVE Typed'
  <2>1. ready' \in Seq(Ids) /\ stored' \in [Pushers -> Ids \cup {0}]
    BY <1>2, ListTyped DEF DispatchReady, Pushers
  <2>2. accepted' \subseteq Jobs
    BY <1>2 DEF DispatchReady, List, StoredJobs, Heads, Typed, TypeOK
  <2> QED BY <1>a, <1>2, <2>1, <2>2 DEF DispatchReady, Typed, TypeOK, failedVars
<1>3. ASSUME NEW p \in Producers, DispatchLater(p) PROVE Typed'
  <2>1. /\ stored' \in [Pushers -> Ids \cup {0}] /\ delayed' \subseteq Ids /\ due' \subseteq delayed'
    BY <1>3 DEF DispatchLater, ZAddDelayed, Typed, TypeOK, Pushers
  <2>2. accepted' \subseteq Jobs
    BY <1>3 DEF DispatchLater, StoredJobs, Heads, Typed, TypeOK
  <2> QED BY <1>a, <1>3, <2>1, <2>2 DEF DispatchLater, Typed, TypeOK, failedVars
<1>4. ASSUME NEW i \in Ids, BecomesDue(i) PROVE Typed'
  BY <1>a, <1>4 DEF BecomesDue, Typed, TypeOK, procVars, failedVars, callVars
<1>5. ASSUME NEW i \in Ids, ForgetFailed(i) PROVE Typed'
  <2>1. failed' \in [Ids -> Jobs \cup {NoJob}] /\ forgotten' \subseteq Jobs
    BY <1>5 DEF ForgetFailed, Forget, DeleteFailed, Typed, TypeOK
  <2> QED BY <1>a, <1>5, <2>1 DEF ForgetFailed, Forget, Typed, TypeOK, procVars, keyVars, callVars
<1>6. CASE UNCHANGED vars
  BY <1>a, <1>6 DEF vars, procVars, failedVars, keyVars, callVars, Typed, TypeOK
<1> QED BY <1>1, <1>2, <1>3, <1>4, <1>5, <1>6 DEF Produce

LEMMA StepTyped ==
    ASSUME Typed, StoredJobs, [Next]_vars
    PROVE  Typed'
<1>1. ASSUME NEW w \in Workers, WorkerStep(w) \/ Disturb(w) PROVE Typed'
  BY <1>1, LoopTyped, PopTyped, CallTyped DEF WorkerStep
<1>2. ASSUME NEW o \in Operators, OperatorStep(o) PROVE Typed'
  BY <1>2, OperatorsTyped
<1> QED BY <1>1, <1>2, OutsideTyped DEF Next

----------------------------------------------------------------------------
(***************************************************************************)
(* Keys.                                                                   *)
(*                                                                         *)
(* INCR never returns a key twice, and a key that a push has stored but    *)
(* not listed is known to the process that stored it alone. Every other    *)
(* key names one job for ever: in its envelope, and in the hands of each   *)
(* worker that loaded the envelope before it was deleted and may write it  *)
(* back.                                                                   *)
(***************************************************************************)

\* A worker can find the key, or has it in hand.
Listed(i) == InReady(i) \/ i \in delayed \/ \E w \in Workers : rec[w].id = i

Visible(i) == Listed(i) \/ \E w \in Workers : i \in todo[w]

Names(i, j) ==
    \/ envelopes[i].job = j
    \/ \E w \in Workers : pc[w] \in Named /\ rec[w].id = i /\ rec[w].job = j

Fresh ==
    \A i \in Ids :
        \/ Visible(i) \/ envelopes[i].job # NoJob \/ failed[i] # NoJob
        \/ \E p \in Pushers : stored[p] = i
      => i < nextId

Hidden ==
    \A p \in Pushers, i \in Ids : stored[p] = i =>
        /\ ~Visible(i)
        /\ \A q \in Pushers : stored[q] = i => q = p

OneName == \A i \in Ids : \A j, k \in Jobs : Names(i, j) /\ Names(i, k) => j = k

\* What a worker has stored is the next link of the chain it is running.
StoredLink(w) ==
    stored[w] # 0 => pc[w] = "chaining" /\ envelopes[stored[w]].job = NextLink[rec[w].job]

\* What an operator has stored is the job of the record it is retrying.
StoredRetry(o) ==
    stored[o] # 0 =>
        /\ op[o].step = "found" /\ op[o].id < stored[o]
        /\ envelopes[stored[o]].job = op[o].job

\* An operator knows the job of the record it has found, deleted since or not.
Retrying(o) ==
    op[o].step # "none" =>
        /\ op[o].id \in Ids /\ op[o].id < nextId
        /\ op[o].job \in Jobs
        /\ failed[op[o].id] \in {op[o].job, NoJob}

Keyed ==
    /\ Typed
    /\ Fresh /\ Hidden /\ OneName
    /\ StoredJobs
    /\ \A w \in Workers : StoredLink(w)
    /\ \A o \in Operators : StoredRetry(o) /\ Retrying(o)

LEMMA InitKeyed == Init => Keyed
<1> SUFFICES ASSUME Init PROVE Keyed
  OBVIOUS
<1>1. Typed
  BY InitTyped
<1>2. \A i \in Ids : ~Visible(i) /\ envelopes[i].job = NoJob /\ failed[i] = NoJob
  <2>1. \A i : ~InReady(i)
    BY DEF Init, InReady
  <2> QED BY <2>1 DEF Init, ProcInit, FailedInit, Visible, Listed, NoEnvelope, NoRecord, Ids
<1>3. \A p \in Pushers : stored[p] = 0
  BY DEF Init
<1>4. Fresh /\ Hidden /\ StoredJobs
  BY <1>2, <1>3 DEF Fresh, Hidden, StoredJobs, Pushers, Ids
<1>5. OneName
  BY <1>2 DEF Init, ProcInit, OneName, Names, Named, Working, Failed
<1>6. (\A w \in Workers : StoredLink(w)) /\ (\A o \in Operators : StoredRetry(o))
  BY <1>3 DEF StoredLink, StoredRetry, Pushers
<1>7. \A o \in Operators : Retrying(o)
  BY DEF Init, FailedInit, NoRetry, Retrying
<1> QED BY <1>1, <1>4, <1>5, <1>6, <1>7 DEF Keyed

----------------------------------------------------------------------------
(* What every step does to the keys *)

\* A key becomes visible only by the last command of the push that stored it.
ShowsListed ==
    \A i \in Ids : Visible(i)' => \/ Visible(i)
                                  \/ \E p \in Pushers : stored[p] = i /\ stored'[p] = 0

Drawn(i) == i = nextId /\ nextId' = nextId + 1

\* Only one process draws a key, and keeps it to itself.
StoresDrawn ==
    /\ nextId' \in {nextId, nextId + 1}
    /\ \A p \in Pushers : stored'[p] \in {0, stored[p]} \/ Drawn(stored'[p])
    /\ \A p, q \in Pushers : Drawn(stored'[p]) /\ stored'[q] = stored'[p] => p = q

\* A name is given to a key when it is drawn.
NamesDrawn ==
    /\ \A i \in Ids, j \in Jobs :
         Names(i, j)' => Names(i, j) \/ (Drawn(i) /\ envelopes'[i].job = j)
    /\ \A i \in Ids : failed'[i] # NoJob => failed'[i] = failed[i] \/ Drawn(i)

\* The envelope of a hidden key is left alone.
SparesHidden ==
    \A i \in Ids : envelopes'[i].job = envelopes[i].job \/ Visible(i) \/ Drawn(i)

KeyFrame == ShowsListed /\ StoresDrawn /\ NamesDrawn /\ SparesHidden

LEMMA KeysKept ==
    ASSUME Keyed, Typed', KeyFrame
    PROVE  Fresh' /\ Hidden' /\ OneName'
<1>0. /\ nextId \in Nat /\ nextId' \in Nat /\ nextId' \in {nextId, nextId + 1}
      /\ \A p \in Pushers : stored[p] \in Ids \cup {0} /\ stored'[p] \in Ids \cup {0}
      /\ \A i \in Ids : i \in Nat /\ i # 0
      /\ Fresh /\ Hidden /\ OneName
      /\ \A i \in Ids : envelopes[i].job \in Jobs \cup {NoJob}
      /\ \A i \in Ids : envelopes'[i].job \in Jobs \cup {NoJob}
      /\ \A i \in Ids, w \in Workers : rec[w].id = i => Visible(i)
  BY SMTT(30) DEF Keyed, Typed, TypeOK, KeyFrame, StoresDrawn, Ids, Envelope, Visible, Listed
<1>1. \A i \in Ids : Visible(i)' => i < nextId
  BY <1>0 DEF KeyFrame, ShowsListed, Fresh
<1>2. \A i \in Ids, j \in Jobs : Names(i, j) => i < nextId
  BY <1>0 DEF Fresh, Names
<1>3. \A p \in Pushers : stored[p] # 0 => stored[p] < nextId
  BY <1>0 DEF Fresh
<1>4. \A p \in Pushers : stored'[p] # 0 => stored'[p] < nextId'
  BY <1>0, <1>3 DEF KeyFrame, StoresDrawn, Drawn
<1>5. ASSUME NEW i \in Ids, envelopes'[i].job # NoJob PROVE i < nextId'
  <2>1. Names(i, envelopes'[i].job) \/ Drawn(i)
    BY <1>0, <1>5 DEF KeyFrame, NamesDrawn, Names
  <2> QED BY <1>0, <1>2, <1>5, <2>1 DEF Drawn
<1>6. ASSUME NEW i \in Ids, failed'[i] # NoJob PROVE i < nextId'
  <2>1. failed[i] # NoJob \/ Drawn(i)
    BY <1>6 DEF KeyFrame, NamesDrawn
  <2>2. failed[i] # NoJob => i < nextId
    BY <1>0 DEF Fresh
  <2> QED BY <1>0, <2>1, <2>2 DEF Drawn
<1>7. Fresh'
  <2> SUFFICES ASSUME NEW i \in Ids,
                      \/ Visible(i)' \/ envelopes'[i].job # NoJob \/ failed'[i] # NoJob
                      \/ \E p \in Pushers : stored'[p] = i
               PROVE  i < nextId'
    BY DEF Fresh
  <2> QED BY <1>0, <1>1, <1>4, <1>5, <1>6
<1>8. ASSUME NEW p \in Pushers, NEW i \in Ids, stored'[p] = i
      PROVE  ~(Visible(i)') /\ \A q \in Pushers : stored'[q] = i => q = p
  <2>1. CASE Drawn(i)
    <3>1. ~(Visible(i)')
      BY <1>0, <1>1, <2>1 DEF Drawn
    <3> QED BY <1>8, <2>1, <3>1 DEF KeyFrame, StoresDrawn
  <2>2. CASE ~Drawn(i)
    <3>1. stored[p] = i
      BY <1>0, <1>8, <2>2 DEF KeyFrame, StoresDrawn
    <3>2. ~Visible(i) /\ \A q \in Pushers : stored[q] = i => q = p
      BY <1>0, <3>1 DEF Hidden
    <3>3. \A q \in Pushers : stored'[q] = i => q = p
      BY <1>0, <2>2, <3>2 DEF KeyFrame, StoresDrawn
    <3>4. ~(Visible(i)')
      BY <1>0, <1>8, <3>1, <3>2 DEF KeyFrame, ShowsListed
    <3> QED BY <3>3, <3>4
  <2> QED BY <2>1, <2>2
<1>9. Hidden'
  BY <1>8 DEF Hidden
<1>10. OneName'
  <2> SUFFICES ASSUME NEW i \in Ids, NEW j \in Jobs, NEW k \in Jobs, Names(i, j)', Names(i, k)'
               PROVE  j = k
    BY DEF OneName
  <2>1. \/ Names(i, j) /\ Names(i, k)
        \/ Drawn(i) /\ (Names(i, j) \/ envelopes'[i].job = j) /\ (Names(i, k) \/ envelopes'[i].job = k)
    BY DEF KeyFrame, NamesDrawn
  <2>2. Drawn(i) => ~Names(i, j) /\ ~Names(i, k)
    BY <1>0, <1>2 DEF Drawn
  <2> QED BY <1>0, <2>1, <2>2 DEF OneName
<1> QED BY <1>7, <1>9, <1>10

\* Whoever keeps what it has stored stays where it was.
KeepsStored ==
    /\ \A p \in Pushers : stored'[p] \in {0, stored[p]}
    /\ \A w \in Workers : stored'[w] # 0 => pc'[w] = pc[w] /\ rec'[w] = rec[w]
    /\ \A o \in Operators : stored'[o] # 0 => op'[o] = op[o]

LEMMA StoredKept ==
    ASSUME Keyed, KeyFrame, NEW p \in Pushers, stored[p] # 0, stored'[p] = stored[p]
    PROVE  stored[p] \in Ids /\ envelopes'[stored[p]].job = envelopes[stored[p]].job
<1>1. PICK i \in Ids : i = stored[p]
  BY DEF Keyed, Typed, TypeOK
<1>2. ~Visible(i) /\ i < nextId /\ nextId \in Nat /\ i \in Nat
  BY <1>1 DEF Keyed, Hidden, Fresh, Typed, TypeOK, Ids
<1>3. envelopes'[i].job = envelopes[i].job
  BY <1>2 DEF KeyFrame, SparesHidden, Drawn
<1> QED BY <1>1, <1>3

LEMMA RetryingKept ==
    ASSUME Keyed, KeyFrame, NEW o \in Operators, op'[o] = op[o]
    PROVE  Retrying(o)'
<1> SUFFICES ASSUME op[o].step # "none"
             PROVE  /\ op[o].id \in Ids /\ op[o].id < nextId' /\ op[o].job \in Jobs
                    /\ failed'[op[o].id] \in {op[o].job, NoJob}
  BY DEF Retrying
<1>1. PICK i \in Ids : i = op[o].id
  BY DEF Keyed, Retrying
<1>2. i < nextId /\ op[o].job \in Jobs /\ failed[i] \in {op[o].job, NoJob}
  BY <1>1 DEF Keyed, Retrying
<1>3. nextId \in Nat /\ i \in Nat
  BY DEF Keyed, Typed, TypeOK, Ids
<1>4. nextId' \in {nextId, nextId + 1} /\ ~Drawn(i)
  BY <1>2, <1>3 DEF KeyFrame, StoresDrawn, Drawn
<1>5. failed'[i] # NoJob => failed'[i] = failed[i]
  BY <1>4 DEF KeyFrame, NamesDrawn
<1>6. i < nextId'
  BY <1>2, <1>3, <1>4
<1> QED BY <1>1, <1>2, <1>5, <1>6

LEMMA KeyedKept ==
    ASSUME Keyed, Typed', KeyFrame, KeepsStored,
           \A o \in Operators : op'[o] = op[o] \/ Retrying(o)'
    PROVE  Keyed'
<1>1. Fresh' /\ Hidden' /\ OneName'
  BY KeysKept
<1>2. StoredJobs'
  BY StoredKept DEF Keyed, StoredJobs, KeepsStored, Pushers
<1>3. ASSUME NEW w \in Workers PROVE StoredLink(w)'
  <2>1. w \in Pushers
    BY DEF Pushers
  <2> QED BY <2>1, StoredKept DEF Keyed, StoredLink, KeepsStored
<1>4. ASSUME NEW o \in Operators PROVE StoredRetry(o)'
  <2>1. o \in Pushers
    BY DEF Pushers
  <2> QED BY <2>1, StoredKept DEF Keyed, StoredRetry, KeepsStored
<1> QED BY <1>1, <1>2, <1>3, <1>4, RetryingKept DEF Keyed

\* Most steps pass on what is visible and named, or take it away.
QuietKeys ==
    /\ nextId' = nextId
    /\ ready' = ready /\ delayed' \subseteq delayed
    /\ \A x \in Workers : todo'[x] \subseteq todo[x] \cup delayed
    /\ \A x \in Workers :
         /\ rec'[x].id \in {0, rec[x].id}
         /\ pc'[x] \in Named =>
              pc[x] \in Named /\ rec'[x].id = rec[x].id /\ rec'[x].job = rec[x].job
    /\ \A i \in Ids :
         \/ envelopes'[i].job = envelopes[i].job
         \/ \E x \in Workers : rec[x].id = i /\ envelopes'[i].job = NoJob
         \/ \E x \in Workers : rec[x].id = i /\ pc[x] \in Named /\ envelopes'[i].job = rec[x].job
    /\ \A i \in Ids : failed'[i] \in {failed[i], NoJob}

LEMMA QuietVisible ==
    ASSUME QuietKeys, NEW i \in Ids, Visible(i)'
    PROVE  Visible(i)
<1>0. i # 0
  BY DEF Ids
<1>1. CASE InReady(i)' \/ i \in delayed'
  BY <1>1 DEF QuietKeys, InReady, Visible, Listed
<1>2. ASSUME NEW w \in Workers, rec'[w].id = i PROVE Visible(i)
  BY <1>0, <1>2 DEF QuietKeys, Visible, Listed
<1>3. ASSUME NEW w \in Workers, i \in todo'[w] PROVE Visible(i)
  BY <1>3 DEF QuietKeys, Visible, Listed
<1> QED BY <1>1, <1>2, <1>3 DEF Visible, Listed

LEMMA QuietFrame ==
    ASSUME Typed, QuietKeys, KeepsStored
    PROVE  KeyFrame
<1>2. ShowsListed
  BY QuietVisible DEF ShowsListed
<1>3. StoresDrawn
  <2>1. nextId' = nextId /\ nextId \in Nat
    BY DEF QuietKeys, Typed, TypeOK
  <2>2. nextId' # nextId + 1
    BY <2>1
  <2> QED BY <2>1, <2>2 DEF KeepsStored, StoresDrawn, Drawn
<1>4. NamesDrawn
  <2>1. ASSUME NEW i \in Ids, NEW j \in Jobs, envelopes'[i].job = j PROVE Names(i, j)
    BY <2>1 DEF QuietKeys, Names
  <2>2. ASSUME NEW i \in Ids, NEW j \in Jobs, NEW w \in Workers,
               pc'[w] \in Named, rec'[w].id = i, rec'[w].job = j
        PROVE  Names(i, j)
    BY <2>2 DEF QuietKeys, Names
  <2>3. \A i \in Ids, j \in Jobs : Names(i, j)' => Names(i, j)
    BY <2>1, <2>2 DEF Names
  <2>4. \A i \in Ids : failed'[i] # NoJob => failed'[i] = failed[i]
    BY DEF QuietKeys
  <2> QED BY <2>3, <2>4 DEF NamesDrawn
<1>5. SparesHidden
  BY DEF QuietKeys, SparesHidden, Visible, Listed
<1> QED BY <1>2, <1>3, <1>4, <1>5 DEF KeyFrame

\* INCR and SET: the key is drawn, and nobody sees it.
LEMMA StoreFrame ==
    ASSUME Keyed, NEW p \in Pushers, NEW j \in Jobs \cup {NoJob}, StoreNew(p, j),
           UNCHANGED <<pc, rec, failed, ready, delayed, todo>>
    PROVE  KeyFrame
<1>1. /\ nextId \in Ids /\ nextId' = nextId + 1
      /\ stored[p] = 0 /\ stored' = [stored EXCEPT ![p] = nextId]
      /\ envelopes'[nextId].job = j
      /\ \A i \in Ids \ {nextId} : envelopes'[i] = envelopes[i]
      /\ stored \in [Pushers -> Ids \cup {0}]
  BY StoreTyped DEF Keyed, Typed, TypeOK
<1>2. \A i \in Ids : Visible(i)' <=> Visible(i)
  BY DEF Visible, Listed, InReady
<1>3. ShowsListed
  BY <1>2 DEF ShowsListed
<1>4. StoresDrawn
  <2>1. \A q \in Pushers : stored[q] # nextId
    BY <1>1 DEF Keyed, Fresh, Ids
  <2> QED BY <1>1, <2>1 DEF StoresDrawn, Drawn
<1>5. NamesDrawn
  BY <1>1 DEF NamesDrawn, Names, Drawn
<1>6. SparesHidden
  BY <1>1 DEF SparesHidden, Drawn
<1> QED BY <1>3, <1>4, <1>5, <1>6 DEF KeyFrame

\* The last command of a push, or of later().
LEMMA ListFrame ==
    ASSUME Keyed, NEW p \in Pushers, stored[p] # 0, stored' = [stored EXCEPT ![p] = 0],
           UNCHANGED <<envelopes, failed, todo, rec, nextId>>,
           \A x \in Workers : pc'[x] \in Named => pc[x] \in Named,
           \/ LPush(stored[p]) /\ delayed' = delayed
           \/ ZAddDelayed(stored[p]) /\ ready' = ready
    PROVE  KeyFrame
<1>1. stored[p] \in Ids /\ stored'[p] = 0 /\ stored \in [Pushers -> Ids \cup {0}]
  BY DEF Keyed, Typed, TypeOK
<1>2. /\ \A i \in Ids : InReady(i)' => InReady(i) \/ i = stored[p]
      /\ \A i \in Ids : i \in delayed' => i \in delayed \/ i = stored[p]
  <2>1. CASE LPush(stored[p]) /\ delayed' = delayed
    BY <1>1, <2>1, PushReady DEF Keyed, Typed, TypeOK
  <2>2. CASE ZAddDelayed(stored[p]) /\ ready' = ready
    BY <2>2 DEF ZAddDelayed, InReady
  <2> QED BY <2>1, <2>2
<1>3. ShowsListed
  BY <1>1, <1>2 DEF ShowsListed, Visible, Listed
<1>4. StoresDrawn
  <2>1. nextId \in Nat /\ nextId' = nextId
    BY DEF Keyed, Typed, TypeOK
  <2>2. nextId' # nextId + 1
    BY <2>1
  <2> QED BY <1>1, <2>1, <2>2 DEF StoresDrawn, Drawn
<1>5. NamesDrawn
  BY DEF NamesDrawn, Names
<1>6. SparesHidden
  BY DEF SparesHidden
<1> QED BY <1>3, <1>4, <1>5, <1>6 DEF KeyFrame

----------------------------------------------------------------------------
(* The steps of a worker *)

\* The others stay where they are, and the operators too.
Apart(w) ==
    /\ op' = op
    /\ \A x \in Workers \ {w} : pc'[x] = pc[x] /\ rec'[x] = rec[x]

LEMMA WorkerKeeps ==
    ASSUME Keyed, NEW w \in Workers, Apart(w),
           \A p \in Pushers : stored'[p] \in {0, stored[p]},
           \/ pc[w] # "chaining" \/ stored'[w] = 0
           \/ pc'[w] = pc[w] /\ rec'[w] = rec[w]
    PROVE  KeepsStored
<1>1. stored[w] # 0 => pc[w] = "chaining"
  BY DEF Keyed, StoredLink
<1>2. w \in Pushers
  BY DEF Pushers
<1> QED BY <1>1, <1>2 DEF KeepsStored, Apart

\* Steps that leave the store alone, or write an envelope in hand.
LEMMA QuietLoop ==
    ASSUME Keyed, NEW w \in Workers,
           LoopStep(w) \/ Disturb(w) \/ CallFails(w) \/ PopFails(w)
    PROVE  QuietKeys /\ KeepsStored /\ Apart(w)
<1> USE DEF Named, Popping, Working, Failed, Down
<1>0. /\ pc \in [Workers -> {"idle"} \cup Popping \cup Working \cup Down]
      /\ rec \in [Workers -> Record] /\ todo \in [Workers -> SUBSET Ids]
      /\ stored \in [Pushers -> Ids \cup {0}] /\ w \in Pushers
      /\ \A x \in Workers : rec[x].id \in Ids \cup {0}
  BY HandFacts DEF Keyed, Typed, TypeOK, Pushers
<1>1. ASSUME LoopStep(w) \/ (Disturb(w) /\ ~Kill(w)),
             UNCHANGED <<failedVars, keyVars, callVars>>
      PROVE  QuietKeys /\ KeepsStored /\ Apart(w)
  <2>1. /\ rec' = rec
        /\ \A x \in Workers \ {w} : pc'[x] = pc[x]
        /\ pc'[w] \in Named => pc[w] \in Named
        /\ pc[w] = "chaining" => pc'[w] = pc[w]
    BY <1>0, <1>1 DEF LoopStep, Disturb, HandleSucceeds, HandleFails, Exit, Shutdown, Restart, Catch, Goto
  <2>2. Apart(w)
    BY <1>1, <2>1 DEF Apart, failedVars
  <2>3. KeepsStored
    BY <1>1, <2>1, <2>2, WorkerKeeps DEF callVars
  <2>4. QuietKeys
    BY <1>1, <2>1 DEF QuietKeys, failedVars, keyVars, callVars
  <2> QED BY <2>2, <2>3, <2>4
<1>2. CASE CallFails(w)
  <2>1. /\ rec' = rec /\ todo' = todo /\ UNCHANGED <<failedVars, keyVars>>
        /\ \A x \in Workers \ {w} : pc'[x] = pc[x]
        /\ pc[w] \in Named
        /\ stored' = [stored EXCEPT ![w] = 0]
    BY <1>0, <1>2 DEF CallFails, StepFails, Catch, Goto
  <2>2. Apart(w)
    BY <2>1 DEF Apart, failedVars
  <2>3. KeepsStored
    BY <1>0, <2>1, <2>2, WorkerKeeps
  <2>4. QuietKeys
    BY <2>1 DEF QuietKeys, failedVars, keyVars
  <2> QED BY <2>2, <2>3, <2>4
<1>3. CASE PopFails(w) \/ Kill(w)
  <2>1. /\ rec' = [rec EXCEPT ![w] = NoRecord] /\ pc'[w] \in {"idle", "crashed"}
        /\ \A x \in Workers \ {w} : pc'[x] = pc[x]
        /\ todo' = [todo EXCEPT ![w] = {}] /\ UNCHANGED <<failedVars, keyVars>>
        /\ stored' \in {stored, [stored EXCEPT ![w] = 0]}
        /\ pc[w] # "chaining" \/ stored'[w] = 0
    BY <1>0, <1>3 DEF PopFails, Kill, Crash, NextJob, Goto
  <2>2. rec'[w].id = 0 /\ \A x \in Workers \ {w} : rec'[x] = rec[x]
    BY <1>0, <2>1 DEF NoRecord
  <2>3. Apart(w)
    BY <2>1, <2>2 DEF Apart, failedVars
  <2>4. KeepsStored
    BY <1>0, <2>1, <2>3, WorkerKeeps
  <2>5. QuietKeys
    BY <1>0, <2>1, <2>2 DEF QuietKeys, failedVars, keyVars
  <2> QED BY <2>3, <2>4, <2>5
<1>4. LoopStep(w) \/ (Disturb(w) /\ ~Kill(w)) => UNCHANGED <<failedVars, keyVars, callVars>>
  BY DEF LoopStep, Disturb
<1> QED BY <1>1, <1>2, <1>3, <1>4 DEF Disturb

LEMMA QuietPop ==
    ASSUME Keyed, NEW w \in Workers,
           \/ Scan(w) \/ SavePopped(w) \/ Reserve(w)
           \/ PopReady(w) /\ ready = <<>>
           \/ LoadPopped(w) /\ ~HasEnvelope(rec[w].id)
    PROVE  QuietKeys /\ KeepsStored /\ Apart(w)
<1> USE DEF Named, Popping, Working, Failed, Down
<1>0. /\ pc \in [Workers -> {"idle"} \cup Popping \cup Working \cup Down]
      /\ rec \in [Workers -> Record] /\ todo \in [Workers -> SUBSET Ids]
      /\ HandOK(w) /\ due \subseteq delayed /\ envelopes \in [Ids -> Envelope]
  BY HandFacts DEF Keyed, Typed, TypeOK
<1>1. /\ UNCHANGED <<failedVars, stored, nextId, delayed>>
      /\ pc[w] # "chaining" /\ ready' = ready
      /\ \A x \in Workers \ {w} : pc'[x] = pc[x] /\ rec'[x] = rec[x]
      /\ rec'[w] \in {rec[w], NoRecord}
      /\ pc'[w] \in Named => pc[w] \in Named /\ rec'[w] = rec[w]
  <2>1. CASE Scan(w) \/ SavePopped(w) \/ Reserve(w)
    BY <1>0, <2>1 DEF Scan, SavePopped, Reserve, Goto, keyVars, callVars
  <2>2. CASE PopReady(w) /\ ready = <<>>
    BY <1>0, <2>2 DEF PopReady, NextJob, Goto, callVars
  <2>3. CASE LoadPopped(w) /\ ~HasEnvelope(rec[w].id)
    BY <1>0, <2>3 DEF LoadPopped, NextJob, Goto, keyVars, callVars
  <2> QED BY <2>1, <2>2, <2>3
<1>2. \A x \in Workers : todo'[x] \subseteq todo[x] \cup delayed
  BY <1>0 DEF Scan, SavePopped, Reserve, PopReady, LoadPopped, callVars
<1>3. \/ envelopes' = envelopes
      \/ /\ pc[w] \in Named /\ rec[w].id \in Ids
         /\ envelopes' = [envelopes EXCEPT ![rec[w].id] = [job |-> rec[w].job, attempts |-> rec[w].attempts]]
  BY <1>0 DEF Scan, SavePopped, Reserve, PopReady, LoadPopped, keyVars, SetEnvelope, HandOK, Holding
<1>4. Apart(w)
  BY <1>1 DEF Apart, failedVars
<1>5. KeepsStored
  BY <1>1, <1>4, WorkerKeeps
<1>6. \A i \in Ids : \/ envelopes'[i].job = envelopes[i].job
                     \/ rec[w].id = i /\ pc[w] \in Named /\ envelopes'[i].job = rec[w].job
  BY <1>0, <1>3
<1>7. NoRecord.id = 0
  BY DEF NoRecord
<1>8. QuietKeys
  BY <1>1, <1>2, <1>6, <1>7 DEF QuietKeys, failedVars
<1> QED BY <1>4, <1>5, <1>8

LEMMA QuietCalls ==
    ASSUME Keyed, NEW w \in Workers,
           \/ DeleteLoad(w) \/ DeleteKey(w) \/ DeleteReserved(w) \/ DeleteDelayed(w)
           \/ ReleaseLoad(w) \/ ReleaseSave(w) \/ ReleaseReserved(w)
    PROVE  QuietKeys /\ KeepsStored /\ Apart(w)
<1> USE DEF Named, Popping, Working, Failed, Down
<1>0. /\ pc \in [Workers -> {"idle"} \cup Popping \cup Working \cup Down]
      /\ rec \in [Workers -> Record] /\ HandOK(w) /\ envelopes \in [Ids -> Envelope]
  BY HandFacts DEF Keyed, Typed, TypeOK
<1>1. /\ UNCHANGED <<failedVars, stored, nextId, todo, ready>>
      /\ delayed' \subseteq delayed
      /\ pc[w] \in Named /\ pc[w] # "chaining"
  BY DEF DeleteLoad, DeleteKey, DeleteReserved, DeleteDelayed, ReleaseLoad, ReleaseSave,
         ReleaseReserved, Deleting, Releasing, ZRemDelayed, keyVars
<1>2. CASE ReleaseLoad(w) /\ HasEnvelope(rec[w].id)
  <2>1. rec' = [rec EXCEPT ![w].attempts = envelopes[rec[w].id].attempts] /\ pc' = pc /\ envelopes' = envelopes
    BY <1>2 DEF ReleaseLoad, keyVars
  <2>2. /\ rec'[w].id = rec[w].id /\ rec'[w].job = rec[w].job
        /\ \A x \in Workers \ {w} : rec'[x] = rec[x]
    BY <1>0, <2>1 DEF Record
  <2>3. Apart(w)
    BY <1>1, <2>1, <2>2 DEF Apart, failedVars
  <2>4. KeepsStored
    BY <1>1, <2>3, WorkerKeeps
  <2>5. QuietKeys
    BY <1>1, <2>1, <2>2 DEF QuietKeys, failedVars
  <2> QED BY <2>3, <2>4, <2>5
<1>3. CASE ~(ReleaseLoad(w) /\ HasEnvelope(rec[w].id))
  <2>1. /\ \A x \in Workers \ {w} : pc'[x] = pc[x] /\ rec'[x] = rec[x]
        /\ rec'[w] \in {rec[w], NoRecord}
        /\ pc'[w] \in Named => rec'[w] = rec[w]
    BY <1>0, <1>3 DEF DeleteLoad, DeleteKey, DeleteReserved, DeleteDelayed, ReleaseLoad, ReleaseSave,
         ReleaseReserved, NextJob, Goto, procVars
  <2>2. rec[w].id \in Ids
    BY <1>0, <1>1 DEF HandOK, Holding
  <2>3. \/ envelopes' = envelopes
        \/ envelopes' = [envelopes EXCEPT ![rec[w].id] = NoEnvelope]
        \/ envelopes' = [envelopes EXCEPT ![rec[w].id] = [job |-> rec[w].job, attempts |-> rec[w].attempts + 1]]
    BY DEF DeleteLoad, DeleteKey, DeleteReserved, DeleteDelayed, ReleaseLoad, ReleaseSave,
         ReleaseReserved, keyVars, SetEnvelope, DelEnvelope
  <2>4. \A i \in Ids : \/ envelopes'[i].job = envelopes[i].job
                       \/ rec[w].id = i /\ envelopes'[i].job = NoJob
                       \/ rec[w].id = i /\ envelopes'[i].job = rec[w].job
    BY <1>0, <2>2, <2>3 DEF NoEnvelope
  <2>5. NoRecord.id = 0
    BY DEF NoRecord
  <2>6. Apart(w)
    BY <1>1, <2>1 DEF Apart, failedVars
  <2>7. KeepsStored
    BY <1>1, <2>6, WorkerKeeps
  <2>8. QuietKeys
    BY <1>1, <2>1, <2>4, <2>5 DEF QuietKeys, failedVars
  <2> QED BY <2>6, <2>7, <2>8
<1> QED BY <1>2, <1>3

\* Steps that move a key from one place to another.
LEMMA MovingSteps ==
    ASSUME Keyed, NEW w \in Workers,
           \/ PromoteRemove(w) \/ PromotePush(w) \/ ReleaseDelay(w)
           \/ PopReady(w) /\ ready # <<>>
    PROVE  /\ KeyFrame /\ KeepsStored /\ Apart(w)
           /\ UNCHANGED <<failedVars, envelopes, nextId>>
           /\ pc'[w] \notin Named
           /\ \A i \in Ids : Listed(i) => Listed(i)'
<1> USE DEF Named, Popping, Working, Failed, Down
<1>0. /\ pc \in [Workers -> {"idle"} \cup Popping \cup Working \cup Down]
      /\ rec \in [Workers -> Record] /\ HandOK(w) /\ todo \in [Workers -> SUBSET Ids]
      /\ ready \in Seq(Ids) /\ nextId \in Nat
  BY HandFacts, SMTT(30) DEF Keyed, Typed, TypeOK
<1>a. \A i \in Ids : i # 0
  BY DEF Ids
<1>1. /\ UNCHANGED <<failedVars, envelopes, stored, nextId>>
      /\ pc[w] # "chaining" /\ pc'[w] \notin Named
      /\ \A x \in Workers \ {w} : pc'[x] = pc[x] /\ rec'[x] = rec[x]
  <2>1. CASE PromoteRemove(w)
    BY <1>0, <2>1 DEF PromoteRemove, Goto
  <2>2. CASE PromotePush(w) \/ ReleaseDelay(w)
    BY <1>0, <2>2 DEF PromotePush, ReleaseDelay, Releasing, NextJob, Goto, callVars
  <2>3. CASE PopReady(w) /\ ready # <<>>
    BY <1>0, <2>3 DEF PopReady, Goto, callVars
  <2> QED BY <2>1, <2>2, <2>3
<1>2. Apart(w)
  BY <1>1 DEF Apart, failedVars
<1>3. KeepsStored
  BY <1>1, <1>2, WorkerKeeps
<1>4. (\A i \in Ids : Visible(i)' => Visible(i)) /\ (\A i \in Ids : Listed(i) => Listed(i)')
  <2>1. CASE PromoteRemove(w)
    <3>1. PICK i \in todo[w] : /\ ZRemDelayed(i)
                               /\ todo' = [todo EXCEPT ![w] = @ \ {i}]
                               /\ rec' = [rec EXCEPT ![w].id = i]
      BY <2>1 DEF PromoteRemove
    <3>2. /\ ready' = ready /\ delayed' = delayed \ {i} /\ i \in Ids
          /\ rec'[w].id = i /\ rec[w].id = 0 /\ i \in todo[w]
      BY <1>0, <2>1, <3>1 DEF PromoteRemove, ZRemDelayed, Record, HandOK, Holding, NoRecord
    <3>3. \A x \in Workers : todo'[x] \subseteq todo[x]
      BY <1>0, <3>1
    <3>4. \A k : InReady(k)' <=> InReady(k)
      BY <3>2 DEF InReady
    <3>5. \A k \in Ids : Visible(k)' => Visible(k)
      BY <1>1, <3>2, <3>3, <3>4 DEF Visible, Listed
    <3>6. \A k \in Ids : Listed(k) => Listed(k)'
      BY <1>0, <1>a, <1>1, <3>2, <3>4 DEF Listed
    <3> QED BY <3>5, <3>6
  <2>2. CASE PromotePush(w)
    <3>1. /\ LPush(rec[w].id) /\ delayed' = delayed /\ todo' = todo
          /\ rec'[w].id = 0 /\ rec[w].id \in Ids
      BY <1>0, <2>2 DEF PromotePush, NoRecord, HandOK, Holding, callVars
    <3>2. \A k : InReady(k)' <=> k = rec[w].id \/ InReady(k)
      BY <1>0, <3>1, PushReady
    <3> QED BY <1>0, <1>a, <1>1, <3>1, <3>2 DEF Visible, Listed
  <2>3. CASE ReleaseDelay(w)
    <3>1. /\ ready' = ready /\ delayed' = delayed \cup {rec[w].id} /\ todo' = todo
          /\ rec'[w].id = 0 /\ rec[w].id \in Ids
      BY <1>0, <2>3 DEF ReleaseDelay, Releasing, ZAddDelayed, NextJob, NoRecord, HandOK, Holding
    <3>2. \A k : InReady(k)' <=> InReady(k)
      BY <3>1 DEF InReady
    <3> QED BY <1>0, <1>a, <1>1, <3>1, <3>2 DEF Visible, Listed
  <2>4. CASE PopReady(w) /\ ready # <<>>
    <3>1. /\ ready' = Front(ready) /\ delayed' = delayed /\ todo' = todo
          /\ rec' = [rec EXCEPT ![w].id = Last(ready)] /\ pc[w] = "promoting"
      BY <2>4 DEF PopReady, callVars
    <3>2. rec'[w].id = Last(ready) /\ rec[w].id = 0
      BY <1>0, <3>1 DEF Record, HandOK, Holding, NoRecord
    <3>3. /\ \A k : InReady(k)' => InReady(k)
          /\ \A k : InReady(k) => k = Last(ready) \/ InReady(k)'
          /\ InReady(Last(ready))
      BY <1>0, <2>4, <3>1, PopReadyTail
    <3>4. PICK l : l = Last(ready)
      OBVIOUS
    <3>5. \A k \in Ids : Visible(k)' => Visible(k)
      BY <1>1, <3>1, <3>2, <3>3, <3>4 DEF Visible, Listed
    <3>6. \A k \in Ids : Listed(k) => Listed(k)'
      BY <1>0, <1>a, <1>1, <3>1, <3>2, <3>3, <3>4 DEF Listed
    <3> QED BY <3>5, <3>6
  <2> QED BY <2>1, <2>2, <2>3, <2>4
<1>5. ShowsListed
  BY <1>4 DEF ShowsListed
<1>6. StoresDrawn
  <2>1. nextId' = nextId /\ nextId' # nextId + 1
    BY <1>0, <1>1
  <2> QED BY <1>1, <2>1 DEF StoresDrawn, Drawn
<1>7. NamesDrawn
  BY <1>1 DEF NamesDrawn, Names, failedVars
<1>8. SparesHidden
  BY <1>1 DEF SparesHidden
<1> QED BY <1>1, <1>2, <1>3, <1>4, <1>5, <1>6, <1>7, <1>8 DEF KeyFrame

\* A worker learns the job of a key from its envelope.
LEMMA LoadFrame ==
    ASSUME Keyed, NEW w \in Workers, LoadPopped(w), HasEnvelope(rec[w].id)
    PROVE  /\ KeyFrame /\ KeepsStored /\ Apart(w)
           /\ UNCHANGED <<failedVars, keyVars, callVars>>
           /\ rec[w].id \in Ids /\ rec'[w].id = rec[w].id
           /\ rec'[w].job = envelopes[rec[w].id].job
           /\ rec'[w].attempts = envelopes[rec[w].id].attempts
           /\ pc'[w] = "saving"
<1> USE DEF Named, Popping, Working, Failed, Down
<1>0. /\ pc \in [Workers -> {"idle"} \cup Popping \cup Working \cup Down]
      /\ rec \in [Workers -> Record] /\ HandOK(w) /\ nextId \in Nat
  BY HandFacts DEF Keyed, Typed, TypeOK
<1>1. /\ UNCHANGED <<failedVars, keyVars, callVars>>
      /\ pc[w] = "loading" /\ pc' = [pc EXCEPT ![w] = "saving"]
      /\ rec' = [rec EXCEPT ![w].job = envelopes[rec[w].id].job,
                            ![w].attempts = envelopes[rec[w].id].attempts]
  BY DEF LoadPopped, Goto
<1>2. /\ rec[w].id \in Ids /\ rec'[w].id = rec[w].id
      /\ rec'[w].job = envelopes[rec[w].id].job
      /\ rec'[w].attempts = envelopes[rec[w].id].attempts
      /\ pc'[w] = "saving"
      /\ \A x \in Workers \ {w} : pc'[x] = pc[x] /\ rec'[x] = rec[x]
  BY <1>0, <1>1 DEF Record, HandOK, Holding
<1>3. Apart(w)
  BY <1>1, <1>2 DEF Apart, failedVars
<1>4. KeepsStored
  BY <1>1, <1>3, WorkerKeeps DEF callVars
<1>5. ShowsListed
  <2>1. UNCHANGED <<ready, delayed, todo>> /\ \A x \in Workers : rec'[x].id = rec[x].id
    BY <1>1, <1>2 DEF keyVars, callVars
  <2> QED BY <2>1 DEF ShowsListed, Visible, Listed, InReady
<1>6. StoresDrawn
  <2>1. nextId' = nextId /\ nextId' # nextId + 1
    BY <1>0, <1>1 DEF keyVars
  <2> QED BY <1>1, <2>1 DEF StoresDrawn, Drawn, callVars
<1>7. NamesDrawn
  <2>1. envelopes' = envelopes /\ failed' = failed
    BY <1>1 DEF failedVars, keyVars
  <2>2. ASSUME NEW i \in Ids, NEW j \in Jobs, NEW x \in Workers,
               pc'[x] \in Named, rec'[x].id = i, rec'[x].job = j
        PROVE  Names(i, j)
    BY <1>2, <2>2 DEF Names
  <2>3. \A i \in Ids, j \in Jobs : Names(i, j)' => Names(i, j)
    BY <2>1, <2>2 DEF Names
  <2> QED BY <2>1, <2>3 DEF NamesDrawn
<1>8. SparesHidden
  BY <1>1 DEF SparesHidden, keyVars
<1> QED BY <1>1, <1>2, <1>3, <1>4, <1>5, <1>6, <1>7, <1>8 DEF KeyFrame

LEMMA RecordFailedFrame ==
    ASSUME Keyed, NEW w \in Workers, RecordFailed(w)
    PROVE  /\ KeyFrame /\ KeepsStored /\ Apart(w)
           /\ UNCHANGED <<rec, envelopes, ready, delayed, orphaned, accepted, done, forgotten>>
           /\ pc'[w] = "burying"
           /\ rec[w].id \in Ids /\ rec[w].job \in Jobs /\ rec[w].id < nextId
           /\ nextId \in Ids /\ nextId' = nextId + 1
           /\ failed' = [failed EXCEPT ![nextId] = rec[w].job] /\ failed[nextId] = NoJob
<1> USE DEF Named, Popping, Working, Failed, Down
<1>0. /\ pc \in [Workers -> {"idle"} \cup Popping \cup Working \cup Down]
      /\ HandOK(w) /\ nextId \in 1 .. MaxId + 1 /\ w \in Pushers
      /\ stored \in [Pushers -> Ids \cup {0}] /\ failed \in [Ids -> Jobs \cup {NoJob}]
  BY HandFacts DEF Keyed, Typed, TypeOK, Pushers
<1>1. /\ UNCHANGED <<rec, op, envelopes, ready, delayed, todo, stored>>
      /\ UNCHANGED <<orphaned, accepted, done, forgotten>>
      /\ pc[w] = "recording" /\ pc' = [pc EXCEPT ![w] = "burying"]
      /\ nextId \in Ids /\ nextId' = nextId + 1
      /\ failed' = [failed EXCEPT ![nextId] = rec[w].job]
  BY <1>0 DEF RecordFailed, InsertFailed, Goto, callVars, Ids
<1>2. Apart(w)
  BY <1>0, <1>1 DEF Apart
<1>3. KeepsStored
  BY <1>1, <1>2, WorkerKeeps
<1>4. ShowsListed
  BY <1>1 DEF ShowsListed, Visible, Listed, InReady
<1>5. StoresDrawn
  <2>1. \A p \in Pushers : stored[p] # nextId
    BY <1>0, <1>1 DEF Keyed, Fresh, Ids
  <2> QED BY <1>1, <2>1 DEF StoresDrawn, Drawn
<1>6. NamesDrawn
  BY <1>0, <1>1 DEF NamesDrawn, Names, Drawn
<1>7. SparesHidden
  BY <1>1 DEF SparesHidden
<1>8. rec[w].id \in Ids /\ rec[w].job \in Jobs
  BY <1>0, <1>1 DEF HandOK, Holding
<1>9. rec[w].id < nextId
  BY <1>8 DEF Keyed, Fresh, Visible, Listed
<1>10. failed[nextId] = NoJob
  BY <1>0, <1>1 DEF Keyed, Fresh, Ids
<1> QED
  BY <1>0, <1>1, <1>2, <1>3, <1>4, <1>5, <1>6, <1>7, <1>8, <1>9, <1>10 DEF KeyFrame

----------------------------------------------------------------------------
(* Pushes, operators, and everybody else *)

LEMMA StoreKeyed ==
    ASSUME Keyed, Typed', NEW p \in Pushers, NEW j \in Jobs \cup {NoJob}, StoreNew(p, j),
           UNCHANGED <<pc, rec, op, failed, ready, delayed, todo>>,
           p \in Producers => j \in Heads,
           p \in Workers => pc[p] = "chaining" /\ j = NextLink[rec[p].job],
           p \in Operators => op[p].step = "found" /\ j = op[p].job
    PROVE  Keyed'
<1>1. KeyFrame
  BY StoreFrame
<1>2. Fresh' /\ Hidden' /\ OneName'
  BY <1>1, KeysKept
<1>3. /\ nextId \in Ids /\ stored[p] = 0 /\ stored' = [stored EXCEPT ![p] = nextId]
      /\ envelopes'[nextId].job = j /\ stored \in [Pushers -> Ids \cup {0}]
  BY StoreTyped DEF Keyed, Typed, TypeOK
<1>4. stored'[p] = nextId /\ \A q \in Pushers \ {p} : stored'[q] = stored[q]
  BY <1>3
<1>5. StoredJobs'
  <2> SUFFICES ASSUME NEW q \in Producers, stored'[q] # 0
               PROVE  envelopes'[stored'[q]].job \in Heads
    BY DEF StoredJobs
  <2>1. CASE q = p
    BY <1>3, <1>4, <2>1
  <2>2. CASE q # p
    BY <1>1, <1>4, <2>2, StoredKept DEF Pushers, Keyed, StoredJobs
  <2> QED BY <2>1, <2>2
<1>6. ASSUME NEW w \in Workers PROVE StoredLink(w)'
  <2>1. CASE w = p
    BY <1>3, <1>4, <2>1 DEF StoredLink
  <2>2. CASE w # p
    BY <1>1, <1>4, <2>2, StoredKept DEF Pushers, Keyed, StoredLink
  <2> QED BY <2>1, <2>2
<1>7. ASSUME NEW o \in Operators PROVE StoredRetry(o)'
  <2>1. CASE o = p
    <3>1. op[o].id < nextId
      BY <2>1 DEF Keyed, Retrying
    <3> QED BY <1>3, <1>4, <2>1, <3>1 DEF StoredRetry
  <2>2. CASE o # p
    BY <1>1, <1>4, <2>2, StoredKept DEF Pushers, Keyed, StoredRetry
  <2> QED BY <2>1, <2>2
<1>8. \A o \in Operators : Retrying(o)'
  BY <1>1, RetryingKept
<1> QED BY <1>2, <1>5, <1>6, <1>7, <1>8 DEF Keyed

LEMMA WorkersKeyed ==
    ASSUME Keyed, Typed', NEW w \in Workers, WorkerStep(w) \/ Disturb(w)
    PROVE  Keyed'
<1>0. w \in Pushers
  BY DEF Pushers
<1>1. CASE StoreLink(w)
  <2>1. rec[w].job \in Jobs /\ NextLink[rec[w].job] \in Jobs \cup {NoJob}
    BY <1>1, HandFacts DEF StoreLink, HandOK, Named, Working, Keyed
  <2>2. w \notin Producers /\ w \notin Operators
    OBVIOUS
  <2>3. UNCHANGED <<pc, rec, op, failed, ready, delayed, todo>>
    BY <1>1 DEF StoreLink, procVars, failedVars
  <2>4. pc[w] = "chaining" /\ StoreNew(w, NextLink[rec[w].job])
    BY <1>1 DEF StoreLink
  <2> QED BY <1>0, <2>1, <2>2, <2>3, <2>4, StoreKeyed
<1>2. CASE ListLink(w)
  <2>1. /\ stored[w] # 0 /\ stored' = [stored EXCEPT ![w] = 0] /\ LPush(stored[w])
        /\ UNCHANGED <<envelopes, failed, op, todo, rec, nextId, delayed>>
        /\ pc[w] = "chaining" /\ pc' = [pc EXCEPT ![w] = "deleting"]
    BY <1>2 DEF ListLink, List, Goto, failedVars
  <2>2. /\ pc \in [Workers -> {"idle"} \cup Popping \cup Working \cup Down]
        /\ stored \in [Pushers -> Ids \cup {0}]
    BY DEF Keyed, Typed, TypeOK
  <2>3. \A x \in Workers : pc'[x] \in Named => pc[x] \in Named
    BY <2>1, <2>2 DEF Named, Working
  <2>4. KeyFrame
    BY <1>0, <2>1, <2>3, ListFrame
  <2>5. Apart(w)
    BY <2>1, <2>2 DEF Apart
  <2>6. KeepsStored
    BY <1>0, <2>1, <2>2, <2>5, WorkerKeeps
  <2> QED BY <2>1, <2>4, <2>6, KeyedKept
<1>3. CASE \/ LoopStep(w) \/ Disturb(w) \/ CallFails(w) \/ PopFails(w)
           \/ Scan(w) \/ SavePopped(w) \/ Reserve(w)
           \/ PopReady(w) /\ ready = <<>>
           \/ LoadPopped(w) /\ ~HasEnvelope(rec[w].id)
           \/ DeleteLoad(w) \/ DeleteKey(w) \/ DeleteReserved(w) \/ DeleteDelayed(w)
           \/ ReleaseLoad(w) \/ ReleaseSave(w) \/ ReleaseReserved(w)
  <2>1. QuietKeys /\ KeepsStored /\ Apart(w)
    BY <1>3, QuietLoop, QuietPop, QuietCalls
  <2>2. KeyFrame
    BY <2>1, QuietFrame DEF Keyed
  <2> QED BY <2>1, <2>2, KeyedKept DEF Apart
<1>4. CASE \/ PromoteRemove(w) \/ PromotePush(w) \/ ReleaseDelay(w)
           \/ PopReady(w) /\ ready # <<>>
           \/ LoadPopped(w) /\ HasEnvelope(rec[w].id)
           \/ RecordFailed(w)
  <2>1. KeyFrame /\ KeepsStored /\ Apart(w)
    BY <1>4, MovingSteps, LoadFrame, RecordFailedFrame
  <2> QED BY <2>1, KeyedKept DEF Apart
<1> QED BY <1>1, <1>2, <1>3, <1>4 DEF WorkerStep

LEMMA OperatorsKeyed ==
    ASSUME Keyed, Typed', NEW o \in Operators, OperatorStep(o)
    PROVE  Keyed'
<1>0. /\ o \in Pushers /\ op[o] \in Retry /\ op \in [Operators -> Retry] /\ Retrying(o)
      /\ stored \in [Pushers -> Ids \cup {0}] /\ StoredRetry(o)
      /\ failed \in [Ids -> Jobs \cup {NoJob}]
  BY DEF Keyed, Typed, TypeOK, Pushers
<1>1. CASE RetryStore(o)
  <2>1. op[o].job \in Jobs \cup {NoJob}
    BY <1>0 DEF Retry
  <2>2. o \notin Producers /\ o \notin Workers
    OBVIOUS
  <2>3. UNCHANGED <<pc, rec, op, failed, ready, delayed, todo>>
    BY <1>1 DEF RetryStore, procVars, failedVars
  <2>4. op[o].step = "found" /\ StoreNew(o, op[o].job)
    BY <1>1 DEF RetryStore
  <2> QED BY <1>0, <2>1, <2>2, <2>3, <2>4, StoreKeyed
<1>2. CASE RetryList(o)
  <2>1. /\ stored[o] # 0 /\ stored' = [stored EXCEPT ![o] = 0] /\ LPush(stored[o])
        /\ UNCHANGED <<envelopes, failed, todo, rec, nextId, delayed, pc>>
        /\ op[o].step = "found" /\ op' = [op EXCEPT ![o].step = "pushed"]
    BY <1>2 DEF RetryList, RetryPushed, List, procVars
  <2>2. /\ op'[o].id = op[o].id /\ op'[o].job = op[o].job /\ op'[o].step = "pushed"
        /\ \A x \in Operators \ {o} : op'[x] = op[x]
    BY <1>0, <2>1 DEF Retry
  <2>3. KeyFrame
    BY <1>0, <2>1, ListFrame
  <2>4. KeepsStored
    BY <1>0, <2>1, <2>2 DEF KeepsStored
  <2>5. Retrying(o)'
    BY <1>0, <2>1, <2>2 DEF Retrying
  <2> QED BY <2>2, <2>3, <2>4, <2>5, KeyedKept
<1>3. CASE RetryStops(o)
  <2>1. /\ stored' = [stored EXCEPT ![o] = 0] /\ op' = [op EXCEPT ![o] = NoRetry]
        /\ UNCHANGED <<pc, rec, failed, keyVars, todo>>
    BY <1>3 DEF RetryStops, RetryKilled, procVars
  <2>2. stored'[o] = 0 /\ op'[o] = NoRetry /\ \A x \in Operators \ {o} : op'[x] = op[x]
    BY <1>0, <2>1
  <2>3. KeepsStored
    BY <1>0, <2>1, <2>2 DEF KeepsStored
  <2>4. QuietKeys
    BY <2>1 DEF QuietKeys, keyVars
  <2>5. KeyFrame
    BY <2>3, <2>4, QuietFrame DEF Keyed
  <2> QED BY <2>2, <2>3, <2>5, KeyedKept DEF Retrying, NoRetry
<1>4. CASE RetryFind(o) /\ UNCHANGED <<procVars, keyVars, callVars>>
  <2>1. PICK i \in Ids : /\ failed[i] # NoJob
          /\ op' = [op EXCEPT ![o] = [step |-> "found", id |-> i, job |-> failed[i]]]
    BY <1>4 DEF RetryFind
  <2>2. /\ UNCHANGED <<pc, rec, failed, keyVars, callVars>> /\ stored[o] = 0
        /\ op'[o] = [step |-> "found", id |-> i, job |-> failed[i]]
        /\ \A x \in Operators \ {o} : op'[x] = op[x]
    BY <1>0, <1>4, <2>1 DEF RetryFind, StoredRetry, procVars
  <2>3. KeepsStored
    BY <1>0, <2>2 DEF KeepsStored, callVars
  <2>4. QuietKeys
    BY <2>2 DEF QuietKeys, keyVars, callVars
  <2>5. KeyFrame
    BY <2>3, <2>4, QuietFrame DEF Keyed
  <2>6. i < nextId /\ failed[i] \in Jobs
    BY <1>0, <2>1 DEF Keyed, Fresh
  <2>7. Retrying(o)'
    BY <2>2, <2>6 DEF Retrying, keyVars
  <2> QED BY <2>2, <2>3, <2>5, <2>7, KeyedKept
<1>5. CASE RetryDelete(o) /\ UNCHANGED <<procVars, keyVars, callVars>>
  <2>1. /\ UNCHANGED <<pc, rec, keyVars, callVars>> /\ stored[o] = 0
        /\ op'[o] = NoRetry
        /\ \A x \in Operators \ {o} : op'[x] = op[x]
        /\ \A i \in Ids : failed'[i] \in {failed[i], NoJob}
    BY <1>0, <1>5 DEF RetryDelete, DeleteFailed, StoredRetry, procVars
  <2>2. KeepsStored
    BY <1>0, <2>1 DEF KeepsStored, callVars
  <2>3. QuietKeys
    BY <2>1 DEF QuietKeys, keyVars, callVars
  <2>4. KeyFrame
    BY <2>2, <2>3, QuietFrame DEF Keyed
  <2> QED BY <2>1, <2>2, <2>4, KeyedKept DEF Retrying, NoRetry
<1> QED BY <1>1, <1>2, <1>3, <1>4, <1>5 DEF OperatorStep

LEMMA OutsideKeyed ==
    ASSUME Keyed, Typed',
           \/ \E p \in Producers : Produce(p)
           \/ \E i \in Ids : BecomesDue(i) \/ ForgetFailed(i)
           \/ UNCHANGED vars
    PROVE  Keyed'
<1>0. Producers \subseteq Pushers /\ stored \in [Pushers -> Ids \cup {0}]
  BY DEF Keyed, Typed, TypeOK, Pushers
<1>1. ASSUME NEW p \in Producers, NEW j \in Jobs, DispatchStore(p, j) PROVE Keyed'
  <2>1. p \notin Operators /\ p \notin Workers
    OBVIOUS
  <2>2. UNCHANGED <<pc, rec, op, failed, ready, delayed, todo>>
    BY <1>1 DEF DispatchStore, procVars, failedVars
  <2>3. StoreNew(p, j) /\ j \in Heads
    BY <1>1 DEF DispatchStore
  <2> QED BY <1>0, <2>1, <2>2, <2>3, StoreKeyed
<1>2. ASSUME NEW p \in Producers, DispatchReady(p) \/ DispatchLater(p) PROVE Keyed'
  <2>1. /\ stored[p] # 0 /\ stored' = [stored EXCEPT ![p] = 0]
        /\ UNCHANGED <<envelopes, failed, op, todo, rec, nextId, pc>>
        /\ \/ LPush(stored[p]) /\ delayed' = delayed
           \/ ZAddDelayed(stored[p]) /\ ready' = ready
    BY <1>2 DEF DispatchReady, DispatchLater, List, failedVars
  <2>2. KeyFrame
    BY <1>0, <2>1, ListFrame
  <2>3. KeepsStored
    BY <1>0, <2>1 DEF KeepsStored
  <2> QED BY <2>1, <2>2, <2>3, KeyedKept
<1>3. ASSUME \/ \E i \in Ids : BecomesDue(i) \/ ForgetFailed(i)
             \/ UNCHANGED vars
      PROVE  Keyed'
  <2>1. /\ UNCHANGED <<pc, rec, op, envelopes, ready, delayed, todo, stored, nextId>>
        /\ \A i \in Ids : failed'[i] \in {failed[i], NoJob}
    <3>1. failed \in [Ids -> Jobs \cup {NoJob}]
      BY DEF Keyed, Typed, TypeOK
    <3> QED BY <1>3, <3>1 DEF BecomesDue, ForgetFailed, Forget, DeleteFailed, vars, procVars,
                              failedVars, keyVars, callVars
  <2>2. KeepsStored
    BY <2>1 DEF KeepsStored
  <2>3. QuietKeys
    BY <2>1 DEF QuietKeys
  <2>4. KeyFrame
    BY <2>2, <2>3, QuietFrame DEF Keyed
  <2> QED BY <2>1, <2>2, <2>4, KeyedKept
<1> QED BY <1>1, <1>2, <1>3 DEF Produce

LEMMA StepKeyed ==
    ASSUME Keyed, [Next]_vars
    PROVE  Keyed'
<1>1. Typed'
  BY StepTyped DEF Keyed
<1> QED BY <1>1, WorkersKeyed, OperatorsKeyed, OutsideKeyed DEF Next

(***************************************************************************)
(* Every variable keeps its type, however the commands of the calls        *)
(* interleave: what a producer lists is the envelope of a job, because a   *)
(* key that is not listed yet is touched by nobody else.                   *)
(***************************************************************************)
THEOREM RedisTyped == Spec => []TypeOK
<1>1. Keyed => TypeOK
  BY DEF Keyed, Typed
<1> QED BY <1>1, InitKeyed, StepKeyed, PTL DEF Spec

----------------------------------------------------------------------------
(***************************************************************************)
(* No job is stranded.                                                     *)
(*                                                                         *)
(* An envelope counts only while its key is listed, in hand or lost by a   *)
(* kill: then the job is kept. NoJobStranded is not inductive, because a   *)
(* worker deletes, or takes out of the delayed set, a key that another one *)
(* has put back meanwhile. Safe adds that whoever gives up a key knows the *)
(* job settled, or kept under a later key.                                 *)
(***************************************************************************)
Kept(i, j) ==
    \/ failed[i] = j
    \/ envelopes[i].job = j /\ (Listed(i) \/ i \in orphaned)

CoveredAfter(i, j) == Settled(j) \/ \E k \in Ids : k > i /\ Kept(k, j)

WorkerSecured(w) ==
    /\ pc[w] = "chaining" => rec[w].job \in done
    /\ pc[w] = "deleting" => Settled(rec[w].job)
    /\ pc[w] = "burying" => CoveredAfter(rec[w].id, rec[w].job)

OperatorSecured(o) == op[o].step = "pushed" => CoveredAfter(op[o].id, op[o].job)

AcceptedKept == \A j \in accepted : Settled(j) \/ \E i \in Ids : Kept(i, j)

Safe ==
    /\ Keyed
    /\ \A w \in Workers : WorkerSecured(w)
    /\ \A o \in Operators : OperatorSecured(o)
    /\ AcceptedKept

LEMMA InitSafe == Init => Safe
<1> SUFFICES ASSUME Init PROVE Safe
  OBVIOUS
<1>1. Keyed
  BY InitKeyed
<1>2. \A w \in Workers : WorkerSecured(w)
  BY DEF Init, ProcInit, WorkerSecured
<1>3. \A o \in Operators : OperatorSecured(o)
  BY DEF Init, FailedInit, NoRetry, OperatorSecured
<1>4. AcceptedKept
  BY DEF Init, ProcInit, AcceptedKept
<1> QED BY <1>1, <1>2, <1>3, <1>4 DEF Safe

Grows == done \subseteq done' /\ accepted \subseteq accepted' /\ forgotten \subseteq forgotten'

\* A job stays kept under its key, or under a later one, or is settled.
Moves == \A j \in Jobs, i \in Ids : Kept(i, j) => Kept(i, j)' \/ CoveredAfter(i, j)'

LEMMA SettledStable ==
    ASSUME Grows, NEW j, Settled(j)
    PROVE  Settled(j)'
BY DEF Grows, Settled, HasNext

LEMMA CoverStable ==
    ASSUME Grows, Moves, NEW j \in Jobs, NEW i \in Ids, CoveredAfter(i, j)
    PROVE  CoveredAfter(i, j)'
<1>1. CASE Settled(j)
  BY <1>1, SettledStable DEF CoveredAfter
<1>2. ASSUME NEW k \in Ids, k > i, Kept(k, j)
      PROVE  CoveredAfter(i, j)'
  <2>1. Kept(k, j)' \/ CoveredAfter(k, j)'
    BY <1>2 DEF Moves
  <2> QED BY <1>2, <2>1 DEF CoveredAfter, Ids
<1> QED BY <1>1, <1>2 DEF CoveredAfter

\* A step that gives up one key, whose job is covered or settled by now.
LEMMA GivesUp ==
    ASSUME Grows, NEW h \in Ids,
           \A j \in Jobs, i \in Ids \ {h} : Kept(i, j) => Kept(i, j)',
           \A j \in Jobs : Kept(h, j) => Kept(h, j)' \/ CoveredAfter(h, j) \/ Settled(j)'
    PROVE  Moves
<1> SUFFICES ASSUME NEW j \in Jobs, Kept(h, j), CoveredAfter(h, j)
             PROVE  CoveredAfter(h, j)'
  BY DEF Moves, CoveredAfter
<1>1. CASE Settled(j)
  BY <1>1, SettledStable DEF CoveredAfter
<1>2. ASSUME NEW k \in Ids, k > h, Kept(k, j) PROVE CoveredAfter(h, j)'
  <2>1. k # h
    BY <1>2 DEF Ids
  <2> QED BY <1>2, <2>1 DEF CoveredAfter
<1> QED BY <1>1, <1>2 DEF CoveredAfter

\* A step that gives up none.
LEMMA KeepsAll ==
    ASSUME failed' = failed, orphaned \subseteq orphaned',
           \A i \in Ids : envelopes[i].job \in Jobs =>
               /\ envelopes'[i].job = envelopes[i].job
               /\ Listed(i) => Listed(i)' \/ i \in orphaned'
    PROVE  Moves
BY DEF Moves, Kept

LEMMA AcceptedKeptStep ==
    ASSUME AcceptedKept, Grows, Moves, accepted \subseteq Jobs,
           \A j \in accepted' \ accepted : \E i \in Ids : Kept(i, j)'
    PROVE  AcceptedKept'
<1> SUFFICES ASSUME NEW j \in accepted', j \in accepted
             PROVE  Settled(j)' \/ \E i \in Ids : Kept(i, j)'
  BY DEF AcceptedKept
<1>1. CASE Settled(j)
  BY <1>1, SettledStable
<1>2. ASSUME NEW i \in Ids, Kept(i, j)
      PROVE  Settled(j)' \/ \E k \in Ids : Kept(k, j)'
  BY <1>2 DEF Moves, CoveredAfter
<1> QED BY <1>1, <1>2 DEF AcceptedKept

LEMMA BystandingWorker ==
    ASSUME Safe, Grows, Moves, NEW w \in Workers, pc'[w] = pc[w], rec'[w] = rec[w]
    PROVE  WorkerSecured(w)'
<1>1. pc[w] \in Working => rec[w].id \in Ids /\ rec[w].job \in Jobs
  BY HandFacts DEF Safe, Keyed, HandOK, Holding, Named
<1>2. pc[w] = "chaining" => rec'[w].job \in done'
  BY DEF Safe, WorkerSecured, Grows
<1>3. ASSUME pc[w] = "deleting" PROVE Settled(rec[w].job)'
  <2>1. PICK x : x = rec[w].job
    OBVIOUS
  <2>2. Settled(x)'
    BY <1>3, <2>1, SettledStable DEF Safe, WorkerSecured
  <2> QED BY <2>1, <2>2 DEF Settled, HasNext
<1>4. ASSUME pc[w] = "burying" PROVE CoveredAfter(rec[w].id, rec[w].job)'
  <2>1. PICK x \in Jobs, y \in Ids : x = rec[w].job /\ y = rec[w].id
    BY <1>1, <1>4 DEF Working
  <2>2. CoveredAfter(y, x)'
    BY <1>4, <2>1, CoverStable DEF Safe, WorkerSecured
  <2> QED BY <2>1, <2>2 DEF CoveredAfter, Settled, HasNext, Kept
<1> QED BY <1>2, <1>3, <1>4 DEF WorkerSecured

LEMMA BystandingOperator ==
    ASSUME Safe, Grows, Moves, NEW o \in Operators, op'[o] = op[o]
    PROVE  OperatorSecured(o)'
<1> SUFFICES ASSUME op[o].step = "pushed" PROVE CoveredAfter(op[o].id, op[o].job)'
  BY DEF OperatorSecured
<1>1. PICK x \in Jobs, y \in Ids : x = op[o].job /\ y = op[o].id
  BY DEF Safe, Keyed, Retrying
<1>2. CoveredAfter(y, x)'
  BY <1>1, CoverStable DEF Safe, OperatorSecured
<1> QED BY <1>1, <1>2 DEF CoveredAfter, Settled, HasNext, Kept

----------------------------------------------------------------------------
\* What a step of w has to establish; everybody else is a bystander.
Advances(w) ==
    /\ Grows /\ Moves /\ Apart(w)
    /\ WorkerSecured(w)'
    /\ \A j \in accepted' \ accepted : \E i \in Ids : Kept(i, j)'

\* The key in hand names the job in hand, or nothing any more.
LEMMA KeyInHand ==
    ASSUME Keyed, NEW w \in Workers, pc[w] \in Named
    PROVE  /\ rec[w].id \in Ids /\ rec[w].job \in Jobs
           /\ envelopes[rec[w].id].job \in {rec[w].job, NoJob}
<1>1. rec[w].id \in Ids /\ rec[w].job \in Jobs
  BY HandFacts DEF Keyed, HandOK, Holding
<1>2. PICK i \in Ids, j \in Jobs : i = rec[w].id /\ j = rec[w].job
  BY <1>1
<1>3. Names(i, j)
  BY <1>2 DEF Names
<1>4. envelopes[i].job \in Jobs \cup {NoJob}
  BY DEF Keyed, Typed, TypeOK, Envelope
<1>5. envelopes[i].job \in Jobs => envelopes[i].job = j
  BY <1>3 DEF Keyed, OneName, Names
<1> QED BY <1>1, <1>2, <1>4, <1>5

LEMMA LoopSafe ==
    ASSUME Safe, NEW w \in Workers,
           LoopStep(w) \/ Disturb(w) \/ CallFails(w) \/ PopFails(w)
    PROVE  Advances(w)
<1> USE DEF Named, Popping, Working, Failed, Down
<1>0. /\ pc \in [Workers -> {"idle"} \cup Popping \cup Working \cup Down]
      /\ rec \in [Workers -> Record] /\ HandOK(w)
      /\ Keyed /\ WorkerSecured(w)
  BY HandFacts DEF Safe, Keyed, Typed, TypeOK
<1>1. Apart(w)
  BY <1>0, QuietLoop
<1>2. UNCHANGED <<failedVars, keyVars>> /\ Grows /\ accepted' = accepted /\ orphaned \subseteq orphaned'
  BY DEF LoopStep, Disturb, CallFails, PopFails, Kill, HandleSucceeds, HandleFails, Exit,
         Shutdown, Restart, Crash, StepFails, Grows, failedVars, procVars
<1>3. \A k : InReady(k)' <=> InReady(k)
  BY <1>2 DEF InReady, keyVars
<1>4. CASE PopFails(w) \/ Kill(w)
  <2>1. /\ orphaned' = orphaned \cup InHand(w) /\ pc'[w] \in {"idle", "crashed"}
        /\ \A x \in Workers \ {w} : rec'[x] = rec[x]
    BY <1>0, <1>4 DEF PopFails, Kill, Crash, NextJob, Goto
  <2>2. \A i \in Ids : Listed(i) => Listed(i)' \/ i \in orphaned'
    BY <1>2, <1>3, <2>1 DEF Listed, InHand, keyVars, Ids
  <2>3. Moves
    BY <1>2, <2>2, KeepsAll DEF failedVars, keyVars
  <2>4. WorkerSecured(w)'
    BY <2>1 DEF WorkerSecured
  <2> QED BY <1>1, <1>2, <2>3, <2>4 DEF Advances
<1>5. CASE ~(PopFails(w) \/ Kill(w))
  <2>1. rec' = rec /\ orphaned' = orphaned
    BY <1>5 DEF LoopStep, Disturb, CallFails, HandleSucceeds, HandleFails, Exit, Shutdown,
                Restart, StepFails
  <2>2. \A i : Listed(i) => Listed(i)'
    BY <1>2, <1>3, <2>1 DEF Listed, keyVars
  <2>3. Moves
    BY <1>2, <2>2, KeepsAll DEF failedVars, keyVars
  <2>4. WorkerSecured(w)'
    <3>1. CASE HandleSucceeds(w)
      <4>1. /\ done' = done \cup {rec[w].job} /\ pc'[w] \in {"chaining", "deleting"}
            /\ pc'[w] = "deleting" => ~HasNext(rec[w].job)
        BY <1>0, <3>1 DEF HandleSucceeds, Goto
      <4> QED BY <2>1, <4>1 DEF WorkerSecured, Settled, HasNext
    <3>2. CASE HandleFails(w) \/ CallFails(w) \/ Exit(w) \/ Restart(w)
      <4>1. pc'[w] \in {"recording", "releasing", "stopped", "idle"}
        BY <1>0, <3>2 DEF HandleFails, CallFails, StepFails, Catch, Exit, Restart, Goto
      <4> QED BY <4>1 DEF WorkerSecured
    <3>3. CASE Shutdown(w)
      <4>1. pc' = pc
        BY <3>3 DEF Shutdown
      <4> QED BY <1>2, <2>1, <2>3, <4>1, BystandingWorker
    <3> QED BY <1>5, <3>1, <3>2, <3>3 DEF LoopStep, Disturb
  <2> QED BY <1>1, <1>2, <2>3, <2>4 DEF Advances
<1> QED BY <1>4, <1>5

LEMMA PopSafe ==
    ASSUME Safe, NEW w \in Workers,
           \/ Scan(w) \/ PromoteRemove(w) \/ PromotePush(w) \/ PopReady(w)
           \/ LoadPopped(w) \/ SavePopped(w) \/ Reserve(w) \/ ReleaseDelay(w)
    PROVE  Advances(w)
<1> USE DEF Named, Popping, Working, Failed, Down
<1>0. /\ pc \in [Workers -> {"idle"} \cup Popping \cup Working \cup Down]
      /\ rec \in [Workers -> Record] /\ HandOK(w) /\ Keyed
      /\ envelopes \in [Ids -> Envelope]
  BY HandFacts DEF Safe, Keyed, Typed, TypeOK
<1>1. Apart(w)
  BY <1>0, QuietPop, MovingSteps, LoadFrame
<1>2. Grows /\ accepted' = accepted /\ orphaned' = orphaned /\ UNCHANGED failedVars
  BY DEF Scan, PromoteRemove, PromotePush, PopReady, LoadPopped, SavePopped, Reserve, ReleaseDelay,
         Grows, failedVars
<1>3. WorkerSecured(w)'
  <2>1. pc'[w] \notin {"chaining", "deleting", "burying"}
    BY <1>0 DEF Scan, PromoteRemove, PromotePush, PopReady, LoadPopped, SavePopped, Reserve,
                ReleaseDelay, NextJob, Goto
  <2> QED BY <2>1 DEF WorkerSecured
<1>4. CASE PromoteRemove(w) \/ PromotePush(w) \/ ReleaseDelay(w) \/ (PopReady(w) /\ ready # <<>>)
  <2>1. envelopes' = envelopes /\ \A i \in Ids : Listed(i) => Listed(i)'
    BY <1>0, <1>4, MovingSteps
  <2>2. Moves
    BY <1>2, <2>1, KeepsAll DEF failedVars
  <2> QED BY <1>1, <1>2, <1>3, <2>2 DEF Advances
<1>5. CASE \/ Scan(w) \/ Reserve(w) \/ LoadPopped(w) \/ (PopReady(w) /\ ready = <<>>)
  <2>1. /\ UNCHANGED <<envelopes, ready, delayed>>
        /\ \A x \in Workers \ {w} : rec'[x] = rec[x]
        /\ rec'[w].id = rec[w].id \/ envelopes[rec[w].id].job = NoJob \/ rec[w].id = 0
    <3>1. CASE Scan(w) \/ Reserve(w)
      BY <3>1 DEF Scan, Reserve, keyVars
    <3>2. CASE LoadPopped(w) /\ HasEnvelope(rec[w].id)
      BY <1>0, <1>1, <3>2, LoadFrame DEF Apart, keyVars
    <3>3. CASE LoadPopped(w) /\ ~HasEnvelope(rec[w].id)
      BY <1>1, <3>3 DEF LoadPopped, HasEnvelope, keyVars, Apart
    <3>4. CASE PopReady(w) /\ ready = <<>>
      BY <1>0, <1>1, <3>4 DEF PopReady, Apart, HandOK, Holding, NoRecord
    <3> QED BY <1>5, <3>1, <3>2, <3>3, <3>4
  <2>2. \A i : InReady(i)' <=> InReady(i)
    BY <2>1 DEF InReady
  <2>3. \A i \in Ids : envelopes[i].job \in Jobs /\ Listed(i) => Listed(i)'
    BY <2>1, <2>2 DEF Listed, Ids
  <2>4. Moves
    BY <1>2, <2>1, <2>3, KeepsAll DEF failedVars
  <2> QED BY <1>1, <1>2, <1>3, <2>4 DEF Advances
<1>6. CASE SavePopped(w)
  <2>1. rec[w].id \in Ids /\ envelopes[rec[w].id].job \in {rec[w].job, NoJob}
    BY <1>0, <1>6, KeyInHand DEF SavePopped
  <2>2. /\ envelopes' = [envelopes EXCEPT ![rec[w].id] = [job |-> rec[w].job, attempts |-> rec[w].attempts]]
        /\ UNCHANGED <<rec, ready, delayed>>
    BY <1>6 DEF SavePopped, SetEnvelope
  <2>3. \A i : Listed(i)' <=> Listed(i)
    BY <2>2 DEF Listed, InReady
  <2>4. \A i \in Ids : envelopes[i].job \in Jobs => envelopes'[i].job = envelopes[i].job
    BY <1>0, <2>1, <2>2
  <2>5. Moves
    BY <1>2, <2>3, <2>4, KeepsAll DEF failedVars
  <2> QED BY <1>1, <1>2, <1>3, <2>5 DEF Advances
<1> QED BY <1>4, <1>5, <1>6

\* Whoever deletes or buries its entry has the job settled, or kept later.
LEMMA DeleterCovered ==
    ASSUME Safe, NEW w \in Workers, pc[w] \in {"deleting", "burying"},
           NEW j \in Jobs, NEW h \in Ids, h = rec[w].id, envelopes[h].job = j
    PROVE  CoveredAfter(h, j)
<1>1. rec[w].job = j
  BY KeyInHand DEF Safe, Named, Working
<1> QED BY <1>1 DEF Safe, WorkerSecured, CoveredAfter

LEMMA DeleteSafe ==
    ASSUME Safe, NEW w \in Workers,
           DeleteLoad(w) \/ DeleteKey(w) \/ DeleteReserved(w) \/ DeleteDelayed(w)
    PROVE  Advances(w)
<1> USE DEF Named, Working, Failed
<1>0. /\ pc \in [Workers -> {"idle"} \cup Popping \cup Working \cup Down]
      /\ rec \in [Workers -> Record] /\ Keyed /\ envelopes \in [Ids -> Envelope]
      /\ pc[w] \in {"deleting", "burying"}
  BY DEF Safe, Keyed, Typed, TypeOK, DeleteLoad, DeleteKey, DeleteReserved, DeleteDelayed, Deleting
<1>1. Apart(w)
  BY <1>0, QuietCalls
<1>2. Grows /\ accepted' = accepted /\ UNCHANGED <<failedVars, orphaned, ready>>
  BY DEF DeleteLoad, DeleteKey, DeleteReserved, DeleteDelayed, Grows, procVars, failedVars, keyVars
<1>3. PICK h \in Ids : h = rec[w].id
  BY <1>0, KeyInHand
<1>4. /\ \A i \in Ids \ {h} : envelopes'[i] = envelopes[i] /\ (i \in delayed' <=> i \in delayed)
      /\ \A x \in Workers \ {w} : rec'[x] = rec[x]
      /\ rec'[w] \in {rec[w], NoRecord}
  BY <1>0, <1>3 DEF DeleteLoad, DeleteKey, DeleteReserved, DeleteDelayed, DelEnvelope, ZRemDelayed,
                    NextJob, procVars, keyVars
<1>5. \A i : InReady(i)' <=> InReady(i)
  BY <1>2 DEF InReady
<1>6. \A i \in Ids \ {h} : Listed(i) => Listed(i)'
  BY <1>3, <1>4, <1>5 DEF Listed
<1>7. \A j \in Jobs, i \in Ids \ {h} : Kept(i, j) => Kept(i, j)'
  BY <1>2, <1>4, <1>6 DEF Kept, failedVars
<1>8. \A j \in Jobs : Kept(h, j) => Kept(h, j)' \/ CoveredAfter(h, j)
  BY <1>0, <1>2, <1>3, DeleterCovered DEF Kept, failedVars
<1>9. Moves
  BY <1>2, <1>7, <1>8, GivesUp
<1>10. WorkerSecured(w)'
  <2>1. CASE pc'[w] = "idle"
    BY <2>1 DEF WorkerSecured
  <2>2. CASE pc' = pc /\ rec' = rec
    BY <1>2, <1>9, <2>2, BystandingWorker
  <2>3. pc'[w] = "idle" \/ (pc' = pc /\ rec' = rec)
    BY <1>0 DEF DeleteLoad, DeleteKey, DeleteReserved, DeleteDelayed, NextJob, Goto, procVars
  <2> QED BY <2>1, <2>2, <2>3
<1> QED BY <1>1, <1>2, <1>9, <1>10 DEF Advances

LEMMA ReleaseSafe ==
    ASSUME Safe, NEW w \in Workers,
           ReleaseLoad(w) \/ ReleaseSave(w) \/ ReleaseReserved(w)
    PROVE  Advances(w)
<1> USE DEF Named, Working, Failed
<1>0. /\ pc \in [Workers -> {"idle"} \cup Popping \cup Working \cup Down]
      /\ rec \in [Workers -> Record] /\ Keyed /\ envelopes \in [Ids -> Envelope]
      /\ pc[w] = "releasing"
  BY DEF Safe, Keyed, Typed, TypeOK, ReleaseLoad, ReleaseSave, ReleaseReserved, Releasing
<1>1. Apart(w)
  BY <1>0, QuietCalls
<1>2. Grows /\ accepted' = accepted /\ UNCHANGED <<failedVars, orphaned, ready, delayed>>
  BY DEF ReleaseLoad, ReleaseSave, ReleaseReserved, Grows, procVars, failedVars, keyVars
<1>3. /\ rec[w].id \in Ids /\ rec[w].job \in Jobs
      /\ envelopes[rec[w].id].job \in {rec[w].job, NoJob}
  BY <1>0, KeyInHand
<1>4. \A i \in Ids : envelopes[i].job \in Jobs => envelopes'[i].job = envelopes[i].job
  BY <1>0, <1>3 DEF ReleaseLoad, ReleaseSave, ReleaseReserved, SetEnvelope, keyVars
<1>5. /\ \A x \in Workers \ {w} : rec'[x] = rec[x]
      /\ rec'[w].id = rec[w].id \/ envelopes[rec[w].id].job = NoJob
  <2>1. CASE ReleaseLoad(w) /\ HasEnvelope(rec[w].id)
    BY <1>0, <2>1 DEF ReleaseLoad, Record
  <2>2. CASE ReleaseLoad(w) /\ ~HasEnvelope(rec[w].id)
    BY <1>0, <2>2 DEF ReleaseLoad, HasEnvelope, NextJob
  <2>3. CASE ReleaseSave(w) \/ ReleaseReserved(w)
    BY <2>3 DEF ReleaseSave, ReleaseReserved, procVars
  <2> QED BY <2>1, <2>2, <2>3
<1>6. \A i : InReady(i)' <=> InReady(i)
  BY <1>2 DEF InReady
<1>7. \A i \in Ids : envelopes[i].job \in Jobs /\ Listed(i) => Listed(i)'
  BY <1>2, <1>5, <1>6 DEF Listed
<1>8. Moves
  BY <1>2, <1>4, <1>7, KeepsAll DEF failedVars
<1>9. WorkerSecured(w)'
  <2>1. pc'[w] \in {"idle", "releasing"}
    BY <1>0 DEF ReleaseLoad, ReleaseSave, ReleaseReserved, NextJob, Goto, procVars
  <2> QED BY <2>1 DEF WorkerSecured
<1> QED BY <1>1, <1>2, <1>8, <1>9 DEF Advances

\* INCR and SET, by whatever process: nothing is given up.
LEMMA StoreMoves ==
    ASSUME Keyed, NEW p \in Pushers, NEW j \in Jobs \cup {NoJob}, StoreNew(p, j),
           UNCHANGED <<rec, ready, delayed, failed, orphaned>>
    PROVE  Moves
<1>1. /\ nextId \in Ids
      /\ \A i \in Ids \ {nextId} : envelopes'[i] = envelopes[i]
  BY StoreTyped DEF Keyed
<1>2. envelopes[nextId].job = NoJob
  BY <1>1 DEF Keyed, Fresh, Ids
<1>3. \A i : Listed(i)' <=> Listed(i)
  BY DEF Listed, InReady
<1> QED BY <1>1, <1>2, <1>3, KeepsAll

\* The end of a push: the job that was stored is kept now.
LEMMA ListMoves ==
    ASSUME Keyed, NEW p \in Pushers, stored[p] # 0,
           UNCHANGED <<rec, envelopes, failed, orphaned>>,
           \/ LPush(stored[p]) /\ delayed' = delayed
           \/ ZAddDelayed(stored[p]) /\ ready' = ready
    PROVE  /\ Moves
           /\ \E h \in Ids : /\ h = stored[p]
                            /\ \A j \in Jobs : envelopes[h].job = j => Kept(h, j)'
<1>1. PICK h \in Ids : h = stored[p]
  BY DEF Keyed, Typed, TypeOK
<1>2. \A i : Listed(i)' <=> i = h \/ Listed(i)
  <2>1. CASE LPush(stored[p]) /\ delayed' = delayed
    BY <1>1, <2>1, PushReady DEF Keyed, Typed, TypeOK, Listed
  <2>2. CASE ZAddDelayed(stored[p]) /\ ready' = ready
    <3>1. \A i : InReady(i)' <=> InReady(i)
      BY <2>2 DEF InReady
    <3> QED BY <1>1, <2>2, <3>1 DEF ZAddDelayed, Listed
  <2> QED BY <2>1, <2>2
<1>3. Moves
  BY <1>2, KeepsAll
<1>4. \A j \in Jobs : envelopes[h].job = j => Kept(h, j)'
  BY <1>2 DEF Kept
<1> QED BY <1>1, <1>3, <1>4

LEMMA PushSafe ==
    ASSUME Safe, NEW w \in Workers, StoreLink(w) \/ ListLink(w) \/ RecordFailed(w)
    PROVE  Advances(w)
<1> USE DEF Named, Working, Failed
<1>0. /\ pc \in [Workers -> {"idle"} \cup Popping \cup Working \cup Down]
      /\ Keyed /\ w \in Pushers /\ pc[w] \in {"chaining", "recording"}
  BY DEF Safe, Keyed, Typed, TypeOK, Pushers, StoreLink, ListLink, RecordFailed
<1>a. rec[w].id \in Ids /\ rec[w].job \in Jobs
  BY <1>0, KeyInHand
<1>1. CASE StoreLink(w)
  <2>1. NextLink[rec[w].job] \in Jobs \cup {NoJob} /\ StoreNew(w, NextLink[rec[w].job])
    BY <1>a, <1>1 DEF StoreLink
  <2>2. /\ UNCHANGED <<procVars, failedVars, ready, delayed>>
    BY <1>1 DEF StoreLink
  <2>3. Moves
    BY <1>0, <2>1, <2>2, StoreMoves DEF procVars, failedVars
  <2>4. Grows /\ Apart(w) /\ accepted' = accepted /\ pc' = pc /\ rec' = rec
    BY <2>2 DEF Grows, Apart, procVars, failedVars
  <2>5. WorkerSecured(w)'
    BY <2>3, <2>4, BystandingWorker
  <2> QED BY <2>3, <2>4, <2>5 DEF Advances
<1>2. CASE ListLink(w)
  <2>1. /\ stored[w] # 0 /\ LPush(stored[w])
        /\ UNCHANGED <<envelopes, failed, forgotten, done, rec, delayed, orphaned, op>>
        /\ accepted' = accepted \cup {NextLink[rec[w].job]}
        /\ pc[w] = "chaining" /\ pc' = [pc EXCEPT ![w] = "deleting"]
    BY <1>2 DEF ListLink, List, Goto, failedVars
  <2>2. PICK h \in Ids : /\ h = stored[w] /\ Moves
                         /\ \A j \in Jobs : envelopes[h].job = j => Kept(h, j)'
    BY <1>0, <2>1, ListMoves
  <2>3. envelopes[h].job = NextLink[rec[w].job]
    BY <2>1, <2>2 DEF Safe, Keyed, StoredLink
  <2>4. NextLink[rec[w].job] \in Jobs
    BY <1>0, <1>a, <2>1, HandFacts DEF Keyed, HandOK, HasNext
  <2>5. Grows /\ Apart(w)
    BY <1>0, <2>1 DEF Grows, Apart
  <2>6. WorkerSecured(w)'
    <3>1. rec[w].job \in done /\ pc'[w] = "deleting"
      BY <1>0, <2>1 DEF Safe, WorkerSecured
    <3>2. Settled(rec[w].job)'
      BY <2>1, <3>1 DEF Settled
    <3> QED BY <3>1, <3>2 DEF WorkerSecured
  <2> QED BY <2>1, <2>2, <2>3, <2>4, <2>5, <2>6 DEF Advances
<1>3. CASE RecordFailed(w)
  <2>1. /\ Apart(w) /\ pc'[w] = "burying"
        /\ UNCHANGED <<rec, envelopes, ready, delayed, orphaned, accepted, done, forgotten>>
        /\ rec[w].id < nextId /\ nextId \in Ids
        /\ failed' = [failed EXCEPT ![nextId] = rec[w].job] /\ failed[nextId] = NoJob
    BY <1>0, <1>3, RecordFailedFrame
  <2>2. PICK k \in Ids, j \in Jobs, h \in Ids : k = nextId /\ j = rec[w].job /\ h = rec[w].id
    BY <1>a, <2>1
  <2>3. /\ failed'[k] = j /\ \A i \in Ids \ {k} : failed'[i] = failed[i]
    BY <1>0, <2>1, <2>2 DEF Keyed, Typed, TypeOK
  <2>4. \A i : Listed(i)' <=> Listed(i)
    BY <2>1 DEF Listed, InReady
  <2>5. Moves
    BY <2>1, <2>2, <2>3, <2>4 DEF Moves, Kept
  <2>6. CoveredAfter(h, j)'
    BY <2>1, <2>2, <2>3 DEF CoveredAfter, Kept
  <2>7. WorkerSecured(w)'
    BY <2>1, <2>2, <2>6 DEF WorkerSecured, CoveredAfter, Settled, HasNext, Kept
  <2>8. Grows
    BY <2>1 DEF Grows
  <2> QED BY <2>1, <2>5, <2>7, <2>8 DEF Advances
<1> QED BY <1>1, <1>2, <1>3

LEMMA WorkersSafe ==
    ASSUME Safe, NEW w \in Workers, WorkerStep(w) \/ Disturb(w)
    PROVE  Advances(w)
BY LoopSafe, PopSafe, DeleteSafe, ReleaseSafe, PushSafe DEF WorkerStep

LEMMA OperatorSafe ==
    ASSUME Safe, NEW o \in Operators, OperatorStep(o)
    PROVE  /\ Grows /\ Moves /\ UNCHANGED <<pc, rec, accepted>>
           /\ OperatorSecured(o)'
           /\ \A x \in Operators \ {o} : op'[x] = op[x]
<1>0. /\ o \in Pushers /\ op \in [Operators -> Retry] /\ Keyed
      /\ failed \in [Ids -> Jobs \cup {NoJob}] /\ Retrying(o) /\ StoredRetry(o)
  BY DEF Safe, Keyed, Typed, TypeOK, Pushers
<1>1. /\ Grows /\ UNCHANGED <<pc, rec, accepted, orphaned>>
      /\ \A x \in Operators \ {o} : op'[x] = op[x]
  BY <1>0 DEF OperatorStep, RetryStore, RetryList, RetryStops, RetryFind, RetryDelete, RetryPushed,
              RetryKilled, Grows, procVars, failedVars
<1>2. CASE RetryStore(o)
  <2>1. op[o].job \in Jobs /\ StoreNew(o, op[o].job) /\ op[o].step = "found"
        /\ UNCHANGED <<failedVars, ready, delayed>>
    BY <1>0, <1>2 DEF RetryStore, Retrying
  <2>2. Moves
    BY <1>0, <1>1, <2>1, StoreMoves DEF failedVars
  <2>3. OperatorSecured(o)'
    BY <2>1 DEF OperatorSecured, failedVars
  <2> QED BY <1>1, <2>2, <2>3
<1>3. CASE RetryList(o)
  <2>1. /\ stored[o] # 0 /\ LPush(stored[o])
        /\ UNCHANGED <<envelopes, failed, delayed>>
        /\ op[o].step = "found" /\ op' = [op EXCEPT ![o].step = "pushed"]
    BY <1>3 DEF RetryList, RetryPushed, List
  <2>2. PICK h \in Ids : /\ h = stored[o] /\ Moves
                         /\ \A j \in Jobs : envelopes[h].job = j => Kept(h, j)'
    BY <1>0, <1>1, <2>1, ListMoves
  <2>3. PICK i \in Ids, j \in Jobs : i = op[o].id /\ j = op[o].job /\ i < h /\ envelopes[h].job = j
    BY <1>0, <2>1, <2>2 DEF Retrying, StoredRetry
  <2>4. op'[o].id = i /\ op'[o].job = j
    BY <1>0, <2>1, <2>3 DEF Retry
  <2>5. CoveredAfter(i, j)'
    BY <2>2, <2>3 DEF CoveredAfter, Ids
  <2>6. OperatorSecured(o)'
    BY <2>4, <2>5 DEF OperatorSecured, CoveredAfter, Settled, HasNext, Kept
  <2> QED BY <1>1, <2>2, <2>6
<1>4. CASE RetryStops(o) \/ (RetryFind(o) /\ UNCHANGED <<procVars, keyVars, callVars>>)
  <2>1. /\ UNCHANGED <<failed, envelopes, ready, delayed>> /\ op'[o].step # "pushed"
    BY <1>0, <1>4 DEF RetryStops, RetryKilled, RetryFind, NoRetry, keyVars
  <2>2. \A i : Listed(i)' <=> Listed(i)
    BY <1>1, <2>1 DEF Listed, InReady
  <2>3. Moves
    BY <1>1, <2>1, <2>2, KeepsAll
  <2> QED BY <1>1, <2>1, <2>3 DEF OperatorSecured
<1>5. CASE RetryDelete(o) /\ UNCHANGED <<procVars, keyVars, callVars>>
  <2>1. /\ UNCHANGED <<envelopes, ready, delayed>> /\ op'[o] = NoRetry /\ op[o].step = "pushed"
        /\ failed' = [failed EXCEPT ![op[o].id] = NoJob]
    BY <1>0, <1>5 DEF RetryDelete, DeleteFailed, keyVars
  <2>2. PICK h \in Ids : h = op[o].id /\ failed[h] \in {op[o].job, NoJob}
    BY <1>0, <2>1 DEF Retrying
  <2>3. \A i : Listed(i)' <=> Listed(i)
    BY <1>1, <2>1 DEF Listed, InReady
  <2>4. \A i \in Ids \ {h} : failed'[i] = failed[i]
    BY <1>0, <2>1, <2>2
  <2>5. \A j \in Jobs, i \in Ids \ {h} : Kept(i, j) => Kept(i, j)'
    BY <1>1, <2>1, <2>3, <2>4 DEF Kept
  <2>6. \A j \in Jobs : Kept(h, j) => Kept(h, j)' \/ CoveredAfter(h, j)
    <3>1. CoveredAfter(h, op[o].job)
      BY <2>1, <2>2 DEF Safe, OperatorSecured
    <3> QED BY <1>1, <2>1, <2>2, <2>3, <3>1 DEF Kept
  <2>7. Moves
    BY <1>1, <2>5, <2>6, GivesUp
  <2> QED BY <1>1, <2>1, <2>7 DEF OperatorSecured, NoRetry
<1> QED BY <1>2, <1>3, <1>4, <1>5 DEF OperatorStep

LEMMA OutsideSafe ==
    ASSUME Safe,
           \/ \E p \in Producers : Produce(p)
           \/ \E i \in Ids : BecomesDue(i) \/ ForgetFailed(i)
           \/ UNCHANGED vars
    PROVE  /\ Grows /\ Moves /\ UNCHANGED <<pc, rec, op>>
           /\ \A j \in accepted' \ accepted : \E i \in Ids : Kept(i, j)'
<1>0. Producers \subseteq Pushers /\ Keyed /\ StoredJobs
  BY DEF Safe, Keyed, Pushers
<1>1. ASSUME NEW p \in Producers, NEW j \in Jobs, DispatchStore(p, j)
      PROVE  Grows /\ Moves /\ UNCHANGED <<pc, rec, op, accepted>>
  <2>1. StoreNew(p, j) /\ UNCHANGED <<procVars, failedVars, ready, delayed>>
    BY <1>1 DEF DispatchStore
  <2>2. Moves
    BY <1>0, <2>1, StoreMoves DEF procVars, failedVars
  <2> QED BY <2>1, <2>2 DEF Grows, procVars, failedVars
<1>2. ASSUME NEW p \in Producers, DispatchReady(p) \/ DispatchLater(p)
      PROVE  /\ Grows /\ Moves /\ UNCHANGED <<pc, rec, op>>
             /\ \A j \in accepted' \ accepted : \E i \in Ids : Kept(i, j)'
  <2>1. /\ stored[p] # 0
        /\ UNCHANGED <<pc, rec, done, orphaned, failed, op, forgotten, envelopes>>
        /\ accepted' = accepted \cup {envelopes[stored[p]].job}
        /\ \/ LPush(stored[p]) /\ delayed' = delayed
           \/ ZAddDelayed(stored[p]) /\ ready' = ready
    BY <1>2 DEF DispatchReady, DispatchLater, List, failedVars
  <2>2. PICK h \in Ids : /\ h = stored[p] /\ Moves
                         /\ \A j \in Jobs : envelopes[h].job = j => Kept(h, j)'
    BY <1>0, <2>1, ListMoves
  <2>3. envelopes[h].job \in Jobs
    BY <1>0, <2>1, <2>2 DEF StoredJobs, Heads
  <2> QED BY <2>1, <2>2, <2>3 DEF Grows
<1>3. ASSUME NEW i \in Ids, ForgetFailed(i)
      PROVE  Grows /\ Moves /\ UNCHANGED <<pc, rec, op, accepted>>
  <2>1. /\ UNCHANGED <<pc, rec, op, accepted, done, orphaned, envelopes, ready, delayed>>
        /\ forgotten' = forgotten \cup {failed[i]}
        /\ failed' = [failed EXCEPT ![i] = NoJob] /\ failed \in [Ids -> Jobs \cup {NoJob}]
    BY <1>0, <1>3 DEF ForgetFailed, Forget, DeleteFailed, procVars, keyVars, Keyed, Typed, TypeOK
  <2>2. \A k : Listed(k)' <=> Listed(k)
    BY <2>1 DEF Listed, InReady
  <2>3. Grows
    BY <2>1 DEF Grows
  <2>4. \A j \in Jobs, k \in Ids \ {i} : Kept(k, j) => Kept(k, j)'
    BY <2>1, <2>2 DEF Kept
  <2>5. \A j \in Jobs : Kept(i, j) => Kept(i, j)' \/ Settled(j)'
    BY <2>1, <2>2 DEF Kept, Settled
  <2> QED BY <2>1, <2>3, <2>4, <2>5, GivesUp
<1>4. CASE (\E i \in Ids : BecomesDue(i)) \/ UNCHANGED vars
  <2>1. /\ UNCHANGED <<procVars, failedVars, envelopes, ready, delayed>>
    BY <1>4 DEF BecomesDue, vars, keyVars
  <2>2. \A k : Listed(k)' <=> Listed(k)
    BY <2>1 DEF Listed, InReady, procVars
  <2>3. Moves
    BY <2>1, <2>2, KeepsAll DEF procVars, failedVars
  <2> QED BY <2>1, <2>3 DEF Grows, procVars, failedVars
<1> QED BY <1>1, <1>2, <1>3, <1>4 DEF Produce

LEMMA StepSafe ==
    ASSUME Safe, [Next]_vars
    PROVE  Safe'
<1> DEFINE NewKept == \A j \in accepted' \ accepted : \E i \in Ids : Kept(i, j)'
           Hands == /\ \A w \in Workers : WorkerSecured(w)'
                    /\ \A o \in Operators : OperatorSecured(o)'
<1>1. Keyed'
  BY StepKeyed DEF Safe
<1>2. ASSUME NEW w \in Workers, WorkerStep(w) \/ Disturb(w)
      PROVE  Grows /\ Moves /\ NewKept /\ Hands
  <2>1. Advances(w)
    BY <1>2, WorkersSafe
  <2>2. \A x \in Workers \ {w} : WorkerSecured(x)'
    BY <2>1, BystandingWorker DEF Advances, Apart
  <2>3. \A o \in Operators : OperatorSecured(o)'
    BY <2>1, BystandingOperator DEF Advances, Apart
  <2> QED BY <2>1, <2>2, <2>3 DEF Advances
<1>3. ASSUME NEW o \in Operators, OperatorStep(o)
      PROVE  Grows /\ Moves /\ NewKept /\ Hands
  <2>1. /\ Grows /\ Moves /\ UNCHANGED <<pc, rec, accepted>> /\ OperatorSecured(o)'
        /\ \A x \in Operators \ {o} : op'[x] = op[x]
    BY <1>3, OperatorSafe
  <2>2. \A w \in Workers : WorkerSecured(w)'
    BY <2>1, BystandingWorker
  <2>3. \A x \in Operators \ {o} : OperatorSecured(x)'
    BY <2>1, BystandingOperator
  <2> QED BY <2>1, <2>2, <2>3
<1>4. ASSUME \/ \E p \in Producers : Produce(p)
             \/ \E i \in Ids : BecomesDue(i) \/ ForgetFailed(i)
             \/ UNCHANGED vars
      PROVE  Grows /\ Moves /\ NewKept /\ Hands
  <2>1. Grows /\ Moves /\ UNCHANGED <<pc, rec, op>> /\ NewKept
    BY <1>4, OutsideSafe
  <2>2. \A w \in Workers : WorkerSecured(w)'
    BY <2>1, BystandingWorker
  <2>3. \A o \in Operators : OperatorSecured(o)'
    BY <2>1, BystandingOperator
  <2> QED BY <2>1, <2>2, <2>3
<1>5. Grows /\ Moves /\ NewKept /\ Hands
  BY <1>2, <1>3, <1>4 DEF Next
<1>6. AcceptedKept'
  BY <1>5, AcceptedKeptStep DEF Safe, Keyed, Typed, TypeOK
<1> QED BY <1>1, <1>5, <1>6 DEF Safe

(***************************************************************************)
(* No job is stranded, whatever the workers, producers and operators do    *)
(* between two commands of each other, and whatever is killed or rejects.  *)
(***************************************************************************)
THEOREM NothingIsStranded == Spec => []NoJobStranded
<1>1. ASSUME Safe PROVE NoJobStranded
  <2>1. \A i \in Ids : Listed(i) => Reachable(i)
    BY DEF Listed, InReady, Reachable
  <2> QED BY <1>1, <2>1 DEF Safe, AcceptedKept, Kept, NoJobStranded
<1> QED BY <1>1, InitSafe, StepSafe, PTL DEF Spec

----------------------------------------------------------------------------
(***************************************************************************)
(* A job is recorded as failed only after MaxAttempts failed runs.         *)
(*                                                                         *)
(* attempts travels between the envelope and the copies of the workers,    *)
(* and a worker that popped the key before a release writes an older count *)
(* back. As in the database driver every count is paid for: the number,    *)
(* with the releases that will still add one to it, is at most the number  *)
(* of failed runs.                                                         *)
(***************************************************************************)
Releasers(i) == {w \in Workers : pc[w] = "releasing" /\ cmd[w] \in {0, 1} /\ rec[w].id = i}

Paid(i, n) == fails[i] > MaxAttempts \/ n + Cardinality(Releasers(i)) <= fails[i]

\* A worker that may still compute with its copy, or write it back.
Copying == {"saving", "reserving"} \cup (Working \ {"recording", "burying"})

AttemptsPaid ==
    /\ \A i \in Ids : Paid(i, envelopes[i].attempts)
    /\ \A w \in Workers : pc[w] \in Copying => Paid(rec[w].id, rec[w].attempts)

Charged == Keyed /\ AttemptsPaid /\ RecordedAfterMaxAttempts

LEMMA ReleasersFinite ==
    ASSUME NEW i
    PROVE  IsFiniteSet(Releasers(i)) /\ Cardinality(Releasers(i)) \in Nat
BY FS_Subset, FS_CardinalityType DEF Releasers

LEMMA InitCharged == Init => Charged
<1> SUFFICES ASSUME Init PROVE Charged
  OBVIOUS
<1>1. Keyed
  BY InitKeyed
<1>2. \A w \in Workers : pc[w] = "idle"
  BY DEF Init, ProcInit
<1>3. ASSUME NEW i \in Ids PROVE Paid(i, envelopes[i].attempts)
  <2>1. Releasers(i) = {}
    BY <1>2 DEF Releasers
  <2>2. Cardinality(Releasers(i)) = 0
    BY <2>1, FS_EmptySet
  <2>3. envelopes[i].attempts = 0 /\ fails[i] = 0
    BY DEF Init, ProcInit, NoEnvelope
  <2> QED BY <2>2, <2>3 DEF Paid
<1>4. AttemptsPaid /\ RecordedAfterMaxAttempts
  BY <1>2, <1>3 DEF AttemptsPaid, RecordedAfterMaxAttempts, Copying, Working, Failed
<1> QED BY <1>1, <1>4 DEF Charged

\* What is paid for a number pays for a smaller one.
LEMMA PaysForLess ==
    ASSUME Typed, NEW i \in Ids, NEW m \in Nat, NEW n \in Nat, m <= n, Paid(i, n)
    PROVE  Paid(i, m)
<1>1. Cardinality(Releasers(i)) \in Nat /\ fails[i] \in Nat
  BY ReleasersFinite DEF Typed, TypeOK
<1> QED BY <1>1 DEF Paid

\* The failed runs are counted, and no release is added without one.
StaysPaid ==
    /\ \A i \in Ids, n \in Nat : Paid(i, n) => Paid(i, n)'
    /\ \A i \in Ids : fails[i] <= fails'[i]

LEMMA QuietPays ==
    ASSUME Typed, fails' = fails, \A i \in Ids : Releasers(i)' \subseteq Releasers(i)
    PROVE  StaysPaid
<1>0. \A i \in Ids : fails[i] \in Nat
  BY DEF Typed, TypeOK
<1> SUFFICES ASSUME NEW i \in Ids, NEW n \in Nat, Paid(i, n) PROVE Paid(i, n)'
  BY <1>0 DEF StaysPaid
<1>1. Cardinality(Releasers(i)') <= Cardinality(Releasers(i))
  BY ReleasersFinite, FS_Subset
<1>2. Cardinality(Releasers(i)) \in Nat /\ Cardinality(Releasers(i)') \in Nat
  BY ReleasersFinite, FS_Subset, FS_CardinalityType
<1> QED BY <1>0, <1>1, <1>2 DEF Paid

\* Catch(w) in terms of the counts: the failure pays for the release.
LEMMA CatchPays ==
    ASSUME Typed, NEW w \in Workers, pc[w] \in Working \ Failed, Catch(w), rec' = rec,
           \A x \in Workers \ {w} : cmd'[x] = cmd[x]
    PROVE  StaysPaid
<1> DEFINE h == rec[w].id
<1>1. h \in Ids
  BY HandFacts DEF HandOK, Holding, Named
<1>2. /\ fails' = [fails EXCEPT ![h] = IF @ > MaxAttempts THEN @ ELSE @ + 1]
      /\ \A x \in Workers \ {w} : pc'[x] = pc[x]
  BY DEF Catch, Goto, Typed, TypeOK
<1>3. /\ \A i \in Ids : fails[i] \in Nat
      /\ fails'[h] = (IF fails[h] > MaxAttempts THEN fails[h] ELSE fails[h] + 1)
      /\ \A i \in Ids \ {h} : fails'[i] = fails[i]
  BY <1>1, <1>2 DEF Typed, TypeOK
<1> HIDE DEF h
<1>4. \A i \in Ids : fails[i] <= fails'[i] /\ fails'[i] \in Nat
  BY <1>1, <1>3
<1> SUFFICES ASSUME NEW i \in Ids, NEW n \in Nat, Paid(i, n) PROVE Paid(i, n)'
  BY <1>4 DEF StaysPaid
<1>5. CASE i = h
  <2>1. Releasers(i)' \subseteq Releasers(i) \cup {w}
    BY <1>2 DEF Releasers
  <2>2. /\ IsFiniteSet(Releasers(i) \cup {w})
        /\ Cardinality(Releasers(i) \cup {w}) =
             IF w \in Releasers(i) THEN Cardinality(Releasers(i)) ELSE Cardinality(Releasers(i)) + 1
    BY ReleasersFinite, FS_AddElement
  <2>3. Cardinality(Releasers(i)') <= Cardinality(Releasers(i) \cup {w})
    BY <2>1, <2>2, FS_Subset
  <2>4. Cardinality(Releasers(i)) \in Nat /\ Cardinality(Releasers(i)') \in Nat
    BY <2>1, <2>2, ReleasersFinite, FS_Subset, FS_CardinalityType
  <2>5. fails'[i] = IF fails[i] > MaxAttempts THEN fails[i] ELSE fails[i] + 1
    BY <1>3, <1>5
  <2> QED BY <1>3, <2>2, <2>3, <2>4, <2>5 DEF Paid
<1>6. CASE i # h
  <2>1. Releasers(i)' = Releasers(i) /\ fails'[i] = fails[i]
    BY <1>2, <1>3, <1>6 DEF Releasers, h
  <2> QED BY <2>1 DEF Paid
<1> QED BY <1>5, <1>6

----------------------------------------------------------------------------
\* A copy is carried on, or read from the envelope.
CopyKept(w) ==
    pc'[w] \in Copying =>
        /\ rec'[w].id \in Ids
        /\ \/ /\ pc[w] \in Copying
              /\ rec'[w].id = rec[w].id /\ rec'[w].attempts = rec[w].attempts
           \/ rec'[w].attempts = envelopes[rec'[w].id].attempts

\* A job is recorded by the worker that just counted the last failed run.
RecordedKept(w) ==
    pc'[w] \in {"recording", "burying"} =>
        /\ rec'[w] = rec[w]
        /\ \/ pc[w] \in {"recording", "burying"}
           \/ pc[w] \in Copying /\ Exhausted(rec[w]) /\ Catch(w)

\* The count in an envelope is reset, carried on, or written by w.
CountsKept(w) ==
    \A i \in Ids :
        \/ envelopes'[i].attempts \in {0, envelopes[i].attempts}
        \/ SavePopped(w) /\ i = rec[w].id /\ envelopes'[i].attempts = rec[w].attempts
        \/ ReleaseSave(w) /\ i = rec[w].id /\ envelopes'[i].attempts = rec[w].attempts + 1

LEMMA WorkerNumbers ==
    ASSUME Keyed, NEW w \in Workers, WorkerStep(w) \/ Disturb(w)
    PROVE  StaysPaid /\ CopyKept(w) /\ RecordedKept(w) /\ CountsKept(w)
<1> USE DEF Copying, Named, Popping, Working, Failed, Down
<1>0. /\ pc \in [Workers -> {"idle"} \cup Popping \cup Working \cup Down]
      /\ rec \in [Workers -> Record] /\ fails \in [Ids -> Nat] /\ cmd \in [Workers -> 0 .. 3]
      /\ envelopes \in [Ids -> Envelope]
      /\ pc[w] \in Holding => rec[w].id \in Ids
      /\ Typed
  BY HandFacts DEF Keyed, Typed, TypeOK, HandOK
<1>1. CASE LoopStep(w) \/ CallFails(w)
  <2>1. CASE HandleFails(w) \/ CallFails(w)
    <3>1. /\ pc[w] \in {"handling", "chaining", "deleting"} /\ Catch(w) /\ rec' = rec
          /\ \A x \in Workers \ {w} : cmd'[x] = cmd[x]
          /\ envelopes' = envelopes
      BY <1>0, <1>1, <2>1 DEF HandleFails, CallFails, StepFails, CallReturns, LoopStep, keyVars, callVars
    <3>2. StaysPaid
      BY <1>0, <3>1, CatchPays
    <3> QED BY <1>0, <3>1, <3>2 DEF Catch, Goto, CopyKept, RecordedKept, CountsKept, Holding
  <2>2. CASE HandleSucceeds(w) \/ Exit(w)
    <3>1. /\ UNCHANGED <<rec, fails, cmd, envelopes>>
          /\ pc'[w] \in {"chaining", "deleting", "stopped"}
          /\ pc'[w] \in Copying => pc[w] = "handling"
          /\ \A x \in Workers \ {w} : pc'[x] = pc[x]
      BY <1>0, <1>1, <2>2 DEF HandleSucceeds, Exit, LoopStep, CallFails, StepFails, Goto, keyVars, callVars
    <3>2. \A i \in Ids : Releasers(i)' \subseteq Releasers(i)
      BY <3>1 DEF Releasers
    <3> QED BY <1>0, <3>1, <3>2, QuietPays DEF CopyKept, RecordedKept, CountsKept, Holding
  <2> QED BY <1>1, <2>1, <2>2 DEF LoopStep
<1>2. CASE PopFails(w) \/ Disturb(w)
  <2>1. /\ fails' = fails /\ envelopes' = envelopes
        /\ \A x \in Workers \ {w} : pc'[x] = pc[x] /\ rec'[x] = rec[x] /\ cmd'[x] = cmd[x]
        /\ \/ pc'[w] \in {"idle", "crashed"}
           \/ pc'[w] = pc[w] /\ rec'[w] = rec[w] /\ cmd'[w] = cmd[w]
    BY <1>0, <1>2 DEF PopFails, Disturb, Kill, Crash, Shutdown, Restart, CallReturns, NextJob, Goto,
                      keyVars, callVars
  <2>2. \A i \in Ids : Releasers(i)' \subseteq Releasers(i)
    BY <2>1 DEF Releasers
  <2> QED BY <1>0, <2>1, <2>2, QuietPays DEF CopyKept, RecordedKept, CountsKept, Holding
<1>3. CASE \/ Scan(w) \/ PromoteRemove(w) \/ PromotePush(w) \/ PopReady(w)
           \/ SavePopped(w) \/ Reserve(w)
  <2>1. /\ UNCHANGED <<fails, cmd>> /\ pc'[w] \in Popping \cup {"idle", "handling"}
        /\ \A x \in Workers \ {w} : pc'[x] = pc[x] /\ rec'[x] = rec[x]
        /\ pc'[w] \in Copying => pc[w] \in {"saving", "reserving"} /\ rec' = rec
    BY <1>0, <1>3 DEF Scan, PromoteRemove, PromotePush, PopReady, SavePopped, Reserve, NextJob, Goto, callVars
  <2>2. \A i \in Ids : Releasers(i)' \subseteq Releasers(i)
    BY <2>1 DEF Releasers
  <2>3. CountsKept(w)
    BY <1>0, <1>3 DEF CountsKept, Scan, PromoteRemove, PromotePush, PopReady, SavePopped, Reserve,
                      SetEnvelope, keyVars, Holding
  <2> QED BY <1>0, <2>1, <2>2, <2>3, QuietPays DEF CopyKept, RecordedKept, Holding
<1>4. CASE LoadPopped(w) /\ HasEnvelope(rec[w].id)
  <2>1. /\ UNCHANGED <<failedVars, keyVars, callVars>> /\ Apart(w)
        /\ rec[w].id \in Ids /\ rec'[w].id = rec[w].id
        /\ rec'[w].attempts = envelopes[rec[w].id].attempts
        /\ pc'[w] = "saving"
    BY <1>4, LoadFrame
  <2>2. fails' = fails
    BY <1>4 DEF LoadPopped
  <2>3. \A i \in Ids : Releasers(i)' \subseteq Releasers(i)
    BY <2>1 DEF Releasers, Apart, callVars
  <2> QED BY <1>0, <2>1, <2>2, <2>3, QuietPays DEF CopyKept, RecordedKept, CountsKept, keyVars
<1>5. CASE LoadPopped(w) /\ ~HasEnvelope(rec[w].id)
  <2>1. /\ UNCHANGED <<fails, envelopes, cmd>> /\ pc'[w] = "idle"
        /\ \A x \in Workers \ {w} : pc'[x] = pc[x] /\ rec'[x] = rec[x]
    BY <1>0, <1>5 DEF LoadPopped, NextJob, Goto, keyVars, callVars
  <2>2. \A i \in Ids : Releasers(i)' \subseteq Releasers(i)
    BY <2>1 DEF Releasers
  <2> QED BY <1>0, <2>1, <2>2, QuietPays DEF CopyKept, RecordedKept, CountsKept
<1>6. CASE \/ StoreLink(w) \/ ListLink(w) \/ RecordFailed(w)
           \/ DeleteLoad(w) \/ DeleteKey(w) \/ DeleteReserved(w) \/ DeleteDelayed(w)
  <2>1. /\ fails' = fails /\ pc[w] \in {"chaining", "recording", "deleting", "burying"}
        /\ \A x \in Workers \ {w} : pc'[x] = pc[x] /\ rec'[x] = rec[x] /\ cmd'[x] = cmd[x]
        /\ \/ pc'[w] = "idle"
           \/ rec'[w] = rec[w] /\ pc[w] = "chaining" /\ pc'[w] \in {"chaining", "deleting"}
           \/ rec'[w] = rec[w] /\ pc[w] = "recording" /\ pc'[w] = "burying"
           \/ rec'[w] = rec[w] /\ pc[w] \in {"deleting", "burying"} /\ pc'[w] = pc[w]
    BY <1>0, <1>6 DEF StoreLink, ListLink, RecordFailed, DeleteLoad, DeleteKey, DeleteReserved,
                      DeleteDelayed, Deleting, Sent, CallReturns, NextJob, Goto, procVars, callVars
  <2>2. \A i \in Ids : Releasers(i)' \subseteq Releasers(i)
    BY <2>1 DEF Releasers
  <2>3. CountsKept(w)
    <3>1. CASE StoreLink(w)
      <4>1. NextLink[rec[w].job] \in Jobs \cup {NoJob} /\ StoreNew(w, NextLink[rec[w].job])
        BY <3>1, KeyInHand DEF StoreLink
      <4> QED BY <1>0, <4>1, StoreTyped DEF CountsKept, Pushers
    <3>2. CASE DeleteKey(w)
      BY <1>0, <3>2 DEF DeleteKey, DelEnvelope, NoEnvelope, CountsKept
    <3>3. CASE ~StoreLink(w) /\ ~DeleteKey(w)
      BY <1>6, <3>3 DEF ListLink, RecordFailed, DeleteLoad, DeleteReserved, DeleteDelayed, keyVars, CountsKept
    <3> QED BY <3>1, <3>2, <3>3
  <2> QED BY <1>0, <2>1, <2>2, <2>3, QuietPays DEF CopyKept, RecordedKept, Holding
<1>7. CASE ReleaseLoad(w) \/ ReleaseSave(w) \/ ReleaseReserved(w) \/ ReleaseDelay(w)
  <2>1. /\ fails' = fails /\ pc[w] = "releasing" /\ rec[w].id \in Ids
        /\ \A x \in Workers \ {w} : pc'[x] = pc[x] /\ rec'[x] = rec[x] /\ cmd'[x] = cmd[x]
        /\ \/ pc'[w] = "idle"
           \/ /\ pc'[w] = "releasing" /\ cmd'[w] = cmd[w] + 1 /\ rec'[w].id = rec[w].id
              /\ rec'[w].attempts \in {rec[w].attempts, envelopes[rec[w].id].attempts}
    <3>1. CASE ReleaseLoad(w) /\ HasEnvelope(rec[w].id)
      BY <1>0, <3>1 DEF ReleaseLoad, Releasing, Sent, Record, Holding
    <3>2. CASE ~(ReleaseLoad(w) /\ HasEnvelope(rec[w].id))
      BY <1>0, <1>7, <3>2 DEF ReleaseLoad, ReleaseSave, ReleaseReserved, ReleaseDelay, Releasing, Sent,
                              CallReturns, NextJob, Goto, procVars, Holding
    <3> QED BY <3>1, <3>2
  <2>2. \A i \in Ids : Releasers(i)' \subseteq Releasers(i)
    BY <1>0, <2>1 DEF Releasers
  <2>3. CountsKept(w)
    BY <1>0, <1>7, <2>1 DEF ReleaseLoad, ReleaseSave, ReleaseReserved, ReleaseDelay, SetEnvelope, keyVars,
                            CountsKept
  <2> QED BY <1>0, <2>1, <2>2, <2>3, QuietPays DEF CopyKept, RecordedKept
<1> QED BY <1>1, <1>2, <1>3, <1>4, <1>5, <1>6, <1>7 DEF WorkerStep

\* The SET of release() adds one to the count and ends one release.
LEMMA SavePaid ==
    ASSUME Charged, NEW w \in Workers, ReleaseSave(w),
           NEW h \in Ids, NEW n \in Nat, h = rec[w].id, n = rec[w].attempts
    PROVE  Paid(h, n + 1)'
<1>1. pc[w] = "releasing" /\ cmd[w] = 1 /\ Paid(h, n) /\ fails[h] \in Nat
  BY DEF Charged, Keyed, Typed, TypeOK, AttemptsPaid, ReleaseSave, Releasing, Copying, Working, Failed
<1>2. pc' = pc /\ rec' = rec /\ fails' = fails /\ cmd' = [cmd EXCEPT ![w] = 2]
  BY <1>1 DEF ReleaseSave, Sent, procVars
<1>3. w \in Releasers(h) /\ Releasers(h)' = Releasers(h) \ {w}
  <2>1. cmd \in [Workers -> 0 .. 3]
    BY DEF Charged, Keyed, Typed, TypeOK
  <2> QED BY <1>1, <1>2, <2>1 DEF Releasers
<1>4. Cardinality(Releasers(h) \ {w}) = Cardinality(Releasers(h)) - 1
  BY <1>3, ReleasersFinite, FS_RemoveElement
<1>5. Cardinality(Releasers(h)') = Cardinality(Releasers(h)) - 1
  BY <1>3, <1>4
<1>6. Cardinality(Releasers(h)) \in Nat
  BY ReleasersFinite
<1> QED BY <1>1, <1>2, <1>5, <1>6 DEF Paid

LEMMA WorkersApart ==
    ASSUME Keyed, NEW w \in Workers, WorkerStep(w) \/ Disturb(w)
    PROVE  Apart(w)
<1>1. CASE StoreLink(w) \/ ListLink(w)
  <2>1. op' = op /\ rec' = rec /\ pc' \in {pc, [pc EXCEPT ![w] = "deleting"]}
    BY <1>1 DEF StoreLink, ListLink, Goto, procVars, failedVars
  <2> QED BY <2>1 DEF Apart, Keyed, Typed, TypeOK
<1>2. CASE ~StoreLink(w) /\ ~ListLink(w)
  BY <1>2, QuietLoop, QuietPop, QuietCalls, MovingSteps, LoadFrame, RecordFailedFrame DEF WorkerStep
<1> QED BY <1>1, <1>2

LEMMA WorkersCharged ==
    ASSUME Charged, NEW w \in Workers, WorkerStep(w) \/ Disturb(w)
    PROVE  AttemptsPaid' /\ RecordedAfterMaxAttempts'
<1>0. Keyed /\ Typed /\ AttemptsPaid /\ RecordedAfterMaxAttempts
  BY DEF Charged, Keyed
<1>1. /\ \A x \in Workers \ {w} : pc'[x] = pc[x] /\ rec'[x] = rec[x]
      /\ StaysPaid
      /\ \A i \in Ids : fails[i] <= fails'[i]
      /\ CopyKept(w) /\ RecordedKept(w) /\ CountsKept(w)
  BY <1>0, WorkerNumbers, WorkersApart DEF Apart, StaysPaid
<1>2. /\ \A i \in Ids : envelopes[i].attempts \in Nat /\ fails[i] \in Nat
      /\ \A x \in Workers : rec[x].attempts \in Nat
      /\ \A x \in Workers : pc[x] \in Copying \cup {"recording", "burying"} => rec[x].id \in Ids
  BY <1>0 DEF Typed, TypeOK, HandsOK, HandOK, Holding, Named, Envelope, Record, Copying, Working, Failed
<1>a. \A i \in Ids : fails'[i] \in Nat
  BY <1>0, WorkersKeyed, StepTyped DEF Keyed, Typed, TypeOK, Next
<1>3. ASSUME NEW i \in Ids PROVE Paid(i, envelopes[i].attempts)'
  <2>1. Paid(i, envelopes[i].attempts)
    BY <1>0 DEF AttemptsPaid
  <2>2. CASE envelopes'[i].attempts \in {0, envelopes[i].attempts}
    <3>1. PICK n \in Nat : n = envelopes'[i].attempts
      BY <1>2, <2>2
    <3>2. Paid(i, n)
      BY <1>0, <1>2, <2>1, <2>2, <3>1, PaysForLess
    <3> QED BY <1>1, <3>1, <3>2 DEF StaysPaid, Paid
  <2>3. CASE SavePopped(w) /\ i = rec[w].id /\ envelopes'[i].attempts = rec[w].attempts
    <3>1. PICK n \in Nat : n = rec[w].attempts
      BY <1>2
    <3>2. Paid(i, n)
      BY <1>0, <2>3, <3>1 DEF SavePopped, AttemptsPaid, Copying
    <3> QED BY <1>1, <2>3, <3>1, <3>2 DEF StaysPaid, Paid
  <2>4. CASE ReleaseSave(w) /\ i = rec[w].id /\ envelopes'[i].attempts = rec[w].attempts + 1
    <3>1. PICK n \in Nat : n = rec[w].attempts
      BY <1>2
    <3>2. Paid(i, n + 1)'
      BY <2>4, <3>1, SavePaid
    <3> QED BY <2>4, <3>1, <3>2 DEF Paid
  <2> QED BY <1>1, <2>2, <2>3, <2>4 DEF CountsKept
<1>4. ASSUME NEW x \in Workers, pc'[x] \in Copying
      PROVE  Paid(rec[x].id, rec[x].attempts)'
  <2>1. CASE pc[x] \in Copying /\ rec'[x].id = rec[x].id /\ rec'[x].attempts = rec[x].attempts
    <3>1. PICK i \in Ids, n \in Nat : i = rec[x].id /\ n = rec[x].attempts
      BY <1>2, <2>1
    <3>2. Paid(i, n)'
      BY <1>0, <1>1, <2>1, <3>1 DEF AttemptsPaid, StaysPaid
    <3> QED BY <2>1, <3>1, <3>2 DEF Paid
  <2>2. CASE x = w /\ rec'[w].attempts = envelopes[rec'[w].id].attempts /\ rec'[w].id \in Ids
    <3>1. PICK i \in Ids, n \in Nat : i = rec'[w].id /\ n = envelopes[i].attempts
      BY <1>2, <2>2
    <3>2. Paid(i, n)'
      BY <1>0, <1>1, <3>1 DEF AttemptsPaid, StaysPaid
    <3> QED BY <2>2, <3>1, <3>2 DEF Paid
  <2>3. CASE x = w
    BY <1>1, <1>4, <2>1, <2>2, <2>3 DEF CopyKept
  <2>4. CASE x # w
    BY <1>1, <1>4, <2>1, <2>4
  <2> QED BY <2>3, <2>4
<1>5. ASSUME NEW x \in Workers, pc'[x] \in {"recording", "burying"}
      PROVE  fails'[rec'[x].id] >= MaxAttempts
  <2>1. CASE pc[x] \in {"recording", "burying"} /\ rec'[x] = rec[x]
    <3>1. rec[x].id \in Ids /\ fails[rec[x].id] >= MaxAttempts
      BY <1>0, <1>2, <2>1 DEF RecordedAfterMaxAttempts
    <3>2. MaxAttempts \in Nat
      BY BoundsAssumption
    <3> QED BY <1>1, <1>2, <1>a, <2>1, <3>1, <3>2
  <2>2. CASE x = w /\ rec'[w] = rec[w] /\ pc[w] \in Copying /\ Exhausted(rec[w]) /\ Catch(w)
    <3>1. PICK i \in Ids, n \in Nat : i = rec[w].id /\ n = rec[w].attempts
      BY <1>2, <2>2
    <3>2. fails[i] > MaxAttempts \/ n + Cardinality(Releasers(i)) <= fails[i]
      BY <1>0, <2>2, <3>1 DEF AttemptsPaid, Paid
    <3>3. fails'[i] = IF fails[i] > MaxAttempts THEN fails[i] ELSE fails[i] + 1
      BY <1>0, <2>2, <3>1 DEF Catch, Typed, TypeOK
    <3>4. n + 1 >= MaxAttempts
      BY <2>2, <3>1 DEF Exhausted
    <3>5. Cardinality(Releasers(i)) \in Nat /\ MaxAttempts \in Nat
      BY ReleasersFinite, BoundsAssumption
    <3>6. fails'[i] >= MaxAttempts
      BY <1>2, <3>2, <3>3, <3>4, <3>5
    <3> QED BY <2>2, <3>1, <3>6
  <2>3. CASE x = w
    BY <1>1, <1>5, <2>1, <2>2, <2>3 DEF RecordedKept
  <2>4. CASE x # w
    BY <1>1, <1>5, <2>1, <2>4
  <2> QED BY <2>3, <2>4
<1>6. AttemptsPaid'
  BY <1>3, <1>4 DEF AttemptsPaid, Copying
<1>7. RecordedAfterMaxAttempts'
  BY <1>5 DEF RecordedAfterMaxAttempts
<1> QED BY <1>6, <1>7

\* Nobody else counts a failed run, or writes a count other than zero.
LEMMA OthersCharged ==
    ASSUME Charged,
           \/ \E p \in Producers : Produce(p)
           \/ \E i \in Ids : BecomesDue(i) \/ ForgetFailed(i)
           \/ \E o \in Operators : OperatorStep(o)
           \/ UNCHANGED vars
    PROVE  AttemptsPaid' /\ RecordedAfterMaxAttempts'
<1>0. Keyed /\ Typed /\ AttemptsPaid /\ RecordedAfterMaxAttempts
  BY DEF Charged, Keyed
<1>1. UNCHANGED <<pc, rec, fails, cmd>>
  BY DEF Produce, DispatchStore, DispatchReady, DispatchLater, BecomesDue, ForgetFailed, OperatorStep,
         RetryStore, RetryList, RetryStops, vars, procVars, callVars
<1>2. \A i \in Ids : envelopes'[i].attempts \in {0, envelopes[i].attempts}
  <2>1. CASE \E p \in Pushers, j \in Jobs \cup {NoJob} : StoreNew(p, j)
    <3>1. envelopes \in [Ids -> Envelope]
      BY <1>0 DEF Typed, TypeOK
    <3> QED BY <2>1, <3>1 DEF StoreNew, SetEnvelope
  <2>2. CASE UNCHANGED envelopes
    BY <2>2
  <2>3. ASSUME NEW o \in Operators, RetryStore(o) PROVE \E p \in Pushers, j \in Jobs \cup {NoJob} : StoreNew(p, j)
    BY <1>0, <2>3 DEF RetryStore, Pushers, Typed, TypeOK, Retry
  <2> QED BY <2>1, <2>2, <2>3 DEF Produce, DispatchStore, DispatchReady, DispatchLater, BecomesDue, ForgetFailed,
                                  OperatorStep, RetryList, RetryStops, vars, keyVars, Pushers
<1>3. \A i \in Ids : envelopes[i].attempts \in Nat
  BY <1>0 DEF Typed, TypeOK, Envelope
<1>4. \A i : Releasers(i)' = Releasers(i)
  BY <1>1 DEF Releasers
<1>5. ASSUME NEW i \in Ids PROVE Paid(i, envelopes[i].attempts)'
  <2>1. PICK n \in Nat : n = envelopes'[i].attempts
    BY <1>2, <1>3
  <2>2. Paid(i, envelopes[i].attempts)
    BY <1>0 DEF AttemptsPaid
  <2>3. Paid(i, n)
    BY <1>0, <1>2, <1>3, <2>1, <2>2, PaysForLess
  <2> QED BY <1>1, <1>4, <2>1, <2>3 DEF Paid
<1>6. AttemptsPaid'
  BY <1>0, <1>1, <1>4, <1>5 DEF AttemptsPaid, Paid
<1>7. RecordedAfterMaxAttempts'
  BY <1>0, <1>1 DEF RecordedAfterMaxAttempts
<1> QED BY <1>6, <1>7

(***************************************************************************)
(* A job is written to failed_jobs only after MaxAttempts failed runs of   *)
(* its key, whatever stale envelope is written over a newer one.           *)
(***************************************************************************)
THEOREM RedisRecordsExhausted == Spec => []RecordedAfterMaxAttempts
<1>1. ASSUME Charged, [Next]_vars PROVE Charged'
  <2>1. Keyed'
    BY <1>1, StepKeyed DEF Charged
  <2> QED BY <1>1, <2>1, WorkersCharged, OthersCharged DEF Next, Charged
<1>2. Charged => RecordedAfterMaxAttempts
  BY DEF Charged
<1> QED BY <1>1, <1>2, InitCharged, PTL DEF Spec

----------------------------------------------------------------------------
(***************************************************************************)
(* The driver implements JobDelivery.                                      *)
(*                                                                         *)
(* A job is on record from INCR and SET on, before its push returns and    *)
(* before a worker can see the key; Entered says that whatever a worker or *)
(* an operator can see, holds or has recorded was accepted, so that it may *)
(* be run, recorded and stored again.                                      *)
(***************************************************************************)
Entered ==
    /\ \A i \in Ids : Visible(i) => envelopes[i].job \in accepted \cup {NoJob}
    /\ \A w \in Workers : pc[w] \in Named => rec[w].job \in accepted
    /\ \A i \in Ids : failed[i] \in accepted \cup {NoJob}
    /\ \A o \in Operators : op[o].step # "none" => op[o].job \in accepted

Ordered == Safe /\ Entered /\ ChainOrder

LEMMA InitOrdered == Init => Ordered
<1> SUFFICES ASSUME Init PROVE Ordered
  OBVIOUS
<1>1. Safe
  BY InitSafe
<1>2. Entered
  BY DEF Init, ProcInit, FailedInit, Entered, NoEnvelope, NoRetry, Named, Working, Failed
<1>3. ChainOrder
  BY DEF Init, ProcInit, ChainOrder
<1> QED BY <1>1, <1>2, <1>3 DEF Ordered

\* What a step shows, learns or records was accepted before, or is by now.
LEMMA EnteredKept ==
    ASSUME Keyed, Keyed', Entered, KeyFrame, accepted \subseteq accepted',
           \A i \in Ids : Visible(i)' => Visible(i) \/ envelopes'[i].job \in accepted',
           \A x \in Workers : pc'[x] \in Named =>
               (pc[x] \in Named /\ rec'[x].job = rec[x].job) \/ rec'[x].job \in accepted',
           \A i \in Ids : failed'[i] \in {failed[i], NoJob} \cup accepted',
           \A o \in Operators : op'[o].step # "none" =>
               (op[o].step # "none" /\ op'[o].job = op[o].job) \/ op'[o].job \in accepted'
    PROVE  Entered'
<1>1. ASSUME NEW i \in Ids, Visible(i)', envelopes'[i].job # NoJob
      PROVE  envelopes'[i].job \in accepted'
  <2>1. CASE Visible(i)
    <3>1. PICK j \in Jobs : j = envelopes'[i].job
      BY <1>1 DEF Keyed, Typed, TypeOK, Envelope
    <3>2. ~Drawn(i)
      BY <2>1 DEF Keyed, Fresh, Typed, TypeOK, Drawn, Ids
    <3>3. Names(i, j)
      BY <3>1, <3>2 DEF KeyFrame, NamesDrawn, Names
    <3>4. j \in accepted
      BY <2>1, <3>1, <3>3 DEF Names, Entered
    <3> QED BY <3>1, <3>4
  <2> QED BY <1>1, <2>1
<1>2. \A x \in Workers : pc'[x] \in Named => rec'[x].job \in accepted'
  BY DEF Entered
<1>3. \A i \in Ids : failed'[i] \in accepted' \cup {NoJob}
  BY DEF Entered
<1>4. \A o \in Operators : op'[o].step # "none" => op'[o].job \in accepted'
  BY DEF Entered
<1> QED BY <1>1, <1>2, <1>3, <1>4 DEF Entered, Named

\* A job is accepted that may enter.
LEMMA OrderKept ==
    ASSUME ChainOrder, Grows, \A j \in accepted' \ accepted : Promise!MayEnter(j)
    PROVE  ChainOrder'
BY DEF ChainOrder, Grows, Promise!MayEnter, HasNext

LEMMA AcceptedMayEnter ==
    ASSUME ChainOrder, NEW j \in Jobs, j \in accepted
    PROVE  Promise!MayEnter(j)
BY DEF ChainOrder, Promise!MayEnter, HasNext

\* The link that follows a job that has run.
LEMMA NextMayEnter ==
    ASSUME Safe, NEW w \in Workers, pc[w] = "chaining"
    PROVE  NextLink[rec[w].job] \in Jobs /\ Promise!MayEnter(NextLink[rec[w].job])
<1>1. rec[w].job \in Jobs /\ HasNext(rec[w].job) /\ rec[w].job \in done
  BY HandFacts, KeyInHand DEF Safe, Keyed, HandOK, WorkerSecured, Named, Working
<1>2. PICK k \in Jobs : k = rec[w].job
  BY <1>1
<1>3. NextLink[k] \in Jobs
  BY <1>1, <1>2 DEF HasNext
<1>4. PICK j \in Jobs : j = NextLink[k]
  BY <1>3
<1>5. \A x \in Jobs : NextLink[x] = j => x \in done
  BY <1>1, <1>2, <1>4, ChainsAssumption
<1> QED BY <1>2, <1>4, <1>5 DEF Promise!MayEnter

LEMMA HeadMayEnter ==
    ASSUME NEW j \in Heads
    PROVE  j \in Jobs /\ Promise!MayEnter(j)
BY DEF Heads, Promise!MayEnter

----------------------------------------------------------------------------
(* The steps of the promise *)

PromiseStep == [Promise!Next]_(Promise!vars)

LEMMA Stutters ==
    ASSUME failed' = failed, \A i \in Ids : envelopes'[i].job = envelopes[i].job,
           UNCHANGED <<accepted, done, forgotten>>
    PROVE  PromiseStep
<1>1. OnRecord' = OnRecord
  BY DEF OnRecord, Holds
<1> QED BY <1>1 DEF PromiseStep, Promise!vars

\* The job of an envelope is written, or a failed job is inserted.
LEMMA Enters ==
    ASSUME NEW h \in Ids, NEW j \in Jobs, Promise!MayEnter(j),
           \/ /\ envelopes[h].job \in {j, NoJob} /\ envelopes'[h].job = j /\ failed' = failed
              /\ \A i \in Ids \ {h} : envelopes'[i].job = envelopes[i].job
           \/ /\ failed[h] = NoJob /\ failed'[h] = j
              /\ \A i \in Ids : envelopes'[i].job = envelopes[i].job
              /\ \A i \in Ids \ {h} : failed'[i] = failed[i],
           UNCHANGED <<accepted, done, forgotten>>
    PROVE  PromiseStep
<1>1. OnRecord' = OnRecord \cup {j}
  <2>1. \A x \in Jobs, i \in Ids : Holds(i, x)' <=> Holds(i, x) \/ (i = h /\ x = j)
    BY DEF Holds
  <2> QED BY <2>1 DEF OnRecord
<1>2. Promise!Enter(j)
  BY <1>1 DEF Promise!Enter
<1> QED BY <1>2 DEF PromiseStep, Promise!Next

\* The push of a job that is stored returns.
LEMMA Acknowledges ==
    ASSUME NEW h \in Ids, NEW j \in Jobs, Promise!MayEnter(j), envelopes[h].job = j,
           envelopes' = envelopes, failed' = failed,
           accepted' = accepted \cup {j}, UNCHANGED <<done, forgotten>>
    PROVE  PromiseStep
<1>1. OnRecord' = OnRecord /\ j \in OnRecord
  BY DEF OnRecord, Holds
<1>2. Promise!Acknowledge(j)
  BY <1>1 DEF Promise!Acknowledge
<1> QED BY <1>2 DEF PromiseStep, Promise!Next

\* A record of j is deleted that a later one, or nothing owed, makes superfluous.
LEMMA Deletes ==
    ASSUME NEW h \in Ids, NEW j \in Jobs, CoveredAfter(h, j),
           \/ /\ envelopes[h].job \in {j, NoJob} /\ envelopes'[h].job = NoJob /\ failed' = failed
              /\ \A i \in Ids \ {h} : envelopes'[i].job = envelopes[i].job
           \/ /\ failed[h] \in {j, NoJob} /\ failed'[h] = NoJob /\ envelopes' = envelopes
              /\ \A i \in Ids \ {h} : failed'[i] = failed[i],
           UNCHANGED <<accepted, done, forgotten>>
    PROVE  PromiseStep
<1>1. \A x \in Jobs \ {j}, i \in Ids : Holds(i, x)' <=> Holds(i, x)
  BY DEF Holds
<1>2. \A i \in Ids : Holds(i, j)' => Holds(i, j)
  BY DEF Holds
<1>3. CASE \E i \in Ids : Holds(i, j)'
  <2>1. OnRecord' = OnRecord
    BY <1>1, <1>2, <1>3 DEF OnRecord
  <2> QED BY <2>1 DEF PromiseStep, Promise!vars
<1>4. CASE ~\E i \in Ids : Holds(i, j)'
  <2>1. OnRecord' = OnRecord \ {j}
    BY <1>1, <1>4 DEF OnRecord
  <2>2. Settled(j)
    <3>1. ASSUME NEW k \in Ids, k > h, Kept(k, j)
          PROVE  FALSE
      <4>1. k # h
        BY <3>1 DEF Ids
      <4>2. Holds(k, j)'
        BY <3>1, <4>1 DEF Kept, Holds
      <4> QED BY <1>4, <4>2
    <3> QED BY <3>1 DEF CoveredAfter
  <2>3. Promise!Leave(j)
    BY <2>1, <2>2 DEF Promise!Leave, Promise!Finished, Settled, HasNext
  <2> QED BY <2>3 DEF PromiseStep, Promise!Next
<1> QED BY <1>3, <1>4

\* INCR and SET of a push.
LEMMA StoreEnters ==
    ASSUME Keyed, NEW p \in Pushers, NEW j \in Jobs, StoreNew(p, j), Promise!MayEnter(j),
           UNCHANGED <<failed, accepted, done, forgotten>>
    PROVE  PromiseStep
<1>1. /\ nextId \in Ids /\ envelopes'[nextId].job = j
      /\ \A i \in Ids \ {nextId} : envelopes'[i] = envelopes[i]
  BY StoreTyped DEF Keyed
<1>2. envelopes[nextId].job = NoJob
  BY <1>1 DEF Keyed, Fresh, Ids
<1>3. PICK h \in Ids : h = nextId
  BY <1>1
<1> QED BY <1>1, <1>2, <1>3, Enters

----------------------------------------------------------------------------
(* Each step keeps Ordered *)

\* Steps that store nothing leave what is stored and not listed.
LEMMA ShownBefore ==
    ASSUME KeyFrame, stored' = stored, NEW i \in Ids, Visible(i)'
    PROVE  Visible(i)
<1>1. i # 0
  BY DEF Ids
<1> QED BY <1>1 DEF KeyFrame, ShowsListed

LEMMA WorkersOrdered ==
    ASSUME Ordered, Safe', NEW w \in Workers, WorkerStep(w) \/ Disturb(w)
    PROVE  Entered' /\ ChainOrder'
<1>0. /\ Safe /\ Keyed /\ Keyed' /\ Entered /\ ChainOrder
      /\ Grows /\ Apart(w) /\ op' = op /\ w \in Pushers
      /\ accepted \subseteq accepted'
  BY WorkersSafe DEF Ordered, Safe, Advances, Apart, Grows, Pushers
<1>1. CASE \/ LoopStep(w) \/ Disturb(w) \/ CallFails(w) \/ PopFails(w)
           \/ Scan(w) \/ SavePopped(w) \/ Reserve(w)
           \/ PopReady(w) /\ ready = <<>>
           \/ LoadPopped(w) /\ ~HasEnvelope(rec[w].id)
           \/ DeleteLoad(w) \/ DeleteKey(w) \/ DeleteReserved(w) \/ DeleteDelayed(w)
           \/ ReleaseLoad(w) \/ ReleaseSave(w) \/ ReleaseReserved(w)
  <2>1. QuietKeys /\ KeepsStored
    BY <1>0, <1>1, QuietLoop, QuietPop, QuietCalls
  <2>2. KeyFrame
    BY <1>0, <2>1, QuietFrame DEF Keyed
  <2>3. accepted' = accepted
    BY <1>1 DEF LoopStep, HandleSucceeds, HandleFails, Exit, Disturb, Kill, Crash, Shutdown, Restart,
                CallFails, StepFails, PopFails, Scan, SavePopped, Reserve, PopReady, LoadPopped,
                DeleteLoad, DeleteKey, DeleteReserved, DeleteDelayed, ReleaseLoad, ReleaseSave,
                ReleaseReserved, procVars
  <2>4. Entered'
    BY <1>0, <2>1, <2>2, QuietVisible, EnteredKept DEF QuietKeys
  <2> QED BY <1>0, <2>3, <2>4, OrderKept
<1>2. CASE \/ PromoteRemove(w) \/ PromotePush(w) \/ ReleaseDelay(w)
           \/ PopReady(w) /\ ready # <<>>
  <2>1. KeyFrame /\ failed' = failed /\ pc'[w] \notin Named
    BY <1>0, <1>2, MovingSteps DEF failedVars
  <2>2. accepted' = accepted /\ stored' = stored
    BY <1>2 DEF PromoteRemove, PromotePush, ReleaseDelay, PopReady, callVars
  <2>3. Entered'
    BY <1>0, <2>1, <2>2, ShownBefore, EnteredKept DEF Apart
  <2> QED BY <1>0, <2>2, <2>3, OrderKept
<1>3. CASE LoadPopped(w) /\ HasEnvelope(rec[w].id)
  <2>1. /\ KeyFrame /\ UNCHANGED <<failedVars, keyVars, callVars>>
        /\ rec[w].id \in Ids /\ rec'[w].job = envelopes[rec[w].id].job
    BY <1>0, <1>3, LoadFrame
  <2>2. accepted' = accepted /\ stored' = stored /\ failed' = failed
    BY <1>3 DEF LoadPopped, callVars, failedVars
  <2>3. rec'[w].job \in accepted
    <3>1. Visible(rec[w].id)
      BY <2>1 DEF Visible, Listed
    <3> QED BY <1>0, <1>3, <2>1, <3>1 DEF Entered, HasEnvelope
  <2>4. Entered'
    BY <1>0, <2>1, <2>2, <2>3, ShownBefore, EnteredKept DEF Apart
  <2> QED BY <1>0, <2>2, <2>4, OrderKept
<1>4. CASE RecordFailed(w)
  <2>1. /\ KeyFrame /\ rec' = rec /\ accepted' = accepted
        /\ rec[w].job \in Jobs /\ nextId \in Ids
        /\ failed' = [failed EXCEPT ![nextId] = rec[w].job]
    BY <1>0, <1>4, RecordFailedFrame
  <2>2. stored' = stored /\ pc[w] \in Named
    BY <1>4 DEF RecordFailed, callVars, Named, Working, Failed
  <2>3. rec[w].job \in accepted
    BY <1>0, <2>2 DEF Entered
  <2>4. \A i \in Ids : failed'[i] \in {failed[i], NoJob} \cup accepted'
    BY <1>0, <2>1, <2>3 DEF Keyed, Typed, TypeOK
  <2>5. Entered'
    BY <1>0, <2>1, <2>2, <2>4, ShownBefore, EnteredKept DEF Apart
  <2> QED BY <1>0, <2>1, <2>5, OrderKept
<1>5. CASE StoreLink(w)
  <2>1. /\ pc[w] = "chaining" /\ StoreNew(w, NextLink[rec[w].job])
        /\ UNCHANGED <<pc, rec, accepted, failed, ready, delayed, todo>>
    BY <1>5 DEF StoreLink, procVars, failedVars
  <2>2. NextLink[rec[w].job] \in Jobs
    BY <1>0, <2>1, NextMayEnter
  <2>3. KeyFrame
    BY <1>0, <2>1, <2>2, StoreFrame
  <2>4. \A i \in Ids : Visible(i)' => Visible(i)
    BY <2>1 DEF Visible, Listed, InReady
  <2>5. Entered'
    BY <1>0, <2>1, <2>3, <2>4, EnteredKept
  <2> QED BY <1>0, <2>1, <2>5, OrderKept
<1>6. CASE ListLink(w)
  <2>1. /\ stored[w] # 0 /\ stored' = [stored EXCEPT ![w] = 0] /\ LPush(stored[w])
        /\ UNCHANGED <<envelopes, failed, op, todo, rec, nextId, delayed>>
        /\ pc[w] = "chaining" /\ pc' = [pc EXCEPT ![w] = "deleting"]
        /\ accepted' = accepted \cup {NextLink[rec[w].job]}
    BY <1>6 DEF ListLink, List, Goto, failedVars
  <2>2. \A x \in Workers : pc'[x] \in Named => pc[x] \in Named
    BY <1>0, <2>1 DEF Apart, Named, Working
  <2>3. KeyFrame
    BY <1>0, <2>1, <2>2, ListFrame
  <2>4. envelopes[stored[w]].job = NextLink[rec[w].job]
    BY <1>0, <2>1 DEF Keyed, StoredLink
  <2>5. \A i \in Ids : Visible(i)' => Visible(i) \/ i = stored[w]
    <3>1. \A i : InReady(i)' <=> i = stored[w] \/ InReady(i)
      BY <1>0, <2>1, PushReady DEF Keyed, Typed, TypeOK
    <3> QED BY <2>1, <3>1 DEF Visible, Listed
  <2>6. Entered'
    BY <1>0, <2>1, <2>2, <2>3, <2>4, <2>5, EnteredKept
  <2>7. Promise!MayEnter(NextLink[rec[w].job])
    BY <1>0, <2>1, NextMayEnter
  <2> QED BY <1>0, <2>1, <2>6, <2>7, OrderKept
<1> QED BY <1>1, <1>2, <1>3, <1>4, <1>5, <1>6 DEF WorkerStep

LEMMA OperatorsOrdered ==
    ASSUME Ordered, Safe', NEW o \in Operators, OperatorStep(o)
    PROVE  Entered' /\ ChainOrder'
<1>0. /\ Safe /\ Keyed /\ Keyed' /\ Entered /\ ChainOrder /\ Grows /\ o \in Pushers
      /\ UNCHANGED <<pc, rec, accepted>>
      /\ op \in [Operators -> Retry] /\ Retrying(o) /\ StoredRetry(o)
      /\ \A x \in Operators \ {o} : op'[x] = op[x]
      /\ failed \in [Ids -> Jobs \cup {NoJob}] /\ stored \in [Pushers -> Ids \cup {0}]
  BY OperatorSafe DEF Ordered, Safe, Keyed, Typed, TypeOK, Pushers
<1>1. ChainOrder'
  BY <1>0, OrderKept
<1>2. CASE RetryStore(o)
  <2>1. /\ op[o].job \in Jobs /\ StoreNew(o, op[o].job)
        /\ UNCHANGED <<op, failed, ready, delayed, todo>>
    BY <1>0, <1>2 DEF RetryStore, Retrying, failedVars
  <2>2. KeyFrame
    BY <1>0, <2>1, StoreFrame
  <2>3. \A i \in Ids : Visible(i)' => Visible(i)
    BY <1>0, <2>1 DEF Visible, Listed, InReady
  <2>4. Entered'
    BY <1>0, <2>1, <2>2, <2>3, EnteredKept
  <2> QED BY <1>1, <2>4
<1>3. CASE RetryList(o)
  <2>1. /\ stored[o] # 0 /\ stored' = [stored EXCEPT ![o] = 0] /\ LPush(stored[o])
        /\ UNCHANGED <<envelopes, failed, todo, nextId, delayed>>
        /\ op[o].step = "found" /\ op' = [op EXCEPT ![o].step = "pushed"]
    BY <1>3 DEF RetryList, RetryPushed, List
  <2>2. op'[o].job = op[o].job
    BY <1>0, <2>1 DEF Retry
  <2>3. KeyFrame
    BY <1>0, <2>1, ListFrame
  <2>4. envelopes[stored[o]].job = op[o].job /\ op[o].job \in accepted
    BY <1>0, <2>1 DEF StoredRetry, Entered
  <2>5. \A i \in Ids : Visible(i)' => Visible(i) \/ i = stored[o]
    <3>1. \A i : InReady(i)' <=> i = stored[o] \/ InReady(i)
      BY <1>0, <2>1, PushReady DEF Keyed, Typed, TypeOK
    <3> QED BY <1>0, <2>1, <3>1 DEF Visible, Listed
  <2>6. Entered'
    BY <1>0, <2>1, <2>2, <2>3, <2>4, <2>5, EnteredKept
  <2> QED BY <1>1, <2>6
<1>4. CASE \/ RetryStops(o)
           \/ (RetryFind(o) \/ RetryDelete(o)) /\ UNCHANGED <<procVars, keyVars, callVars>>
  <2>1. /\ UNCHANGED <<keyVars, todo>> /\ stored' \in {stored, [stored EXCEPT ![o] = 0]}
        /\ \A i \in Ids : failed'[i] \in {failed[i], NoJob}
        /\ \/ op'[o] = NoRetry
           \/ op'[o].job \in accepted
    <3>1. CASE RetryStops(o) \/ (RetryDelete(o) /\ UNCHANGED <<procVars, keyVars, callVars>>)
      BY <1>0, <3>1 DEF RetryStops, RetryKilled, RetryDelete, DeleteFailed, callVars
    <3>2. CASE RetryFind(o) /\ UNCHANGED <<procVars, keyVars, callVars>>
      BY <1>0, <3>2 DEF RetryFind, callVars, Entered
    <3> QED BY <1>4, <3>1, <3>2
  <2>2. \A i \in Ids : Visible(i)' => Visible(i)
    BY <1>0, <2>1 DEF Visible, Listed, InReady, keyVars
  <2>3. \A i \in Ids : envelopes'[i] = envelopes[i]
    BY <2>1 DEF keyVars
  <2>4. Entered'
    BY <1>0, <2>1, <2>2, <2>3 DEF Entered, NoRetry
  <2> QED BY <1>1, <2>4
<1> QED BY <1>2, <1>3, <1>4 DEF OperatorStep

LEMMA OutsideOrdered ==
    ASSUME Ordered, Safe',
           \/ \E p \in Producers : Produce(p)
           \/ \E i \in Ids : BecomesDue(i) \/ ForgetFailed(i)
           \/ UNCHANGED vars
    PROVE  Entered' /\ ChainOrder'
<1>0. /\ Safe /\ Keyed /\ Keyed' /\ Entered /\ ChainOrder /\ Grows
      /\ UNCHANGED <<pc, rec, op>> /\ Producers \subseteq Pushers /\ StoredJobs
  BY OutsideSafe DEF Ordered, Safe, Keyed, Pushers
<1>1. ASSUME NEW p \in Producers, NEW j \in Jobs, DispatchStore(p, j)
      PROVE  Entered' /\ ChainOrder'
  <2>1. StoreNew(p, j) /\ UNCHANGED <<accepted, failed, ready, delayed, todo>>
    BY <1>1 DEF DispatchStore, procVars, failedVars
  <2>2. KeyFrame
    BY <1>0, <2>1, StoreFrame
  <2>3. \A i \in Ids : Visible(i)' => Visible(i)
    BY <1>0, <2>1 DEF Visible, Listed, InReady
  <2>4. Entered'
    BY <1>0, <2>1, <2>2, <2>3, EnteredKept
  <2> QED BY <1>0, <2>1, <2>4, OrderKept
<1>2. ASSUME NEW p \in Producers, DispatchReady(p) \/ DispatchLater(p)
      PROVE  Entered' /\ ChainOrder'
  <2>1. /\ stored[p] # 0 /\ stored' = [stored EXCEPT ![p] = 0]
        /\ UNCHANGED <<envelopes, failed, todo, nextId>>
        /\ \/ LPush(stored[p]) /\ delayed' = delayed
           \/ ZAddDelayed(stored[p]) /\ ready' = ready
        /\ accepted' = accepted \cup {envelopes[stored[p]].job}
    BY <1>2 DEF DispatchReady, DispatchLater, List, failedVars
  <2>2. KeyFrame
    BY <1>0, <2>1, ListFrame
  <2>3. \A i \in Ids : Visible(i)' => Visible(i) \/ i = stored[p]
    <3>1. CASE LPush(stored[p]) /\ delayed' = delayed
      <4>1. \A i : InReady(i)' <=> i = stored[p] \/ InReady(i)
        BY <1>0, <2>1, <3>1, PushReady DEF Keyed, Typed, TypeOK
      <4> QED BY <1>0, <2>1, <3>1, <4>1 DEF Visible, Listed
    <3>2. CASE ZAddDelayed(stored[p]) /\ ready' = ready
      BY <1>0, <2>1, <3>2 DEF Visible, Listed, InReady, ZAddDelayed
    <3> QED BY <2>1, <3>1, <3>2
  <2>4. Entered'
    BY <1>0, <2>1, <2>2, <2>3, EnteredKept
  <2>5. envelopes[stored[p]].job \in Heads
    BY <1>0, <2>1 DEF StoredJobs
  <2> QED BY <1>0, <2>1, <2>4, <2>5, HeadMayEnter, OrderKept
<1>3. CASE (\E i \in Ids : BecomesDue(i) \/ ForgetFailed(i)) \/ UNCHANGED vars
  <2>1. /\ UNCHANGED <<envelopes, ready, delayed, todo, accepted>>
        /\ \A i \in Ids : failed'[i] \in {failed[i], NoJob}
    <3>1. failed \in [Ids -> Jobs \cup {NoJob}]
      BY <1>0 DEF Keyed, Typed, TypeOK
    <3> QED BY <1>3, <3>1 DEF BecomesDue, ForgetFailed, Forget, DeleteFailed, vars, procVars,
                              failedVars, keyVars, callVars
  <2>2. \A i \in Ids : Visible(i)' => Visible(i)
    BY <1>0, <2>1 DEF Visible, Listed, InReady
  <2>3. Entered'
    BY <1>0, <2>1, <2>2 DEF Entered
  <2> QED BY <1>0, <2>1, <2>3, OrderKept
<1> QED BY <1>1, <1>2, <1>3 DEF Produce

----------------------------------------------------------------------------
(* Each step is a step of the promise *)

LEMMA WorkersDeliver ==
    ASSUME Ordered, NEW w \in Workers, WorkerStep(w) \/ Disturb(w)
    PROVE  PromiseStep
<1>0. /\ Safe /\ Keyed /\ Entered /\ ChainOrder /\ w \in Pushers
      /\ failed \in [Ids -> Jobs \cup {NoJob}] /\ envelopes \in [Ids -> Envelope]
  BY DEF Ordered, Safe, Keyed, Typed, TypeOK, Pushers
<1>a. pc[w] \in Named => /\ rec[w].id \in Ids /\ rec[w].job \in Jobs
                         /\ envelopes[rec[w].id].job \in {rec[w].job, NoJob}
                         /\ rec[w].job \in accepted
                         /\ Promise!MayEnter(rec[w].job)
  BY <1>0, KeyInHand, AcceptedMayEnter DEF Entered
<1>1. CASE StoreLink(w)
  <2>1. /\ pc[w] = "chaining" /\ StoreNew(w, NextLink[rec[w].job])
        /\ UNCHANGED <<failed, accepted, done, forgotten>>
    BY <1>1 DEF StoreLink, procVars, failedVars
  <2> QED BY <1>0, <2>1, NextMayEnter, StoreEnters
<1>2. CASE ListLink(w)
  <2>1. /\ pc[w] = "chaining" /\ stored[w] # 0
        /\ UNCHANGED <<envelopes, failed, done, forgotten>>
        /\ accepted' = accepted \cup {NextLink[rec[w].job]}
    BY <1>2 DEF ListLink, List, failedVars
  <2>2. PICK h \in Ids : h = stored[w]
    BY <1>0, <2>1 DEF Keyed, Typed, TypeOK
  <2>3. envelopes[h].job = NextLink[rec[w].job]
    BY <1>0, <2>1, <2>2 DEF Keyed, StoredLink
  <2> QED BY <1>0, <2>1, <2>3, NextMayEnter, Acknowledges
<1>3. CASE RecordFailed(w)
  <2>1. /\ nextId \in Ids /\ failed[nextId] = NoJob
        /\ failed' = [failed EXCEPT ![nextId] = rec[w].job]
        /\ UNCHANGED <<envelopes, accepted, done, forgotten>>
    BY <1>0, <1>3, RecordFailedFrame
  <2>2. pc[w] \in Named
    BY <1>3 DEF RecordFailed, Named, Working, Failed
  <2>3. PICK h \in Ids : h = nextId
    BY <2>1
  <2>4. failed'[h] = rec[w].job /\ \A i \in Ids \ {h} : failed'[i] = failed[i]
    BY <1>0, <2>1, <2>3
  <2> QED BY <1>a, <2>1, <2>2, <2>3, <2>4, Enters
<1>4. CASE SavePopped(w) \/ ReleaseSave(w)
  <2>1. /\ pc[w] \in Named /\ \E n : SetEnvelope(rec[w].id, rec[w].job, n)
        /\ UNCHANGED <<failed, accepted, done, forgotten>>
    BY <1>4 DEF SavePopped, ReleaseSave, Releasing, Named, Working, Failed, procVars, failedVars
  <2>2. PICK h \in Ids : h = rec[w].id
    BY <1>a, <2>1
  <2>3. envelopes'[h].job = rec[w].job /\ \A i \in Ids \ {h} : envelopes'[i] = envelopes[i]
    BY <1>0, <2>1, <2>2 DEF SetEnvelope
  <2> QED BY <1>a, <2>1, <2>2, <2>3, Enters
<1>5. CASE DeleteKey(w)
  <2>1. /\ pc[w] \in {"deleting", "burying"} /\ DelEnvelope(rec[w].id)
        /\ UNCHANGED <<failed, accepted, done, forgotten>>
    BY <1>5 DEF DeleteKey, Deleting, procVars, failedVars
  <2>2. PICK h \in Ids, j \in Jobs : h = rec[w].id /\ j = rec[w].job
    BY <1>a, <2>1 DEF Named, Working
  <2>3. envelopes'[h].job = NoJob /\ \A i \in Ids \ {h} : envelopes'[i] = envelopes[i]
    BY <1>0, <2>1, <2>2 DEF DelEnvelope, NoEnvelope
  <2>4. CoveredAfter(h, j)
    BY <1>0, <2>1, <2>2 DEF Safe, WorkerSecured, CoveredAfter
  <2> QED BY <1>a, <2>1, <2>2, <2>3, <2>4, Deletes DEF Named, Working
<1>6. CASE HandleSucceeds(w) /\ UNCHANGED <<failedVars, keyVars, callVars>>
  <2>1. /\ pc[w] = "handling" /\ done' = done \cup {rec[w].job} /\ accepted' = accepted
        /\ UNCHANGED <<failed, envelopes, forgotten>>
    BY <1>6 DEF HandleSucceeds, failedVars, keyVars
  <2>2. PICK j \in Jobs : j = rec[w].job /\ j \in accepted
    BY <1>a, <2>1 DEF Named, Working
  <2>3. OnRecord' = OnRecord
    BY <2>1 DEF OnRecord, Holds
  <2>4. Promise!Run(j)
    BY <2>1, <2>2, <2>3 DEF Promise!Run
  <2> QED BY <2>4 DEF PromiseStep, Promise!Next
<1>7. CASE \/ Scan(w) \/ PromoteRemove(w) \/ PromotePush(w) \/ PopReady(w)
           \/ LoadPopped(w) \/ Reserve(w) \/ PopFails(w)
           \/ DeleteLoad(w) \/ DeleteReserved(w) \/ DeleteDelayed(w)
           \/ ReleaseLoad(w) \/ ReleaseReserved(w) \/ ReleaseDelay(w)
  <2>1. UNCHANGED <<envelopes, failed, accepted, done, forgotten>>
    BY <1>7 DEF Scan, PromoteRemove, PromotePush, PopReady, LoadPopped, Reserve, PopFails,
                DeleteLoad, DeleteReserved, DeleteDelayed, ReleaseLoad, ReleaseReserved,
                ReleaseDelay, procVars, failedVars, keyVars
  <2> QED BY <2>1, Stutters
<1>8. CASE (LoopStep(w) /\ ~HandleSucceeds(w)) \/ CallFails(w) \/ Disturb(w)
  <2>1. UNCHANGED <<envelopes, failed, accepted, done, forgotten>>
    BY <1>8 DEF LoopStep, HandleFails, Exit, CallFails, StepFails, Disturb, Kill, Crash, Shutdown,
                Restart, failedVars, keyVars
  <2> QED BY <2>1, Stutters
<1> QED BY <1>1, <1>2, <1>3, <1>4, <1>5, <1>6, <1>7, <1>8 DEF WorkerStep, LoopStep

LEMMA OthersDeliver ==
    ASSUME Ordered,
           \/ \E p \in Producers : Produce(p)
           \/ \E i \in Ids : BecomesDue(i) \/ ForgetFailed(i)
           \/ \E o \in Operators : OperatorStep(o)
           \/ UNCHANGED vars
    PROVE  PromiseStep
<1>0. /\ Safe /\ Keyed /\ Entered /\ ChainOrder /\ Producers \cup Operators \subseteq Pushers
      /\ failed \in [Ids -> Jobs \cup {NoJob}] /\ StoredJobs
  BY DEF Ordered, Safe, Keyed, Typed, TypeOK, Pushers
<1>1. ASSUME NEW p \in Producers, NEW j \in Jobs, DispatchStore(p, j) PROVE PromiseStep
  <2>1. /\ StoreNew(p, j) /\ j \in Heads /\ UNCHANGED <<failed, accepted, done, forgotten>>
    BY <1>1 DEF DispatchStore, procVars, failedVars
  <2> QED BY <1>0, <2>1, HeadMayEnter, StoreEnters
<1>2. ASSUME NEW p \in Producers, DispatchReady(p) \/ DispatchLater(p) PROVE PromiseStep
  <2>1. /\ stored[p] # 0 /\ UNCHANGED <<envelopes, failed, done, forgotten>>
        /\ accepted' = accepted \cup {envelopes[stored[p]].job}
    BY <1>2 DEF DispatchReady, DispatchLater, List, failedVars
  <2>2. PICK h \in Ids : h = stored[p]
    BY <1>0, <2>1 DEF Keyed, Typed, TypeOK
  <2>3. envelopes[h].job \in Heads
    BY <1>0, <2>1, <2>2 DEF StoredJobs
  <2> QED BY <2>1, <2>2, <2>3, HeadMayEnter, Acknowledges
<1>3. ASSUME NEW i \in Ids, ForgetFailed(i) PROVE PromiseStep
  <2>1. /\ UNCHANGED <<envelopes, accepted, done>>
        /\ failed[i] \in Jobs /\ forgotten' = forgotten \cup {failed[i]}
        /\ failed'[i] = NoJob /\ \A k \in Ids \ {i} : failed'[k] = failed[k]
    BY <1>0, <1>3 DEF ForgetFailed, Forget, DeleteFailed, procVars, keyVars
  <2>2. PICK j \in Jobs : j = failed[i]
    BY <2>1
  <2>3. /\ \A x \in Jobs \ {j}, k \in Ids : Holds(k, x)' <=> Holds(k, x)
        /\ Holds(i, j)
    BY <2>1, <2>2 DEF Holds
  <2>4. OnRecord' \in {OnRecord, OnRecord \ {j}} /\ j \in OnRecord
    <3>1. CASE \E k \in Ids : Holds(k, j)'
      <4>1. OnRecord' = OnRecord
        BY <2>3, <3>1 DEF OnRecord
      <4> QED BY <2>3, <4>1 DEF OnRecord
    <3>2. CASE ~\E k \in Ids : Holds(k, j)'
      <4>1. OnRecord' = OnRecord \ {j}
        BY <2>3, <3>2 DEF OnRecord
      <4> QED BY <2>3, <4>1 DEF OnRecord
    <3> QED BY <3>1, <3>2
  <2>5. Promise!Discard(j)
    BY <2>1, <2>2, <2>4 DEF Promise!Discard
  <2> QED BY <2>5 DEF PromiseStep, Promise!Next
<1>4. ASSUME NEW o \in Operators, RetryStore(o) PROVE PromiseStep
  <2>1. /\ op[o].job \in Jobs /\ op[o].job \in accepted /\ StoreNew(o, op[o].job)
        /\ UNCHANGED <<failed, accepted, done, forgotten>>
    BY <1>0, <1>4 DEF RetryStore, Keyed, Retrying, Entered, procVars, failedVars
  <2>2. Promise!MayEnter(op[o].job)
    BY <1>0, <2>1, AcceptedMayEnter
  <2> QED BY <1>0, <2>1, <2>2, StoreEnters
<1>5. ASSUME NEW o \in Operators, RetryDelete(o), UNCHANGED <<procVars, keyVars, callVars>>
      PROVE  PromiseStep
  <2>1. /\ op[o].id \in Ids /\ op[o].job \in Jobs
        /\ failed[op[o].id] \in {op[o].job, NoJob}
        /\ CoveredAfter(op[o].id, op[o].job)
        /\ failed' = [failed EXCEPT ![op[o].id] = NoJob]
        /\ UNCHANGED <<envelopes, accepted, done, forgotten>>
    BY <1>0, <1>5 DEF RetryDelete, DeleteFailed, Keyed, Retrying, Safe, OperatorSecured, procVars, keyVars
  <2>2. PICK h \in Ids, j \in Jobs : h = op[o].id /\ j = op[o].job
    BY <2>1
  <2>3. failed'[h] = NoJob /\ \A k \in Ids \ {h} : failed'[k] = failed[k]
    BY <1>0, <2>1, <2>2
  <2> QED BY <2>1, <2>2, <2>3, Deletes
<1>6. ASSUME NEW o \in Operators,
             \/ RetryList(o) \/ RetryStops(o)
             \/ RetryFind(o) /\ UNCHANGED <<procVars, keyVars, callVars>>
      PROVE  PromiseStep
  <2>1. UNCHANGED <<envelopes, failed, accepted, done, forgotten>>
    BY <1>6 DEF RetryList, RetryPushed, RetryStops, RetryKilled, RetryFind, procVars, keyVars
  <2> QED BY <2>1, Stutters
<1>7. CASE (\E i \in Ids : BecomesDue(i)) \/ UNCHANGED vars
  <2>1. UNCHANGED <<envelopes, failed, accepted, done, forgotten>>
    BY <1>7 DEF BecomesDue, vars, procVars, failedVars, keyVars
  <2> QED BY <2>1, Stutters
<1> QED BY <1>1, <1>2, <1>3, <1>4, <1>5, <1>6, <1>7 DEF Produce, OperatorStep

LEMMA StepOrdered ==
    ASSUME Ordered, [Next]_vars
    PROVE  Ordered' /\ PromiseStep
<1>1. Safe'
  BY StepSafe DEF Ordered
<1>2. Entered' /\ ChainOrder'
  BY <1>1, WorkersOrdered, OperatorsOrdered, OutsideOrdered DEF Next
<1>3. PromiseStep
  BY WorkersDeliver, OthersDeliver DEF Next
<1> QED BY <1>1, <1>2, <1>3 DEF Ordered

(***************************************************************************)
(* A link is pushed only after the job before it has run.                  *)
(***************************************************************************)
THEOREM RedisChainsAreOrdered == Spec => []ChainOrder
<1>1. Ordered => ChainOrder
  BY DEF Ordered
<1> QED BY <1>1, InitOrdered, StepOrdered, PTL DEF Spec

(***************************************************************************)
(* The Redis queue implements the promise.                                 *)
(***************************************************************************)
THEOREM RedisImplements == Spec => Delivers
<1>1. Init => Promise!Init
  BY DEF Init, ProcInit, FailedInit, Promise!Init, OnRecord, Holds, NoEnvelope
<1>2. Ordered /\ [Next]_vars => Ordered'
  BY StepOrdered
<1>3. Ordered /\ [Next]_vars => [Promise!Next]_(Promise!vars)
  BY StepOrdered DEF PromiseStep
<1> QED BY <1>1, <1>2, <1>3, InitOrdered, PTL DEF Spec, Delivers, Promise!Spec

----------------------------------------------------------------------------
(***************************************************************************)
(* A single worker fails a key at most MaxAttempts times.                  *)
(*                                                                         *)
(* With one worker a key is in one place at a time: once in the ready      *)
(* list, in the delayed set, or in hand, so no envelope is loaded while    *)
(* its key waits elsewhere. Then the count in an envelope that waits has   *)
(* been paid for run by run, and nobody changes the one in hand between    *)
(* the GET of pop() and the SET of release().                              *)
(***************************************************************************)
ListedOnce ==
    /\ \A m, n \in DOMAIN ready : ready[m] = ready[n] => m = n
    /\ \A i \in delayed : ~InReady(i)
    /\ \A w \in Workers : rec[w].id # 0 => rec[w].id \notin delayed /\ ~InReady(rec[w].id)
    /\ \A w \in Workers : todo[w] \subseteq delayed

\* Every delete and every release begins with its first command.
CallsStart == \A w \in Workers : pc[w] \notin {"deleting", "burying", "releasing"} => cmd[w] = 0

\* The key will be popped, or be listed and then popped.
Waits(i) ==
    \/ InReady(i) \/ i \in delayed
    \/ \E p \in Pushers : stored[p] = i
    \/ \E w \in Workers : pc[w] \in {"lifting", "loading"} /\ rec[w].id = i

WaitingExact ==
    \A i \in Ids :
        /\ fails[i] <= MaxAttempts
        /\ i >= nextId => fails[i] = 0
        /\ Waits(i) /\ HasEnvelope(i) =>
             fails[i] <= envelopes[i].attempts /\ envelopes[i].attempts < MaxAttempts

Before == {"saving", "reserving", "handling", "chaining", "deleting"}

CopyExact(w) ==
    /\ pc[w] \in Before =>
         fails[rec[w].id] <= rec[w].attempts /\ rec[w].attempts < MaxAttempts
    /\ pc[w] = "releasing" =>
         fails[rec[w].id] <= rec[w].attempts + 1 /\ rec[w].attempts + 1 < MaxAttempts
    /\ pc[w] \in Before \cup {"releasing"} /\ HasEnvelope(rec[w].id) =>
         envelopes[rec[w].id].attempts =
             IF pc[w] = "releasing" /\ cmd[w] \in {2, 3} THEN rec[w].attempts + 1 ELSE rec[w].attempts

Exact == Keyed /\ ListedOnce /\ CallsStart /\ WaitingExact /\ \A w \in Workers : CopyExact(w)

LEMMA InitExact == Init => Exact
<1> SUFFICES ASSUME Init PROVE Exact
  OBVIOUS
<1>1. Keyed
  BY InitKeyed
<1>2. \A i : ~InReady(i)
  BY DEF Init, InReady
<1>3. ListedOnce /\ CallsStart
  BY <1>2 DEF Init, ProcInit, NoRecord, ListedOnce, CallsStart
<1>4. WaitingExact
  BY DEF Init, ProcInit, NoEnvelope, HasEnvelope, WaitingExact
<1>5. \A w \in Workers : CopyExact(w)
  BY DEF Init, ProcInit, CopyExact, Before
<1> QED BY <1>1, <1>3, <1>4, <1>5 DEF Exact

\* Pushing another key and popping keep the elements of the list distinct.
LEMMA PushOnce ==
    ASSUME ready \in Seq(Ids), NEW i \in Ids, LPush(i), ~InReady(i),
           \A m, n \in DOMAIN ready : ready[m] = ready[n] => m = n
    PROVE  \A m, n \in DOMAIN ready' : ready'[m] = ready'[n] => m = n
<1>1. /\ <<i>> \in Seq(Ids) /\ Len(<<i>>) = 1 /\ <<i>>[1] = i
  OBVIOUS
<1>2. /\ ready' \in Seq(Ids) /\ Len(ready') = 1 + Len(ready)
      /\ \A n \in 1 .. 1 + Len(ready) : ready'[n] = IF n <= 1 THEN <<i>>[n] ELSE ready[n - 1]
  BY <1>1, ConcatProperties DEF LPush
<1>3. DOMAIN ready' = 1 .. 1 + Len(ready) /\ DOMAIN ready = 1 .. Len(ready) /\ Len(ready) \in Nat
  BY <1>2
<1>4. ASSUME NEW n \in 1 .. 1 + Len(ready)
      PROVE  \/ n = 1 /\ ready'[n] = i
             \/ n - 1 \in DOMAIN ready /\ ready'[n] = ready[n - 1] /\ ready'[n] # i
  BY <1>1, <1>2, <1>3 DEF InReady
<1> SUFFICES ASSUME NEW m \in 1 .. 1 + Len(ready), NEW n \in 1 .. 1 + Len(ready), ready'[m] = ready'[n]
             PROVE  m = n
  BY <1>3
<1>5. CASE m = 1 \/ n = 1
  BY <1>4, <1>5
<1>6. CASE m # 1 /\ n # 1
  <2>1. m - 1 \in DOMAIN ready /\ n - 1 \in DOMAIN ready /\ ready[m - 1] = ready[n - 1]
    BY <1>4, <1>6
  <2>2. m - 1 = n - 1
    BY <2>1
  <2> QED BY <1>3, <2>2
<1> QED BY <1>5, <1>6

LEMMA PopOnce ==
    ASSUME ready \in Seq(Ids), ready # <<>>, ready' = Front(ready),
           \A m, n \in DOMAIN ready : ready[m] = ready[n] => m = n
    PROVE  /\ \A m, n \in DOMAIN ready' : ready'[m] = ready'[n] => m = n
           /\ \A k : k = Last(ready) => ~InReady(k)'
<1> DEFINE k == Len(ready)
<1>1. k \in Nat /\ k > 0 /\ DOMAIN ready = 1 .. k /\ \A m \in 1 .. k : ready[m] \in Ids
  OBVIOUS
<1>2. /\ ready' \in Seq(Ids) /\ Len(ready') = k - 1
      /\ \A m \in 1 .. k - 1 : ready'[m] = ready[m]
  <2>1. 1 \in Int /\ k - 1 \in Int /\ \A m \in 1 .. k - 1 : ready[m] \in Ids
    BY <1>1
  <2>2. /\ SubSeq(ready, 1, k - 1) \in Seq(Ids)
        /\ Len(SubSeq(ready, 1, k - 1)) = IF 1 <= k - 1 THEN (k - 1) - 1 + 1 ELSE 0
        /\ \A m \in 1 .. (k - 1) - 1 + 1 : SubSeq(ready, 1, k - 1)[m] = ready[1 + m - 1]
    BY <2>1, SubSeqProperties
  <2> QED BY <1>1, <2>2 DEF Front
<1>3. DOMAIN ready' = 1 .. k - 1
  BY <1>1, <1>2
<1> HIDE DEF k
<1>4. Last(ready) = ready[k]
  BY DEF Last, k
<1>5. ASSUME NEW n \in DOMAIN ready', ready'[n] = ready[k] PROVE FALSE
  <2>1. n \in 1 .. k - 1 /\ n \in DOMAIN ready /\ k \in DOMAIN ready /\ ready[n] = ready[k]
    BY <1>1, <1>2, <1>3, <1>5
  <2>2. n = k
    BY <2>1
  <2> QED BY <1>1, <2>1, <2>2
<1>6. ~\E n \in DOMAIN ready' : ready'[n] = ready[k]
  BY <1>5
<1>7. \A m, n \in DOMAIN ready' : ready'[m] = ready'[n] => m = n
  BY <1>1, <1>2, <1>3
<1>8. \A i : i = Last(ready) => ~\E n \in DOMAIN ready' : ready'[n] = i
  BY <1>4, <1>6
<1> QED BY <1>7, <1>8 DEF InReady

\* Keys are only taken out of the sets and out of hands.
LEMMA ListsKept ==
    ASSUME ListedOnce, ready' = ready, delayed' \subseteq delayed,
           \A x \in Workers : rec'[x].id \in {0, rec[x].id} /\ todo'[x] \subseteq delayed'
    PROVE  ListedOnce'
BY DEF ListedOnce, InReady

\* A key that nobody can see is listed.
LEMMA ListsOneMore ==
    ASSUME Keyed, ListedOnce, UNCHANGED <<rec, todo>>, NEW p \in Pushers, stored[p] # 0,
           \/ LPush(stored[p]) /\ delayed' = delayed
           \/ ZAddDelayed(stored[p]) /\ ready' = ready
    PROVE  ListedOnce'
<1>0. ready \in Seq(Ids) /\ delayed \subseteq Ids /\ stored[p] \in Ids
  BY DEF Keyed, Typed, TypeOK
<1>1. ~InReady(stored[p]) /\ stored[p] \notin delayed /\ \A w \in Workers : rec[w].id # stored[p]
  BY <1>0 DEF Keyed, Hidden, Visible, Listed
<1>2. CASE LPush(stored[p]) /\ delayed' = delayed
  <2>1. \A k : InReady(k)' <=> k = stored[p] \/ InReady(k)
    BY <1>0, <1>2, PushReady
  <2>2. \A m, n \in DOMAIN ready' : ready'[m] = ready'[n] => m = n
    BY <1>0, <1>1, <1>2, PushOnce DEF ListedOnce
  <2> QED BY <1>1, <1>2, <2>1, <2>2 DEF ListedOnce
<1>3. CASE ZAddDelayed(stored[p]) /\ ready' = ready
  BY <1>1, <1>3 DEF ListedOnce, ZAddDelayed, InReady
<1> QED BY <1>2, <1>3

LEMMA SoleListsOnce ==
    ASSUME NEW w, Workers = {w}, Keyed, Keyed', ListedOnce, WorkerStep(w) \/ Disturb(w)
    PROVE  ListedOnce'
<1>a. w \in Workers /\ w \in Pushers /\ Typed /\ Typed' /\ 0 \notin Ids
  BY DEF Pushers, Keyed, Ids
<1>b. /\ rec \in [Workers -> Record] /\ todo \in [Workers -> SUBSET Ids]
      /\ stored \in [Pushers -> Ids \cup {0}]
      /\ ready \in Seq(Ids) /\ delayed \subseteq Ids /\ due \subseteq delayed
  BY <1>a DEF Typed, TypeOK
<1>c. pc[w] \in Holding => rec[w].id \in Ids
  BY <1>a, HandFacts DEF HandOK
<1>0. /\ w \in Workers /\ w \in Pushers /\ Typed /\ Typed' /\ 0 \notin Ids
      /\ rec \in [Workers -> Record] /\ todo \in [Workers -> SUBSET Ids]
      /\ stored \in [Pushers -> Ids \cup {0}]
      /\ ready \in Seq(Ids) /\ delayed \subseteq Ids /\ due \subseteq delayed
      /\ pc[w] \in Holding => rec[w].id \in Ids
  BY <1>a, <1>b, <1>c
<1> USE DEF Named, Holding, Working, Failed
<1>1. CASE PromoteRemove(w)
  <2>1. PICK i \in todo[w] : /\ ZRemDelayed(i)
                             /\ todo' = [todo EXCEPT ![w] = @ \ {i}]
                             /\ rec' = [rec EXCEPT ![w].id = i]
    BY <1>1 DEF PromoteRemove
  <2>2. ready' = ready /\ delayed' = delayed \ {i} /\ i \in delayed
        /\ rec'[w].id = i /\ todo'[w] = todo[w] \ {i}
    BY <1>0, <1>1, <2>1 DEF PromoteRemove, ZRemDelayed, ListedOnce, Record
  <2> QED BY <2>2 DEF ListedOnce, InReady
<1>2. CASE PromotePush(w)
  <2>1. /\ LPush(rec[w].id) /\ rec[w].id \in Ids /\ rec'[w].id = 0
        /\ delayed' = delayed /\ todo' = todo
    BY <1>0, <1>2 DEF PromotePush, NoRecord, callVars
  <2>2. rec[w].id \notin delayed /\ ~InReady(rec[w].id)
    BY <1>0, <2>1 DEF ListedOnce
  <2>3. \A k : InReady(k)' <=> k = rec[w].id \/ InReady(k)
    BY <1>0, <2>1, PushReady
  <2>4. \A m, n \in DOMAIN ready' : ready'[m] = ready'[n] => m = n
    BY <1>0, <2>1, <2>2, PushOnce DEF ListedOnce
  <2> QED BY <2>1, <2>2, <2>3, <2>4 DEF ListedOnce
<1>3. CASE PopReady(w) /\ ready # <<>>
  <2>1. /\ ready' = Front(ready) /\ rec'[w].id = Last(ready)
        /\ delayed' = delayed /\ todo' = todo
    BY <1>0, <1>3 DEF PopReady, Record, callVars
  <2>2. /\ \A k : InReady(k)' => InReady(k)
        /\ InReady(Last(ready))
    BY <1>0, <1>3, <2>1, PopReadyTail
  <2>3. /\ \A m, n \in DOMAIN ready' : ready'[m] = ready'[n] => m = n
        /\ \A k : k = Last(ready) => ~InReady(k)'
    BY <1>0, <1>3, <2>1, PopOnce DEF ListedOnce
  <2>4. rec'[w].id \notin delayed /\ ~InReady(rec[w].id)'
    BY <2>1, <2>2, <2>3 DEF ListedOnce
  <2>5. \A i \in delayed' : ~InReady(i)'
    BY <2>1, <2>2 DEF ListedOnce
  <2>6. todo'[w] \subseteq delayed'
    BY <1>0, <2>1 DEF ListedOnce
  <2> QED BY <2>1, <2>3, <2>4, <2>5, <2>6 DEF ListedOnce
<1>4. CASE ListLink(w)
  <2>1. /\ LPush(stored[w]) /\ stored[w] \in Ids
        /\ delayed' = delayed /\ UNCHANGED <<rec, todo>>
    BY <1>0, <1>4 DEF ListLink, List
  <2> QED BY <1>0, <2>1, ListsOneMore
<1>5. CASE ReleaseDelay(w)
  <2>1. /\ rec[w].id \in Ids /\ ZAddDelayed(rec[w].id) /\ rec'[w].id = 0
        /\ UNCHANGED <<ready, todo>>
    BY <1>0, <1>5 DEF ReleaseDelay, Releasing, NextJob, NoRecord
  <2> QED BY <1>0, <2>1 DEF ListedOnce, InReady, ZAddDelayed
<1>6. CASE DeleteDelayed(w)
  <2>1. /\ rec[w].id \in Ids /\ ZRemDelayed(rec[w].id) /\ rec'[w].id = 0
        /\ UNCHANGED <<ready, todo>>
    BY <1>0, <1>6 DEF DeleteDelayed, Deleting, NextJob, NoRecord
  <2>2. delayed' = delayed
    BY <1>0, <2>1 DEF ListedOnce, ZRemDelayed
  <2> QED BY <1>0, <2>1, <2>2, ListsKept DEF ListedOnce
<1>7. CASE ~(\/ PromoteRemove(w) \/ PromotePush(w) \/ (PopReady(w) /\ ready # <<>>) \/ ListLink(w)
             \/ ReleaseDelay(w) \/ DeleteDelayed(w))
  <2>1. ready' = ready /\ delayed' = delayed
    BY <1>7 DEF WorkerStep, Disturb, Kill, Scan, PopReady, LoadPopped, SavePopped, Reserve, PopFails,
                LoopStep, CallFails, StoreLink, DeleteLoad, DeleteKey, DeleteReserved, RecordFailed,
                ReleaseLoad, ReleaseSave, ReleaseReserved, keyVars
  <2>2. rec'[w].id \in {0, rec[w].id}
    <3>1. CASE LoadPopped(w) \/ ReleaseLoad(w)
      BY <1>0, <3>1 DEF LoadPopped, ReleaseLoad, NextJob, NoRecord, Record
    <3>2. CASE ~(LoadPopped(w) \/ ReleaseLoad(w))
      BY <1>0, <1>7, <3>2 DEF WorkerStep, Disturb, Kill, Crash, Shutdown, Restart, Scan, PopReady,
                  SavePopped, Reserve, PopFails, LoopStep, HandleSucceeds, HandleFails, Exit, CallFails,
                  StepFails, StoreLink, DeleteLoad, DeleteKey, DeleteReserved, RecordFailed, ReleaseSave,
                  ReleaseReserved, NextJob, NoRecord, procVars
    <3> QED BY <3>1, <3>2
  <2>3. todo'[w] \in {{}, due, todo[w]}
    BY <1>0, <1>7 DEF WorkerStep, Disturb, Kill, Scan, PopReady, LoadPopped, SavePopped, Reserve,
                PopFails, LoopStep, CallFails, StoreLink, DeleteLoad, DeleteKey, DeleteReserved,
                RecordFailed, ReleaseLoad, ReleaseSave, ReleaseReserved, callVars
  <2>4. todo'[w] \subseteq delayed'
    BY <1>0, <2>1, <2>3 DEF ListedOnce
  <2> QED BY <2>1, <2>2, <2>4, ListsKept
<1> QED BY <1>1, <1>2, <1>3, <1>4, <1>5, <1>6, <1>7

LEMMA OthersListOnce ==
    ASSUME Keyed, Keyed', ListedOnce,
           \/ \E p \in Producers : Produce(p)
           \/ \E i \in Ids : BecomesDue(i) \/ ForgetFailed(i)
           \/ \E o \in Operators : OperatorStep(o)
           \/ UNCHANGED vars
    PROVE  ListedOnce'
<1>0. Typed /\ Typed' /\ stored \in [Pushers -> Ids \cup {0}] /\ UNCHANGED <<rec, todo>>
  BY DEF Keyed, Typed, TypeOK, Produce, DispatchStore, DispatchReady, DispatchLater, BecomesDue,
         ForgetFailed, OperatorStep, RetryStore, RetryList, RetryStops, vars, procVars, callVars
<1>1. ASSUME NEW p \in Pushers, stored[p] # 0,
             \/ LPush(stored[p]) /\ delayed' = delayed
             \/ ZAddDelayed(stored[p]) /\ ready' = ready
      PROVE  ListedOnce'
  BY <1>0, <1>1, ListsOneMore
<1>2. ASSUME NEW p \in Producers, DispatchReady(p) \/ DispatchLater(p) PROVE ListedOnce'
  BY <1>1, <1>2 DEF DispatchReady, DispatchLater, List, Pushers
<1>3. ASSUME NEW o \in Operators, RetryList(o) PROVE ListedOnce'
  BY <1>1, <1>3 DEF RetryList, List, Pushers
<1>4. CASE ready' = ready /\ delayed' = delayed
  BY <1>0, <1>4, ListsKept DEF ListedOnce
<1> QED BY <1>2, <1>3, <1>4 DEF Produce, DispatchStore, BecomesDue, ForgetFailed, OperatorStep, RetryStore,
                                RetryStops, vars, keyVars

----------------------------------------------------------------------------
\* What a worker runs waits nowhere.
LEMMA InHandNotWaiting ==
    ASSUME NEW w, Workers = {w}, Keyed, ListedOnce, pc[w] \in Named
    PROVE  rec[w].id \in Ids /\ rec[w].id < nextId /\ ~Waits(rec[w].id)
<1>1. w \in Workers /\ Typed
  BY DEF Keyed
<1>2. rec[w].id \in Ids
  BY <1>1, HandFacts DEF HandOK, Holding
<1>3. Visible(rec[w].id)
  BY <1>1 DEF Visible, Listed
<1>4. rec[w].id < nextId
  BY <1>2, <1>3 DEF Keyed, Fresh
<1>5. \A p \in Pushers : stored[p] # rec[w].id
  BY <1>2, <1>3 DEF Keyed, Hidden
<1>6. rec[w].id \notin delayed /\ ~InReady(rec[w].id)
  BY <1>1, <1>2 DEF ListedOnce, Ids
<1> QED BY <1>2, <1>4, <1>5, <1>6 DEF Waits, Named, Working, Failed

\* The last command of a push.
LEMMA ListWaits ==
    ASSUME Keyed, NEW p \in Pushers, stored[p] # 0, stored' = [stored EXCEPT ![p] = 0], rec' = rec,
           \A x \in Workers : pc'[x] = pc[x] \/ pc'[x] \notin {"lifting", "loading"},
           \/ LPush(stored[p]) /\ delayed' = delayed
           \/ ZAddDelayed(stored[p]) /\ ready' = ready
    PROVE  \A i \in Ids : Waits(i)' => Waits(i)
<1>1. ready \in Seq(Ids) /\ stored[p] \in Ids /\ stored \in [Pushers -> Ids \cup {0}]
  BY DEF Keyed, Typed, TypeOK
<1>2. \A i \in Ids : InReady(i)' \/ i \in delayed' => InReady(i) \/ i \in delayed \/ i = stored[p]
  <2>1. CASE LPush(stored[p]) /\ delayed' = delayed
    BY <1>1, <2>1, PushReady
  <2>2. CASE ZAddDelayed(stored[p]) /\ ready' = ready
    BY <2>2 DEF ZAddDelayed, InReady
  <2> QED BY <2>1, <2>2
<1>3. \A i \in Ids, q \in Pushers : stored'[q] = i => stored[q] = i
  BY <1>1 DEF Ids
<1> QED BY <1>2, <1>3 DEF Waits

\* A key that is drawn waits with its producer, a released one in the delayed set.
LEMMA SoleWaits ==
    ASSUME NEW w, Workers = {w}, Keyed, ListedOnce, WorkerStep(w) \/ Disturb(w)
    PROVE  \A i \in Ids : Waits(i)' => \/ Waits(i)
                                       \/ StoreLink(w) /\ i = nextId
                                       \/ ReleaseDelay(w) /\ i = rec[w].id
<1>a. w \in Workers /\ w \in Pushers /\ Typed /\ 0 \notin Ids
  BY DEF Pushers, Keyed, Ids
<1>b. /\ rec \in [Workers -> Record] /\ todo \in [Workers -> SUBSET Ids]
      /\ pc \in [Workers -> {"idle"} \cup Popping \cup Working \cup Down]
      /\ stored \in [Pushers -> Ids \cup {0}] /\ ready \in Seq(Ids)
  BY <1>a DEF Typed, TypeOK
<1>c. pc[w] \in Holding => rec[w].id \in Ids
  BY <1>a, HandFacts DEF HandOK
<1>0. /\ w \in Workers /\ w \in Pushers /\ 0 \notin Ids
      /\ rec \in [Workers -> Record] /\ todo \in [Workers -> SUBSET Ids]
      /\ pc \in [Workers -> {"idle"} \cup Popping \cup Working \cup Down]
      /\ stored \in [Pushers -> Ids \cup {0}] /\ ready \in Seq(Ids)
      /\ pc[w] \in Holding => rec[w].id \in Ids
  BY <1>a, <1>b, <1>c
<1> USE DEF Named, Holding, Popping, Working, Failed, Down
<1>1. CASE PromoteRemove(w)
  <2>1. PICK i \in todo[w] : /\ ZRemDelayed(i)
                             /\ rec' = [rec EXCEPT ![w].id = i]
    BY <1>1 DEF PromoteRemove
  <2>2. ready' = ready /\ delayed' = delayed \ {i} /\ i \in delayed /\ stored' = stored /\ rec'[w].id = i
    BY <1>0, <1>1, <2>1 DEF PromoteRemove, ZRemDelayed, ListedOnce, Record
  <2> QED BY <2>2 DEF Waits, InReady
<1>2. CASE PromotePush(w)
  <2>1. /\ LPush(rec[w].id) /\ rec[w].id \in Ids /\ pc[w] = "lifting" /\ pc'[w] = "promoting"
        /\ delayed' = delayed /\ stored' = stored
    BY <1>0, <1>2 DEF PromotePush, Goto, callVars
  <2>2. \A k : InReady(k)' <=> k = rec[w].id \/ InReady(k)
    BY <1>0, <2>1, PushReady
  <2> QED BY <1>0, <2>1, <2>2 DEF Waits
<1>3. CASE PopReady(w) /\ ready # <<>>
  <2>1. ready' = Front(ready) /\ rec'[w].id = Last(ready) /\ delayed' = delayed /\ stored' = stored
    BY <1>0, <1>3 DEF PopReady, Record, callVars
  <2>2. (\A k : InReady(k)' => InReady(k)) /\ InReady(Last(ready))
    BY <1>0, <1>3, <2>1, PopReadyTail
  <2>3. PICK l : l = Last(ready)
    OBVIOUS
  <2> QED BY <2>1, <2>2, <2>3 DEF Waits
<1>4. CASE ListLink(w)
  <2>1. /\ LPush(stored[w]) /\ delayed' = delayed /\ stored[w] # 0
        /\ stored' = [stored EXCEPT ![w] = 0] /\ rec' = rec
        /\ \A x \in Workers : pc'[x] \notin {"lifting", "loading"}
    BY <1>0, <1>4 DEF ListLink, List, Goto
  <2> QED BY <1>0, <2>1, ListWaits
<1>5. CASE ReleaseDelay(w)
  <2>1. ZAddDelayed(rec[w].id) /\ ready' = ready /\ stored' = stored /\ pc'[w] = "idle"
    BY <1>0, <1>5 DEF ReleaseDelay, NextJob, Goto
  <2> QED BY <1>5, <2>1 DEF Waits, InReady, ZAddDelayed
<1>6. CASE StoreLink(w)
  <2>1. ready' = ready /\ delayed' = delayed /\ stored' = [stored EXCEPT ![w] = nextId] /\ UNCHANGED <<pc, rec>>
    BY <1>6 DEF StoreLink, StoreNew, procVars
  <2> QED BY <1>0, <1>6, <2>1 DEF Waits, InReady
<1>7. CASE ~(\/ PromoteRemove(w) \/ PromotePush(w) \/ (PopReady(w) /\ ready # <<>>) \/ ListLink(w)
             \/ ReleaseDelay(w) \/ StoreLink(w))
  <2>1. ready' = ready /\ delayed' \subseteq delayed
    BY <1>7 DEF WorkerStep, Disturb, Kill, Scan, PopReady, LoadPopped, SavePopped, Reserve, PopFails,
                LoopStep, CallFails, DeleteLoad, DeleteKey, DeleteReserved, DeleteDelayed, RecordFailed,
                ReleaseLoad, ReleaseSave, ReleaseReserved, ZRemDelayed, keyVars
  <2>2. pc'[w] \in {"lifting", "loading"} => pc'[w] = pc[w] /\ rec' = rec
    <3>1. CASE LoopStep(w) \/ CallFails(w) \/ PopFails(w) \/ Kill(w) \/ Restart(w)
      <4>1. PICK l \in ({"idle"} \cup Working \cup Down) : pc' = [pc EXCEPT ![w] = l]
        BY <3>1 DEF Kill, Crash, Restart, PopFails, LoopStep, HandleSucceeds, HandleFails, Exit,
                    CallFails, StepFails, Catch, NextJob, Goto
      <4> QED BY <1>0, <4>1
    <3>2. CASE Scan(w) \/ (PopReady(w) /\ ready = <<>>) \/ LoadPopped(w) \/ SavePopped(w) \/ Reserve(w)
      <4>1. PICK l \in {"idle", "promoting", "saving", "reserving", "handling"} : pc' = [pc EXCEPT ![w] = l]
        BY <3>2 DEF Scan, PopReady, LoadPopped, SavePopped, Reserve, NextJob, Goto
      <4> QED BY <1>0, <4>1
    <3>3. CASE \/ DeleteLoad(w) \/ DeleteKey(w) \/ DeleteReserved(w) \/ DeleteDelayed(w)
               \/ RecordFailed(w) \/ ReleaseLoad(w) \/ ReleaseSave(w) \/ ReleaseReserved(w)
      <4>1. /\ pc[w] \in {"deleting", "burying", "recording", "releasing"}
            /\ pc' = pc \/ \E l \in {"idle", "burying"} : pc' = [pc EXCEPT ![w] = l]
        BY <3>3 DEF DeleteLoad, DeleteKey, DeleteReserved, DeleteDelayed, RecordFailed, ReleaseLoad,
                    ReleaseSave, ReleaseReserved, Deleting, Releasing, NextJob, Goto, procVars
      <4> QED BY <1>0, <4>1
    <3>4. CASE Shutdown(w)
      BY <3>4 DEF Shutdown
    <3> QED BY <1>7, <3>1, <3>2, <3>3, <3>4 DEF WorkerStep, Disturb
  <2>3. \A p \in Pushers : stored'[p] \in {0, stored[p]}
    BY <1>0, <1>7 DEF WorkerStep, Disturb, Kill, Scan, PopReady, LoadPopped, SavePopped, Reserve,
                PopFails, LoopStep, CallFails, DeleteLoad, DeleteKey, DeleteReserved, DeleteDelayed,
                RecordFailed, ReleaseLoad, ReleaseSave, ReleaseReserved, callVars
  <2> QED BY <1>0, <2>1, <2>2, <2>3 DEF Waits, InReady
<1> QED BY <1>1, <1>2, <1>3, <1>4, <1>5, <1>6, <1>7

\* A worker writes the envelope it has in hand; a push writes the one it draws.
LEMMA SoleEnvelopes ==
    ASSUME Keyed, NEW w \in Workers, WorkerStep(w) \/ Disturb(w)
    PROVE  /\ nextId' >= nextId
           /\ \A i \in Ids : HasEnvelope(i)' =>
                \/ envelopes'[i] = envelopes[i]
                \/ i = nextId /\ envelopes'[i].attempts = 0
                \/ pc[w] \in Named /\ i = rec[w].id
<1>0. envelopes \in [Ids -> Envelope] /\ nextId \in Nat /\ Typed
  BY DEF Keyed, Typed, TypeOK
<1>1. CASE StoreLink(w)
  <2>1. NextLink[rec[w].job] \in Jobs \cup {NoJob} /\ StoreNew(w, NextLink[rec[w].job])
    BY <1>1, KeyInHand DEF StoreLink, Named, Working
  <2> QED BY <1>0, <2>1, StoreTyped DEF Pushers
<1>2. CASE SavePopped(w)
  BY <1>0, <1>2 DEF SavePopped, SetEnvelope, Named
<1>3. CASE DeleteKey(w)
  BY <1>0, <1>3 DEF DeleteKey, DelEnvelope, NoEnvelope, HasEnvelope
<1>4. CASE ReleaseSave(w)
  BY <1>0, <1>4 DEF ReleaseSave, Releasing, SetEnvelope, Named, Working, Failed
<1>5. CASE RecordFailed(w)
  BY <1>0, <1>5 DEF RecordFailed
<1>6. CASE ~(StoreLink(w) \/ SavePopped(w) \/ DeleteKey(w) \/ ReleaseSave(w) \/ RecordFailed(w))
  <2>1. envelopes' = envelopes /\ nextId' = nextId
    BY <1>6 DEF WorkerStep, Disturb, Kill, Scan, PromoteRemove, PromotePush, PopReady, LoadPopped,
                Reserve, PopFails, LoopStep, CallFails, ListLink, DeleteLoad, DeleteReserved,
                DeleteDelayed, ReleaseLoad, ReleaseReserved, ReleaseDelay, keyVars
  <2> QED BY <1>0, <2>1
<1> QED BY <1>1, <1>2, <1>3, <1>4, <1>5, <1>6

\* The counts of the keys that wait follow from where each of them came from.
LEMMA WaitingKept ==
    ASSUME WaitingExact, nextId \in Nat, nextId' \in Nat, nextId' >= nextId,
           \A i \in Ids : fails'[i] <= MaxAttempts,
           \A i \in Ids : i >= nextId => fails'[i] = fails[i],
           \A i \in Ids : Waits(i)' /\ HasEnvelope(i)' =>
               \/ /\ Waits(i) /\ HasEnvelope(i) /\ fails'[i] = fails[i]
                  /\ envelopes'[i].attempts = envelopes[i].attempts
               \/ i >= nextId /\ envelopes'[i].attempts = 0
               \/ fails'[i] <= envelopes'[i].attempts /\ envelopes'[i].attempts < MaxAttempts
    PROVE  WaitingExact'
<1> SUFFICES ASSUME NEW i \in Ids
             PROVE  /\ i >= nextId' => fails'[i] = 0
                    /\ Waits(i)' /\ HasEnvelope(i)' =>
                         fails'[i] <= envelopes'[i].attempts /\ envelopes'[i].attempts < MaxAttempts
  BY DEF WaitingExact
<1>1. i >= nextId => fails'[i] = 0
  BY DEF WaitingExact
<1>2. i >= nextId' => i >= nextId
  BY DEF Ids
<1>3. Waits(i) /\ HasEnvelope(i) =>
        fails[i] <= envelopes[i].attempts /\ envelopes[i].attempts < MaxAttempts
  BY DEF WaitingExact
<1> QED BY <1>1, <1>2, <1>3

\* Catch(w) in terms of the copy in hand.
LEMMA CatchExact ==
    ASSUME NEW w, Workers = {w}, Keyed, Exact, Catch(w), pc[w] \in {"handling", "chaining", "deleting"}
    PROVE  /\ rec[w].id \in Ids /\ rec[w].id < nextId /\ ~Waits(rec[w].id)
           /\ fails'[rec[w].id] <= rec[w].attempts + 1
           /\ \A i \in Ids : fails'[i] <= MaxAttempts
           /\ \A i \in Ids \ {rec[w].id} : fails'[i] = fails[i]
           /\ pc'[w] \in {"recording", "releasing"}
           /\ pc'[w] = "releasing" => rec[w].attempts + 1 < MaxAttempts
<1>1. /\ w \in Workers /\ Typed /\ fails \in [Ids -> Nat]
      /\ pc \in [Workers -> {"idle"} \cup Popping \cup Working \cup Down]
      /\ rec[w].attempts \in Nat
  BY HandFacts DEF Keyed, Typed, TypeOK
<1>2. rec[w].id \in Ids /\ rec[w].id < nextId /\ ~Waits(rec[w].id)
  BY InHandNotWaiting DEF Exact, Named, Working
<1>3. fails[rec[w].id] <= rec[w].attempts /\ rec[w].attempts < MaxAttempts
  BY <1>1 DEF Exact, CopyExact, Before
<1>4. /\ \A i \in Ids \ {rec[w].id} : fails'[i] = fails[i]
      /\ fails'[rec[w].id] = (IF fails[rec[w].id] > MaxAttempts THEN fails[rec[w].id] ELSE fails[rec[w].id] + 1)
      /\ pc'[w] = IF Exhausted(rec[w]) THEN "recording" ELSE "releasing"
  BY <1>1, <1>2 DEF Catch, Goto
<1>5. fails[rec[w].id] \in Nat /\ MaxAttempts \in Nat
  BY <1>1, <1>2
<1>6. fails'[rec[w].id] <= rec[w].attempts + 1 /\ fails'[rec[w].id] <= MaxAttempts
  BY <1>1, <1>3, <1>4, <1>5
<1>7. \A i \in Ids : fails'[i] <= MaxAttempts
  BY <1>4, <1>6 DEF Exact, WaitingExact
<1>8. pc'[w] = "releasing" => rec[w].attempts + 1 < MaxAttempts
  BY <1>1, <1>4, <1>5 DEF Exhausted
<1> QED BY <1>2, <1>4, <1>6, <1>7, <1>8

LEMMA SoleCallsStart ==
    ASSUME NEW w, Workers = {w}, Keyed, CallsStart, WorkerStep(w) \/ Disturb(w)
    PROVE  CallsStart'
<1>0. /\ w \in Workers /\ cmd \in [Workers -> 0 .. 3]
      /\ pc \in [Workers -> {"idle"} \cup Popping \cup Working \cup Down]
      /\ pc[w] \notin {"deleting", "burying", "releasing"} => cmd[w] = 0
  BY DEF Keyed, Typed, TypeOK, CallsStart
<1> SUFFICES pc'[w] \notin {"deleting", "burying", "releasing"} => cmd'[w] = 0
  BY DEF CallsStart
<1>1. CASE CallFails(w) \/ Kill(w) \/ DeleteDelayed(w) \/ ReleaseDelay(w)
  BY <1>0, <1>1 DEF CallFails, Kill, DeleteDelayed, ReleaseDelay, CallReturns
<1>2. CASE DeleteLoad(w) \/ DeleteKey(w) \/ DeleteReserved(w) \/ ReleaseLoad(w) \/ ReleaseSave(w) \/ ReleaseReserved(w)
  <2>1. CASE pc' = pc
    BY <1>0, <1>2, <2>1 DEF DeleteLoad, DeleteKey, DeleteReserved, ReleaseLoad, ReleaseSave, ReleaseReserved,
                            Deleting, Releasing
  <2>2. CASE pc' # pc
    BY <1>0, <1>2, <2>2 DEF DeleteLoad, DeleteKey, DeleteReserved, ReleaseLoad, ReleaseSave, ReleaseReserved,
                            Deleting, Releasing, procVars
  <2> QED BY <2>1, <2>2
<1>3. CASE \/ Scan(w) \/ PromoteRemove(w) \/ PromotePush(w) \/ PopReady(w) \/ LoadPopped(w)
           \/ SavePopped(w) \/ Reserve(w) \/ PopFails(w) \/ StoreLink(w) \/ ListLink(w) \/ RecordFailed(w)
  <2>1. cmd' = cmd /\ pc[w] \notin {"deleting", "burying", "releasing"}
    BY <1>3 DEF Scan, PromoteRemove, PromotePush, PopReady, LoadPopped, SavePopped, Reserve, PopFails,
                StoreLink, ListLink, RecordFailed, Popping, callVars
  <2> QED BY <1>0, <2>1
<1>4. CASE LoopStep(w) \/ ((Shutdown(w) \/ Restart(w)) /\ UNCHANGED <<failedVars, keyVars, callVars>>)
  <2>1. cmd' = cmd /\ (pc' = pc \/ pc[w] \notin {"deleting", "burying", "releasing"})
    BY <1>4 DEF LoopStep, HandleSucceeds, HandleFails, Exit, Shutdown, Restart, Down, callVars
  <2> QED BY <1>0, <2>1
<1> QED BY <1>1, <1>2, <1>3, <1>4 DEF WorkerStep, Disturb

\* A step that carries the copy on and keeps to the envelope.
LEMMA CopyCarried ==
    ASSUME NEW w, CopyExact(w), rec'[w] = rec[w], fails' = fails,
           pc[w] \in Before, pc'[w] \in Before,
           HasEnvelope(rec[w].id)' =>
               \/ HasEnvelope(rec[w].id) /\ envelopes'[rec[w].id] = envelopes[rec[w].id]
               \/ envelopes'[rec[w].id].attempts = rec[w].attempts
    PROVE  CopyExact(w)'
BY DEF CopyExact, Before, HasEnvelope

LEMMA SoleCopyExact ==
    ASSUME NEW w, Workers = {w}, Keyed, Keyed', Exact, WorkerStep(w) \/ Disturb(w)
    PROVE  CopyExact(w)'
<1>a. /\ w \in Workers /\ Typed /\ Typed' /\ Keyed /\ WaitingExact /\ CallsStart /\ ListedOnce /\ CopyExact(w)
  BY DEF Exact, Keyed
<1>b. /\ rec \in [Workers -> Record] /\ cmd \in [Workers -> 0 .. 3]
      /\ pc \in [Workers -> {"idle"} \cup Popping \cup Working \cup Down]
      /\ envelopes \in [Ids -> Envelope] /\ fails \in [Ids -> Nat]
  BY <1>a DEF Typed, TypeOK
<1>c. pc[w] \in Holding => rec[w].id \in Ids
  BY <1>a, HandFacts DEF HandOK
<1>0. /\ w \in Workers
      /\ rec \in [Workers -> Record] /\ cmd \in [Workers -> 0 .. 3]
      /\ pc \in [Workers -> {"idle"} \cup Popping \cup Working \cup Down]
      /\ envelopes \in [Ids -> Envelope] /\ fails \in [Ids -> Nat]
      /\ pc[w] \in Holding => rec[w].id \in Ids
  BY <1>a, <1>b, <1>c
<1>1. CASE pc'[w] \notin Before \cup {"releasing"}
  BY <1>1 DEF CopyExact
<1>2. CASE (LoopStep(w) /\ HandleFails(w)) \/ CallFails(w)
  <2>1. /\ Catch(w) /\ pc[w] \in {"handling", "chaining", "deleting"}
        /\ rec' = rec /\ envelopes' = envelopes /\ cmd'[w] = 0
    <3>1. CASE LoopStep(w) /\ HandleFails(w)
      <4>1. pc[w] = "handling" /\ cmd' = cmd /\ envelopes' = envelopes
        BY <3>1 DEF LoopStep, HandleFails, keyVars, callVars
      <4> QED BY <1>a, <3>1, <4>1 DEF HandleFails, CallsStart
    <3>2. CASE CallFails(w)
      BY <1>0, <3>2 DEF CallFails, StepFails, CallReturns, keyVars
    <3> QED BY <1>2, <3>1, <3>2
  <2>2. /\ rec[w].id \in Ids /\ fails'[rec[w].id] <= rec[w].attempts + 1
        /\ pc'[w] \in {"recording", "releasing"}
        /\ pc'[w] = "releasing" => rec[w].attempts + 1 < MaxAttempts
    BY <1>a, <2>1, CatchExact
  <2>3. HasEnvelope(rec[w].id) => envelopes[rec[w].id].attempts = rec[w].attempts
    BY <1>a, <2>1 DEF CopyExact, Before
  <2> QED BY <2>1, <2>2, <2>3 DEF CopyExact, Before, HasEnvelope
<1>3. CASE LoadPopped(w)
  <2>1. CASE HasEnvelope(rec[w].id)
    <3>1. /\ pc[w] = "loading" /\ fails' = fails /\ envelopes' = envelopes
          /\ rec[w].id \in Ids /\ rec'[w].id = rec[w].id
          /\ rec'[w].attempts = envelopes[rec[w].id].attempts
          /\ pc'[w] = "saving"
      BY <1>a, <1>3, <2>1, LoadFrame DEF LoadPopped, keyVars
    <3>2. Waits(rec[w].id)
      BY <1>0, <3>1 DEF Waits
    <3>3. /\ fails[rec[w].id] <= envelopes[rec[w].id].attempts
          /\ envelopes[rec[w].id].attempts < MaxAttempts
      BY <1>a, <2>1, <3>1, <3>2 DEF WaitingExact
    <3> QED BY <3>1, <3>3 DEF CopyExact, Before
  <2>2. CASE ~HasEnvelope(rec[w].id)
    <3>1. pc'[w] = "idle"
      BY <1>0, <1>3, <2>2 DEF LoadPopped, NextJob, Goto
    <3> QED BY <3>1 DEF CopyExact, Before
  <2> QED BY <2>1, <2>2
<1>4. CASE \/ SavePopped(w) \/ Reserve(w) \/ (LoopStep(w) /\ HandleSucceeds(w)) \/ ListLink(w)
           \/ DeleteKey(w) \/ DeleteReserved(w)
  <2>1. rec' = rec /\ fails' = fails
    BY <1>4 DEF SavePopped, Reserve, HandleSucceeds, ListLink, DeleteKey, DeleteReserved, Shutdown, procVars
  <2>2. CASE pc[w] \in Before
    <3>1. CASE SavePopped(w)
      BY <1>0, <1>1, <1>a, <2>1, <2>2, <3>1, CopyCarried DEF SavePopped, SetEnvelope, Goto, Holding, Named
    <3>2. CASE DeleteKey(w)
      BY <1>0, <1>1, <1>a, <2>1, <2>2, <3>2, CopyCarried DEF DeleteKey, DelEnvelope, NoEnvelope, HasEnvelope,
         Deleting, Holding, Named, Working, Before, procVars
    <3>3. CASE ~SavePopped(w) /\ ~DeleteKey(w)
      <4>1. envelopes' = envelopes /\ (pc[w] # "releasing" => pc'[w] # "releasing")
        BY <1>0, <1>4, <3>3 DEF Reserve, HandleSucceeds, LoopStep, ListLink, DeleteReserved, Deleting, Shutdown,
                                keyVars, procVars, Goto
      <4> QED BY <1>a, <1>1, <2>1, <2>2, <4>1, CopyCarried DEF Before, HasEnvelope
    <3> QED BY <3>1, <3>2, <3>3
  <2>3. CASE pc[w] \notin Before
    <3>1. pc'[w] \notin Before \cup {"releasing"}
      BY <1>0, <1>4, <2>3 DEF SavePopped, Reserve, HandleSucceeds, ListLink, DeleteKey, DeleteReserved, Shutdown,
                              Deleting, Before, procVars, Goto
    <3> QED BY <1>1, <3>1
  <2> QED BY <2>2, <2>3
<1>5. CASE StoreLink(w)
  <2>1. /\ pc[w] = "chaining" /\ UNCHANGED <<pc, rec, fails>>
        /\ NextLink[rec[w].job] \in Jobs \cup {NoJob} /\ StoreNew(w, NextLink[rec[w].job])
    BY <1>a, <1>5, KeyInHand DEF StoreLink, procVars, Named, Working
  <2>2. rec[w].id \in Ids /\ rec[w].id < nextId
    BY <1>a, <2>1, InHandNotWaiting DEF Named, Working
  <2>3. envelopes'[rec[w].id] = envelopes[rec[w].id]
    <3>1. rec[w].id \in Ids \ {nextId}
      BY <1>a, <2>2 DEF Typed, TypeOK, Ids
    <3>2. w \in Pushers
      BY <1>a DEF Pushers
    <3> QED BY <1>a, <2>1, <3>1, <3>2, StoreTyped
  <2> QED BY <1>a, <2>1, <2>3, CopyCarried DEF Before, HasEnvelope
<1>6. CASE DeleteLoad(w)
  <2>1. \/ pc'[w] = "idle"
        \/ UNCHANGED <<pc, rec, fails, envelopes>> /\ pc[w] \in {"deleting", "burying"}
    BY <1>0, <1>6 DEF DeleteLoad, Deleting, NextJob, Goto, keyVars
  <2> QED BY <1>a, <1>1, <2>1, CopyCarried DEF Before, HasEnvelope
<1>7. CASE ReleaseLoad(w)
  <2>1. CASE HasEnvelope(rec[w].id)
    <3>1. /\ pc[w] = "releasing" /\ cmd[w] = 0 /\ cmd'[w] = 1 /\ UNCHANGED <<pc, fails, envelopes>>
          /\ rec'[w].id = rec[w].id /\ rec'[w].attempts = envelopes[rec[w].id].attempts
      BY <1>0, <1>7, <2>1 DEF ReleaseLoad, Releasing, Sent, Record, keyVars
    <3>2. envelopes[rec[w].id].attempts = rec[w].attempts
      BY <1>a, <2>1, <3>1 DEF CopyExact
    <3> QED BY <1>a, <3>1, <3>2 DEF CopyExact, Before, HasEnvelope
  <2>2. CASE ~HasEnvelope(rec[w].id)
    <3>1. pc'[w] = "idle"
      BY <1>0, <1>7, <2>2 DEF ReleaseLoad, NextJob, Goto
    <3> QED BY <3>1 DEF CopyExact, Before
  <2> QED BY <2>1, <2>2
<1>8. CASE ReleaseSave(w)
  <2>1. /\ pc[w] = "releasing" /\ cmd'[w] = 2 /\ UNCHANGED <<pc, rec, fails>> /\ rec[w].id \in Ids
        /\ envelopes'[rec[w].id].attempts = rec[w].attempts + 1
    BY <1>0, <1>8 DEF ReleaseSave, Releasing, Sent, SetEnvelope, procVars, Holding, Named, Working, Failed
  <2> QED BY <1>a, <2>1 DEF CopyExact, Before
<1>9. CASE ReleaseReserved(w)
  <2>1. /\ pc[w] = "releasing" /\ cmd[w] = 2 /\ cmd'[w] = 3 /\ UNCHANGED <<pc, rec, fails, envelopes>>
    BY <1>0, <1>9 DEF ReleaseReserved, Releasing, Sent, procVars
  <2> QED BY <1>a, <2>1 DEF CopyExact, Before, HasEnvelope
<1>10. CASE Shutdown(w) /\ UNCHANGED <<failedVars, keyVars, callVars>>
  BY <1>a, <1>10 DEF Shutdown, CopyExact, HasEnvelope, keyVars, callVars
<1>11. CASE \/ Scan(w) \/ PromoteRemove(w) \/ PromotePush(w) \/ PopReady(w) \/ PopFails(w)
            \/ (LoopStep(w) /\ Exit(w)) \/ Kill(w) \/ Restart(w)
            \/ DeleteDelayed(w) \/ RecordFailed(w) \/ ReleaseDelay(w)
  <2>1. PICK l \in {"promoting", "lifting", "loading", "idle", "stopped", "crashed", "burying"} :
          pc' = [pc EXCEPT ![w] = l]
    BY <1>11 DEF Scan, PromoteRemove, PromotePush, PopReady, PopFails, Exit, Kill, Crash, Restart,
                 DeleteDelayed, RecordFailed, ReleaseDelay, NextJob, Goto
  <2> QED BY <1>0, <1>1, <2>1 DEF Before
<1> QED
  BY <1>2, <1>3, <1>4, <1>5, <1>6, <1>7, <1>8, <1>9, <1>10, <1>11 DEF WorkerStep, Disturb, LoopStep

LEMMA SoleWaitingExact ==
    ASSUME NEW w, Workers = {w}, Keyed, Keyed', Exact, WorkerStep(w) \/ Disturb(w)
    PROVE  WaitingExact'
<1>0. /\ w \in Workers /\ ListedOnce /\ WaitingExact /\ CopyExact(w) /\ CallsStart
      /\ nextId \in Nat /\ nextId' \in Nat
  BY DEF Exact, Keyed, Typed, TypeOK
<1>1. nextId' >= nextId
  BY <1>0, SoleEnvelopes
<1>2. ASSUME NEW i \in Ids, Waits(i)', HasEnvelope(i)'
      PROVE  \/ /\ Waits(i) /\ HasEnvelope(i) /\ envelopes'[i].attempts = envelopes[i].attempts
                /\ pc[w] \in Named => i # rec[w].id
             \/ i >= nextId /\ envelopes'[i].attempts = 0
             \/ /\ fails' = fails
                /\ fails[i] <= envelopes'[i].attempts /\ envelopes'[i].attempts < MaxAttempts
  <2>1. \/ envelopes'[i] = envelopes[i] /\ HasEnvelope(i)
        \/ i = nextId /\ envelopes'[i].attempts = 0
        \/ pc[w] \in Named /\ i = rec[w].id
    BY <1>0, <1>2, SoleEnvelopes DEF HasEnvelope
  <2>2. \/ Waits(i)
        \/ StoreLink(w) /\ i = nextId
        \/ ReleaseDelay(w) /\ i = rec[w].id
    BY <1>0, <1>2, SoleWaits
  <2>3. CASE Waits(i)
    <3>1. pc[w] \in Named => i # rec[w].id
      BY <1>0, <2>3, InHandNotWaiting
    <3> QED BY <1>0, <2>1, <2>3, <3>1
  <2>4. CASE StoreLink(w) /\ i = nextId
    <3>1. /\ NextLink[rec[w].job] \in Jobs \cup {NoJob} /\ StoreNew(w, NextLink[rec[w].job])
          /\ w \in Pushers
      BY <1>0, <2>4, KeyInHand DEF StoreLink, Named, Working, Pushers
    <3>2. envelopes'[i].attempts = 0
      BY <2>4, <3>1, StoreTyped DEF Keyed
    <3> QED BY <1>0, <2>4, <3>2
  <2>5. CASE ReleaseDelay(w) /\ i = rec[w].id
    <3>1. pc[w] = "releasing" /\ cmd[w] = 3 /\ envelopes' = envelopes /\ fails' = fails
      BY <2>5 DEF ReleaseDelay, Releasing
    <3>2. HasEnvelope(rec[w].id)
      BY <1>2, <2>5, <3>1 DEF HasEnvelope
    <3>3. /\ envelopes[rec[w].id].attempts = rec[w].attempts + 1
          /\ fails[rec[w].id] <= rec[w].attempts + 1 /\ rec[w].attempts + 1 < MaxAttempts
      BY <1>0, <3>1, <3>2 DEF CopyExact, Before
    <3> QED BY <2>5, <3>1, <3>3
  <2> QED BY <2>2, <2>3, <2>4, <2>5
<1>3. CASE Catch(w) /\ pc[w] \in {"handling", "chaining", "deleting"}
  <2>1. /\ rec[w].id < nextId /\ rec[w].id \in Ids
        /\ \A i \in Ids : fails'[i] <= MaxAttempts
        /\ \A i \in Ids \ {rec[w].id} : fails'[i] = fails[i]
        /\ pc'[w] \in {"recording", "releasing"}
    BY <1>3, CatchExact
  <2>2. pc[w] \in Named
    BY <1>3 DEF Named, Working
  <2>3. \A i \in Ids : i >= nextId => i # rec[w].id
    BY <1>0, <2>1 DEF Ids
  <2> QED BY <1>0, <1>1, <1>2, <2>1, <2>2, <2>3, WaitingKept
<1>4. CASE fails' = fails
  BY <1>0, <1>1, <1>2, <1>4, WaitingKept DEF WaitingExact
<1>5. \/ fails' = fails
      \/ Catch(w) /\ pc[w] \in {"handling", "chaining", "deleting"}
  BY DEF WorkerStep, Disturb, Kill, Crash, Shutdown, Restart, Scan, PromoteRemove, PromotePush, PopReady,
         LoadPopped, SavePopped, Reserve, PopFails, LoopStep, HandleSucceeds, HandleFails, Exit,
         CallFails, StepFails, StoreLink, ListLink, DeleteLoad, DeleteKey, DeleteReserved, DeleteDelayed,
         RecordFailed, ReleaseLoad, ReleaseSave, ReleaseReserved, ReleaseDelay, procVars
<1> QED BY <1>3, <1>4, <1>5

\* Everybody else draws keys and lists them.
LEMMA OthersExact ==
    ASSUME Keyed, Keyed', Exact,
           \/ \E p \in Producers : Produce(p)
           \/ \E i \in Ids : BecomesDue(i) \/ ForgetFailed(i)
           \/ \E o \in Operators : OperatorStep(o)
           \/ UNCHANGED vars
    PROVE  WaitingExact' /\ CallsStart' /\ \A w \in Workers : CopyExact(w)'
<1>0. /\ UNCHANGED <<pc, rec, fails, cmd>>
      /\ Typed /\ envelopes \in [Ids -> Envelope] /\ nextId \in Nat /\ nextId' \in Nat
      /\ WaitingExact /\ CallsStart
  BY DEF Exact, Keyed, Typed, TypeOK, Produce, DispatchStore, DispatchReady, DispatchLater, BecomesDue,
         ForgetFailed, OperatorStep, RetryStore, RetryList, RetryStops, vars, procVars, callVars
<1>1. CASE \E p \in Pushers, j \in Jobs \cup {NoJob} : StoreNew(p, j) /\ UNCHANGED <<ready, delayed>>
  <2>1. PICK p \in Pushers, j \in Jobs \cup {NoJob} : StoreNew(p, j) /\ UNCHANGED <<ready, delayed>>
    BY <1>1
  <2>2. /\ nextId \in Ids /\ nextId' = nextId + 1
        /\ stored[p] = 0 /\ stored' = [stored EXCEPT ![p] = nextId]
        /\ envelopes'[nextId].attempts = 0
        /\ \A i \in Ids \ {nextId} : envelopes'[i] = envelopes[i]
        /\ stored \in [Pushers -> Ids \cup {0}]
    BY <1>0, <2>1, StoreTyped DEF Typed, TypeOK
  <2>3. \A i \in Ids : Waits(i)' => Waits(i) \/ i = nextId
    BY <1>0, <2>1, <2>2 DEF Waits, InReady
  <2>4. WaitingExact'
    BY <1>0, <2>2, <2>3, WaitingKept DEF WaitingExact, HasEnvelope
  <2>5. ASSUME NEW w \in Workers, pc[w] \in Before \cup {"releasing"}
        PROVE  envelopes'[rec[w].id] = envelopes[rec[w].id]
    <3>1. rec[w].id \in Ids
      BY <1>0, <2>5, HandFacts DEF HandOK, Holding, Named, Working, Failed, Before
    <3>2. Visible(rec[w].id)
      BY DEF Visible, Listed
    <3>3. rec[w].id < nextId
      BY <3>1, <3>2 DEF Keyed, Fresh
    <3>4. rec[w].id \in Ids \ {nextId}
      BY <1>0, <3>1, <3>3 DEF Ids
    <3> QED BY <2>2, <3>4
  <2>6. \A w \in Workers : CopyExact(w)'
    BY <1>0, <2>5 DEF Exact, CopyExact, HasEnvelope
  <2> QED BY <1>0, <2>4, <2>6 DEF CallsStart
<1>2. CASE UNCHANGED <<envelopes, nextId>> /\ \A i \in Ids : Waits(i)' => Waits(i)
  <2>1. WaitingExact'
    BY <1>0, <1>2, WaitingKept DEF WaitingExact, HasEnvelope
  <2> QED BY <1>0, <1>2, <2>1 DEF CallsStart, Exact, CopyExact, HasEnvelope
<1>3. ASSUME NEW p \in Producers, DispatchReady(p) \/ DispatchLater(p)
      PROVE  UNCHANGED <<envelopes, nextId>> /\ \A i \in Ids : Waits(i)' => Waits(i)
  BY <1>0, <1>3, ListWaits DEF DispatchReady, DispatchLater, List, Pushers
<1>4. ASSUME NEW o \in Operators, RetryList(o)
      PROVE  UNCHANGED <<envelopes, nextId>> /\ \A i \in Ids : Waits(i)' => Waits(i)
  BY <1>0, <1>4, ListWaits DEF RetryList, List, Pushers
<1>5. ASSUME UNCHANGED <<envelopes, nextId, ready, delayed>>,
             \A p \in Pushers : stored'[p] \in {0, stored[p]}
      PROVE  \A i \in Ids : Waits(i)' => Waits(i)
  BY <1>0, <1>5 DEF Waits, InReady, Ids
<1>6. ASSUME NEW o \in Operators, RetryStops(o)
      PROVE  UNCHANGED <<envelopes, nextId>> /\ \A i \in Ids : Waits(i)' => Waits(i)
  <2>1. \A p \in Pushers : stored'[p] \in {0, stored[p]}
    BY <1>0, <1>6 DEF RetryStops, Typed, TypeOK
  <2> QED BY <1>5, <1>6, <2>1 DEF RetryStops, keyVars
<1>7. CASE \/ \E i \in Ids : BecomesDue(i) \/ ForgetFailed(i)
           \/ \E o \in Operators : (RetryFind(o) \/ RetryDelete(o)) /\ UNCHANGED <<procVars, keyVars, callVars>>
           \/ UNCHANGED vars
  <2>1. UNCHANGED <<envelopes, nextId, ready, delayed, stored>>
    BY <1>7 DEF BecomesDue, ForgetFailed, vars, keyVars, callVars
  <2> QED BY <1>2, <1>5, <2>1
<1>8. ASSUME NEW o \in Operators, RetryStore(o)
      PROVE  \E p \in Pushers, j \in Jobs \cup {NoJob} : StoreNew(p, j) /\ UNCHANGED <<ready, delayed>>
  BY <1>0, <1>8 DEF RetryStore, Pushers, Typed, TypeOK, Retry
<1>9. ASSUME NEW p \in Producers, NEW j \in Jobs, DispatchStore(p, j)
      PROVE  \E q \in Pushers, k \in Jobs \cup {NoJob} : StoreNew(q, k) /\ UNCHANGED <<ready, delayed>>
  BY <1>9 DEF DispatchStore, Pushers
<1> QED BY <1>1, <1>2, <1>3, <1>4, <1>6, <1>7, <1>8, <1>9 DEF Produce, OperatorStep

(***************************************************************************)
(* With a single worker no key fails more than MaxAttempts times, however  *)
(* the worker is killed, its commands rejected and its jobs retried.       *)
(***************************************************************************)
THEOREM RedisSoleWorkerBounded ==
    ASSUME NEW w, Workers = {w}
    PROVE  Spec => []AttemptsBounded
<1>1. ASSUME Exact, [Next]_vars PROVE Exact'
  <2>1. Keyed /\ Keyed' /\ ListedOnce /\ CallsStart
    BY <1>1, StepKeyed DEF Exact
  <2>2. CASE WorkerStep(w) \/ Disturb(w)
    <3>1. ListedOnce' /\ CallsStart' /\ WaitingExact'
      BY <1>1, <2>1, <2>2, SoleListsOnce, SoleCallsStart, SoleWaitingExact
    <3>2. CopyExact(w)'
      BY <1>1, <2>1, <2>2, SoleCopyExact
    <3> QED BY <2>1, <3>1, <3>2 DEF Exact
  <2>3. CASE \/ \E p \in Producers : Produce(p)
             \/ \E i \in Ids : BecomesDue(i) \/ ForgetFailed(i)
             \/ \E o \in Operators : OperatorStep(o)
             \/ UNCHANGED vars
    BY <1>1, <2>1, <2>3, OthersListOnce, OthersExact DEF Exact
  <2> QED BY <1>1, <2>2, <2>3 DEF Next
<1>2. Exact => AttemptsBounded
  BY DEF Exact, WaitingExact, AttemptsBounded
<1> QED BY <1>1, <1>2, InitExact, PTL DEF Spec
=============================================================================
