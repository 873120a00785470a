--------------------------- MODULE JobBatch_proofs ---------------------------
(***************************************************************************)
(* What a job batch guarantees for every set of jobs and of workers, with  *)
(* any of them started and any number of runs of each job: types, that     *)
(* lost updates only leave pendingJobs too high, when a batch is finished, *)
(* and what a written cancel freezes.                                      *)
(***************************************************************************)
EXTENDS JobBatch, FiniteSetTheorems, TLAPS

USE BatchAssumption

Busy(w) == pc[w] # "idle"

\* A worker that runs something is a started one, and has a job.
Owning == \A w \in Workers : Busy(w) => w \in crew /\ job[w] \in BatchJobs

\* Jobs are pushed after the entry is created, and it is never deleted.
Existing ==
    /\ held # {} => batch.exists
    /\ \A w \in Workers : Busy(w) => batch.exists
    /\ \A w \in Reporting : read[w].exists
    /\ canceller.step # "none" => batch.exists
    /\ canceller.step = "found" => canceller.read.exists

Sound == TypeOK /\ Owning /\ Existing

LEMMA InitSound == Init => Sound
<1> SUFFICES ASSUME Init PROVE Sound
  OBVIOUS
<1> QED
  BY DEF Init, Sound, TypeOK, Owning, Existing, Busy, Reporting, NoBatch, Entry

\* The entry a report makes of the one it found.
LEMMA ReportTyped ==
    ASSUME NEW b \in Entry
    PROVE  /\ Success(b) \in Entry /\ Failure(b) \in Entry
           /\ Success(b).exists = b.exists /\ Failure(b).exists = b.exists
           /\ Success(b).pending = Less(b.pending) /\ Failure(b).pending = Less(b.pending)
           /\ Success(b).cancelled = b.cancelled /\ Failure(b).cancelled = b.cancelled
           /\ Success(b).failed = b.failed /\ Failure(b).failed = b.failed + 1
           /\ Success(b).finished = (b.finished \/ (Less(b.pending) = 0 /\ b.failed = 0))
           /\ Failure(b).finished = (b.finished \/ Less(b.pending) = 0)
<1>1. Less(b.pending) \in Nat /\ b.failed + 1 \in Nat
  BY DEF Less, Entry
<1>2. /\ (b.finished \/ (Less(b.pending) = 0 /\ b.failed = 0)) \in BOOLEAN
      /\ (b.finished \/ Less(b.pending) = 0) \in BOOLEAN
  BY DEF Entry
<1> QED BY <1>1, <1>2 DEF Success, Failure, Entry

LEMMA DispatchSound ==
    ASSUME Sound, Dispatching \/ Cancelling
    PROVE  Sound'
<1> USE DEF Sound, TypeOK, Owning, Existing, Busy, Reporting, queue, history
<1>1. CASE Create
  <2>1. NewBatch \in Entry /\ NewBatch.exists
    BY FS_CardinalityType DEF NewBatch, Entry, Total
  <2> QED BY <1>1, <2>1 DEF Create
<1>2. ASSUME NEW j \in BatchJobs, PushJob(j) PROVE Sound'
  BY <1>2 DEF PushJob
<1>3. CASE CancelFind
  BY <1>3 DEF CancelFind
<1>4. CASE CancelPut
  <2>1. canceller.read \in Entry /\ canceller.read.exists
    BY <1>4 DEF CancelPut
  <2>2. /\ [canceller.read EXCEPT !.cancelled = TRUE] \in Entry
        /\ [canceller.read EXCEPT !.cancelled = TRUE].exists
    BY <2>1 DEF Entry
  <2>3. NoBatch \in Entry
    BY DEF NoBatch, Entry
  <2> QED BY <1>4, <2>2, <2>3 DEF CancelPut
<1> QED BY <1>1, <1>2, <1>3, <1>4 DEF Dispatching, Cancelling

LEMMA WorkerSound ==
    ASSUME Sound, NEW w \in crew, Run(w) \/ Kill(w)
    PROVE  Sound'
<1> USE DEF Sound, TypeOK, Owning, Existing, Busy, Reporting, queue, history, Goto
<1>0. w \in Workers /\ NoBatch \in Entry
  BY DEF NoBatch, Entry
<1>1. ASSUME NEW j \in BatchJobs, Take(w, j) PROVE Sound'
  BY <1>0, <1>1 DEF Take
<1>2. ASSUME NEW ok \in BOOLEAN, Handle(w, ok) PROVE Sound'
  <2>1. runs + 1 \in 0 .. MaxRuns /\ ran \cup {job[w]} \subseteq BatchJobs
    BY <1>0, <1>2 DEF Handle
  <2> QED BY <1>0, <1>2, <2>1 DEF Handle
<1>3. CASE Unregistered(w)
  BY <1>0, <1>3 DEF Unregistered
<1>4. CASE Find(w)
  BY <1>0, <1>4 DEF Find
<1>5. CASE Put(w)
  <2>1. read[w] \in Entry /\ read[w].exists /\ job[w] \in BatchJobs
    BY <1>0, <1>5 DEF Put
  <2>2. batch' \in Entry /\ batch'.exists
    BY <1>5, <2>1, ReportTyped DEF Put
  <2> HIDE DEF Sound
  <2>3. TypeOK'
    BY <1>0, <1>5, <2>1, <2>2 DEF Put, Sound
  <2>4. Owning' /\ Existing'
    BY <1>0, <1>5, <2>2 DEF Put, Sound
  <2> QED BY <2>3, <2>4 DEF Sound
<1>6. CASE ReportFails(w)
  <2>1. /\ Busy(w) /\ pc'[w] # "writing"
        /\ pc' \in [Workers -> {"idle", "handling", "finding", "writing", "settling"}]
        /\ \A v \in Workers \ {w} : pc'[v] = pc[v] /\ read'[v] = read[v]
        /\ read' \in [Workers -> Entry] /\ outcome' \in [Workers -> BOOLEAN]
        /\ UNCHANGED <<crew, batch, queue, job, canceller, history>>
    BY <1>0, <1>6 DEF ReportFails
  <2> QED BY <1>0, <2>1
<1>7. CASE Settle(w) \/ Kill(w)
  <2>1. /\ Busy(w) /\ Idle(w) /\ held' \subseteq held \cup {job[w]}
        /\ UNCHANGED <<crew, batch, unsent, canceller, history>>
    BY <1>0, <1>7 DEF Settle, Kill
  <2>2. TypeOK' /\ Owning'
    BY <1>0, <2>1 DEF Idle
  <2>3. Existing'
    BY <1>0, <2>1 DEF Idle
  <2> QED BY <2>2, <2>3
<1> QED BY <1>1, <1>2, <1>3, <1>4, <1>5, <1>6, <1>7 DEF Run

LEMMA SoundStep ==
    ASSUME Sound, [Next]_vars
    PROVE  Sound'
<1>1. CASE UNCHANGED vars
  BY <1>1 DEF vars, queue, history, Sound, TypeOK, Owning, Existing, Busy, Reporting
<1> QED BY <1>1, DispatchSound, WorkerSound DEF Next

(***************************************************************************)
(* Type correctness; in particular pendingJobs is never negative, although *)
(* jobs may report more often than there are jobs.                         *)
(***************************************************************************)
THEOREM BatchTyped == Spec => []TypeOK
<1>1. Sound => TypeOK
  BY DEF Sound
<1> QED BY <1>1, InitSound, SoundStep, PTL DEF Spec

LEMMA SoundInvariant == Spec => []Sound
BY InitSound, SoundStep, PTL DEF Spec

----------------------------------------------------------------------------
(***************************************************************************)
(* What the steps leave alone. Only a report and Handle are then left to   *)
(* be looked at where reports and runs are counted.                        *)
(***************************************************************************)
Sending(w) == pc[w] \in {"finding", "writing"}

\* A step of worker w other than Put: the entry and the reports stay.
LEMMA WorkerFrame ==
    ASSUME Sound, NEW w \in crew, Run(w) \/ Kill(w), ~Put(w)
    PROVE  /\ UNCHANGED <<batch, canceller, reports, reported>>
           /\ \A v \in Reporting' :
                \/ v \in Reporting /\ read'[v] = read[v]
                \/ v = w /\ ~batch.cancelled /\ batch.exists /\ read'[v] = batch
<1> USE DEF Reporting, Goto, history
<1>0. /\ w \in Workers /\ pc \in [Workers -> {"idle", "handling", "finding", "writing", "settling"}]
      /\ read \in [Workers -> Entry] /\ (Busy(w) => batch.exists)
  BY DEF Sound, TypeOK, Existing
<1>1. CASE \/ \E j \in BatchJobs : Take(w, j)
           \/ \E ok \in BOOLEAN : Handle(w, ok)
           \/ Unregistered(w) \/ ReportFails(w)
  BY <1>0, <1>1 DEF Take, Handle, Unregistered, ReportFails
<1>2. CASE Find(w)
  BY <1>0, <1>2 DEF Find, Busy
<1>3. CASE Settle(w) \/ Kill(w)
  BY <1>0, <1>3 DEF Settle, Kill, Idle
<1> QED BY <1>1, <1>2, <1>3 DEF Run

\* A report writes what the worker makes of the entry it found.
LEMMA PutFrame ==
    ASSUME Sound, NEW w \in crew, Put(w)
    PROVE  /\ w \in Reporting /\ read[w] \in Entry /\ batch.exists /\ read[w].exists
           /\ batch' = Success(read[w]) \/ batch' = Failure(read[w])
           /\ batch'.exists /\ batch'.pending = Less(read[w].pending)
           /\ batch'.cancelled = read[w].cancelled
           /\ reports' = reports + 1 /\ canceller' = canceller
           /\ Reporting' = Reporting \ {w} /\ \A v \in Reporting' : read'[v] = read[v]
<1>1. /\ w \in Workers /\ pc[w] = "writing" /\ pc' = [pc EXCEPT ![w] = "settling"]
      /\ read' = [read EXCEPT ![w] = NoBatch] /\ read[w] \in Entry
      /\ pc \in [Workers -> {"idle", "handling", "finding", "writing", "settling"}]
      /\ reports' = reports + 1 /\ canceller' = canceller
      /\ batch' = Success(read[w]) \/ batch' = Failure(read[w])
  BY DEF Put, Goto, Sound, TypeOK
<1>2. w \in Reporting /\ Reporting' = Reporting \ {w} /\ \A v \in Reporting' : read'[v] = read[v]
  BY <1>1 DEF Reporting, Sound, TypeOK
<1>3. batch.exists /\ read[w].exists
  BY <1>1, <1>2 DEF Sound, Existing, Busy
<1> QED BY <1>1, <1>2, <1>3, ReportTyped

----------------------------------------------------------------------------
(***************************************************************************)
(* Lost updates only leave pendingJobs too high. The number in the entry,  *)
(* and in every copy that will be written back, is inductive as it stands: *)
(* a report takes one from its copy and is itself one more report.         *)
(***************************************************************************)
LEMMA LessByOne ==
    ASSUME NEW n \in Nat, NEW r \in Nat, NEW t \in Nat, n + r >= t
    PROVE  Less(n) \in Nat /\ Less(n) + (r + 1) >= t
BY DEF Less

LEMMA PendingStep ==
    ASSUME Sound, PendingNeverTooLow, [Next]_vars
    PROVE  PendingNeverTooLow'
<1> DEFINE Fair(b, r) == b.pending + r >= Total
<1>0. /\ reports \in Nat /\ Total \in Nat /\ batch \in Entry
      /\ \A w \in Workers : read[w] \in Entry
      /\ canceller \in [step : {"none", "found", "done"}, read : Entry]
  BY FS_CardinalityType DEF Sound, TypeOK, Total
<1>p. \A b \in Entry : b.pending \in Nat
  BY DEF Entry
<1>h. /\ batch.exists => Fair(batch, reports)
      /\ \A w \in Reporting : batch.exists => Fair(read[w], reports)
      /\ batch.exists /\ canceller.step = "found" => Fair(canceller.read, reports)
  BY DEF PendingNeverTooLow
<1>1. CASE Create
  <2>1. Reporting = {} /\ canceller.step # "found"
    BY <1>1 DEF Create, Sound, Existing, Reporting, Busy
  <2>2. batch'.pending = Total /\ reports' = reports /\ Reporting' = Reporting
        /\ canceller' = canceller
    BY <1>1 DEF Create, NewBatch, Reporting, history
  <2> QED BY <1>0, <2>1, <2>2 DEF PendingNeverTooLow
<1>2. ASSUME NEW w \in crew, Put(w) PROVE PendingNeverTooLow'
  <2>1. Fair(batch', reports')
    BY <1>0, <1>p, <1>h, <1>2, PutFrame, LessByOne
  <2>2. \A v \in Reporting' : Fair(read'[v], reports')
    <3>1. ASSUME NEW v \in Reporting' PROVE Fair(read'[v], reports')
      <4>1. v \in Reporting /\ read'[v] = read[v] /\ read[v] \in Entry /\ reports' = reports + 1
            /\ batch.exists
        BY <1>0, <1>2, PutFrame DEF Reporting
      <4> QED BY <1>0, <1>p, <1>h, <4>1
    <3> QED BY <3>1
  <2>3. canceller'.step = "found" => Fair(canceller'.read, reports')
    <3>1. canceller' = canceller /\ batch.exists /\ reports' = reports + 1
      BY <1>2, PutFrame
    <3>2. canceller.read.pending \in Nat
      BY <1>0, <1>p
    <3> QED BY <1>0, <1>h, <3>1, <3>2
  <2> QED BY <2>1, <2>2, <2>3 DEF PendingNeverTooLow
<1>3. ASSUME NEW w \in crew, Run(w) \/ Kill(w), ~Put(w) PROVE PendingNeverTooLow'
  BY <1>h, <1>3, WorkerFrame DEF PendingNeverTooLow
<1>4. CASE (\E j \in BatchJobs : PushJob(j)) \/ UNCHANGED vars
  <2>1. UNCHANGED <<batch, reports, canceller, read, pc>>
    BY <1>4 DEF PushJob, vars, history
  <2> QED BY <1>h, <2>1 DEF PendingNeverTooLow, Reporting
<1>5. CASE CancelFind
  BY <1>h, <1>5 DEF CancelFind, PendingNeverTooLow, Reporting, history
<1>6. CASE CancelPut
  <2>1. /\ canceller.step = "found" /\ batch.exists
        /\ batch' = [canceller.read EXCEPT !.cancelled = TRUE]
        /\ canceller'.step = "done" /\ UNCHANGED <<pc, read, reports>>
    BY <1>6 DEF CancelPut, Sound, Existing, history
  <2>2. batch'.pending = canceller.read.pending
    BY <1>0, <2>1 DEF Entry
  <2> QED BY <1>h, <2>1, <2>2 DEF PendingNeverTooLow, Reporting
<1> QED
  BY <1>1, <1>2, <1>3, <1>4, <1>5, <1>6 DEF Next, Dispatching, Cancelling

(***************************************************************************)
(* What is pending, and what any process is about to make of it, together  *)
(* with the reports that were written, is at least the number of jobs.     *)
(***************************************************************************)
THEOREM PendingIsNeverTooLow == Spec => []PendingNeverTooLow
<1>1. Init => PendingNeverTooLow
  BY DEF Init, NoBatch, PendingNeverTooLow
<1> QED BY <1>1, PendingStep, SoundInvariant, PTL DEF Spec

----------------------------------------------------------------------------
(***************************************************************************)
(* Only the one cancel() writes cancelledAt, and who is about to write the *)
(* entry back read it without.                                             *)
(***************************************************************************)
Uncancelled ==
    /\ batch.cancelled => canceller.step = "done"
    /\ \A w \in Reporting : ~read[w].cancelled
    /\ canceller.step = "found" => ~canceller.read.cancelled

LEMMA UncancelledStep ==
    ASSUME Sound, Uncancelled, [Next]_vars
    PROVE  Uncancelled'
<1>1. ASSUME NEW w \in crew, Put(w) PROVE Uncancelled'
  BY <1>1, PutFrame DEF Uncancelled
<1>2. ASSUME NEW w \in crew, Run(w) \/ Kill(w), ~Put(w) PROVE Uncancelled'
  BY <1>2, WorkerFrame DEF Uncancelled
<1>3. CASE (\E j \in BatchJobs : PushJob(j)) \/ UNCHANGED vars
  BY <1>3 DEF PushJob, vars, Uncancelled, Reporting
<1>4. CASE Create \/ Cancelling
  <2>1. canceller \in [step : {"none", "found", "done"}, read : Entry]
    BY DEF Sound, TypeOK
  <2> QED
    BY <1>4, <2>1 DEF Create, NewBatch, Cancelling, CancelFind, CancelPut, Uncancelled, Reporting
<1> QED
  BY <1>1, <1>2, <1>3, <1>4 DEF Next, Dispatching

LEMMA UncancelledInvariant == Spec => []Uncancelled
<1>1. Init => Uncancelled
  BY DEF Init, NoBatch, Uncancelled, Reporting
<1> QED BY <1>1, UncancelledStep, SoundInvariant, PTL DEF Spec

(***************************************************************************)
(* Once a cancel is written the batch never changes again, unless a report *)
(* that read the entry before the cancel writes it back.                   *)
(***************************************************************************)
THEOREM CancelIsFinal == Spec => CancelFreezes
<1> DEFINE Frozen == batch.cancelled /\ (\A w \in Reporting : read[w].cancelled)
<1>1. ASSUME Sound, Uncancelled, [Next]_vars, Frozen PROVE batch' = batch
  <2>1. Reporting = {} /\ canceller.step = "done"
    BY <1>1 DEF Uncancelled
  <2>2. batch.exists
    BY <1>1, <2>1 DEF Sound, Existing
  <2>3. ASSUME NEW w \in crew, Run(w) \/ Kill(w) PROVE batch' = batch
    BY <1>1, <2>1, <2>3, PutFrame, WorkerFrame
  <2>4. CASE Dispatching \/ Cancelling
    BY <2>1, <2>2, <2>4 DEF Dispatching, Create, PushJob, Cancelling, CancelFind, CancelPut
  <2>5. CASE UNCHANGED vars
    BY <2>5 DEF vars
  <2> QED BY <1>1, <2>3, <2>4, <2>5 DEF Next
<1>2. Sound /\ Uncancelled /\ [Next]_vars => [Frozen => batch' = batch]_vars
  BY <1>1
<1> QED BY <1>2, SoundInvariant, UncancelledInvariant, PTL DEF Spec, CancelFreezes

----------------------------------------------------------------------------
(***************************************************************************)
(* When a batch is finished. As long as no handler has ended twice, a      *)
(* report that is about to be written is the first one of its job. Then    *)
(* there are no more reports than jobs that reported, and as many reports  *)
(* as jobs mean that all of them did.                                      *)
(***************************************************************************)
OnceEach == runs = Cardinality(ran)

RunsCounted ==
    /\ Cardinality(ran) <= runs
    /\ \A w \in Workers : Sending(w) => job[w] \in ran
    /\ reported \subseteq ran

FirstReports ==
    /\ \A w \in Workers : Sending(w) => job[w] \notin reported
    /\ \A v, w \in Workers : Sending(v) /\ Sending(w) /\ job[v] = job[w] => v = w

\* The entry, or a copy that will be written back, says finished.
SomeFinished ==
    \/ batch.finished
    \/ \E w \in Reporting : read[w].finished
    \/ canceller.step = "found" /\ canceller.read.finished

Accounted ==
    /\ RunsCounted
    /\ OnceEach => /\ FirstReports
                   /\ reports <= Cardinality(reported)
                   /\ SomeFinished => reported = BatchJobs

LEMMA JobSetFinite ==
    ASSUME NEW S \in SUBSET BatchJobs
    PROVE  /\ IsFiniteSet(S) /\ Cardinality(S) \in Nat /\ Total \in Nat
           /\ Cardinality(S) <= Total
           /\ Cardinality(S) = Total => S = BatchJobs
BY FS_Subset, FS_CardinalityType DEF Total

LEMMA OneMoreJob ==
    ASSUME NEW S \in SUBSET BatchJobs, NEW j \in BatchJobs
    PROVE  Cardinality(S \cup {j}) = IF j \in S THEN Cardinality(S) ELSE Cardinality(S) + 1
<1>1. CASE j \in S
  <2>1. S \cup {j} = S
    BY <1>1
  <2> QED BY <1>1, <2>1
<1>2. CASE j \notin S
  BY <1>2, JobSetFinite, FS_AddElement
<1> QED BY <1>1, <1>2

\* Every step but Handle and Put only ever takes workers out of Sending.
LEMMA SendingFrame ==
    ASSUME Sound, [Next]_vars,
           \A w \in crew : ~Put(w), \A w \in crew, ok \in BOOLEAN : ~Handle(w, ok)
    PROVE  /\ UNCHANGED history
           /\ \A v \in Workers : Sending(v)' => Sending(v) /\ job'[v] = job[v]
<1> USE DEF Sending, Goto
<1>0. /\ pc \in [Workers -> {"idle", "handling", "finding", "writing", "settling"}]
      /\ job \in [Workers -> BatchJobs \cup {NoJob}] /\ crew \subseteq Workers
  BY DEF Sound, TypeOK
<1>1. CASE Dispatching \/ Cancelling \/ UNCHANGED vars
  BY <1>1 DEF Dispatching, Create, PushJob, Cancelling, CancelFind, CancelPut, vars
<1>2. ASSUME NEW w \in crew, NEW j \in BatchJobs, Take(w, j)
      PROVE  UNCHANGED history /\ \A v \in Workers : Sending(v)' => Sending(v) /\ job'[v] = job[v]
  BY <1>0, <1>2 DEF Take
<1>3. ASSUME NEW w \in crew, Unregistered(w) \/ Find(w) \/ ReportFails(w)
      PROVE  UNCHANGED history /\ \A v \in Workers : Sending(v)' => Sending(v) /\ job'[v] = job[v]
  BY <1>0, <1>3 DEF Unregistered, Find, ReportFails
<1>4. ASSUME NEW w \in crew, Settle(w) \/ Kill(w)
      PROVE  UNCHANGED history /\ \A v \in Workers : Sending(v)' => Sending(v) /\ job'[v] = job[v]
  BY <1>0, <1>4 DEF Settle, Kill, Idle
<1> QED BY <1>1, <1>2, <1>3, <1>4 DEF Next, Run

\* Without a report the copies are copies: none is finished that was not.
LEMMA FinishedCopies ==
    ASSUME Sound, [Next]_vars, \A w \in crew : ~Put(w)
    PROVE  SomeFinished' => SomeFinished
<1>1. ASSUME NEW w \in crew, Run(w) \/ Kill(w) PROVE SomeFinished' => SomeFinished
  BY <1>1, WorkerFrame DEF SomeFinished
<1>2. CASE Dispatching \/ UNCHANGED vars
  BY <1>2 DEF Dispatching, Create, NewBatch, PushJob, vars, SomeFinished, Reporting
<1>3. CASE Cancelling
  <2>1. canceller \in [step : {"none", "found", "done"}, read : Entry]
    BY DEF Sound, TypeOK
  <2> QED BY <1>3, <2>1 DEF Cancelling, CancelFind, CancelPut, SomeFinished, Reporting, Entry
<1> QED BY <1>1, <1>2, <1>3 DEF Next

LEMMA HandleAccounted ==
    ASSUME Sound, Accounted, NEW w \in crew, NEW ok \in BOOLEAN, Handle(w, ok)
    PROVE  Accounted'
<1>1. /\ w \in Workers /\ job[w] \in BatchJobs
      /\ pc[w] = "handling" /\ pc' = [pc EXCEPT ![w] = "finding"]
      /\ runs' = runs + 1 /\ ran' = ran \cup {job[w]}
      /\ UNCHANGED <<batch, job, read, canceller, reports, reported>>
  BY DEF Handle, Goto, Sound, TypeOK, Owning, Busy
<1>2. /\ ran \in SUBSET BatchJobs /\ reported \in SUBSET BatchJobs /\ runs \in Nat
      /\ pc \in [Workers -> {"idle", "handling", "finding", "writing", "settling"}]
  BY DEF Sound, TypeOK
<1>3. /\ Cardinality(ran) \in Nat /\ Cardinality(ran) <= runs
      /\ Cardinality(ran') = IF job[w] \in ran THEN Cardinality(ran) ELSE Cardinality(ran) + 1
  BY <1>1, <1>2, OneMoreJob, JobSetFinite DEF Accounted, RunsCounted
<1>4. \A v \in Workers : Sending(v)' <=> Sending(v) \/ v = w
  BY <1>1, <1>2 DEF Sending
<1>5. RunsCounted'
  BY <1>1, <1>2, <1>3, <1>4 DEF Accounted, RunsCounted
<1>6. ASSUME OnceEach' PROVE OnceEach /\ job[w] \notin ran
  <2>1. runs + 1 = Cardinality(ran')
    BY <1>1, <1>6 DEF OnceEach
  <2> QED BY <1>2, <1>3, <2>1 DEF OnceEach
<1>7. ASSUME OnceEach' PROVE FirstReports'
  BY <1>1, <1>4, <1>6, <1>7 DEF Accounted, RunsCounted, FirstReports
<1>8. SomeFinished' = SomeFinished
  BY <1>1, <1>2 DEF SomeFinished, Reporting
<1> QED BY <1>1, <1>5, <1>6, <1>7, <1>8 DEF Accounted

LEMMA PutAccounted ==
    ASSUME Sound, PendingNeverTooLow', Accounted, NEW w \in crew, Put(w)
    PROVE  Accounted'
<1>1. /\ w \in Workers /\ pc[w] = "writing" /\ pc' = [pc EXCEPT ![w] = "settling"]
      /\ job' = job /\ runs' = runs /\ ran' = ran /\ job[w] \in BatchJobs
      /\ reports' = reports + 1 /\ reported' = reported \cup {job[w]}
      /\ pc \in [Workers -> {"idle", "handling", "finding", "writing", "settling"}]
  BY DEF Put, Goto, Sound, TypeOK, Owning, Busy
<1>2. /\ \A v \in Workers : Sending(v)' <=> Sending(v) /\ v # w
      /\ Sending(w)
  BY <1>1 DEF Sending
<1>3. RunsCounted'
  BY <1>1, <1>2 DEF Accounted, RunsCounted
<1>4. ASSUME OnceEach'
      PROVE  /\ FirstReports' /\ reports' <= Cardinality(reported')
             /\ SomeFinished' => reported' = BatchJobs
  <2>1. OnceEach
    BY <1>1, <1>4 DEF OnceEach
  <2>2. job[w] \notin reported
    BY <1>1, <1>2, <2>1 DEF Accounted, FirstReports
  <2>3. FirstReports'
    BY <1>1, <1>2, <2>1 DEF Accounted, FirstReports
  <2>4. /\ reported \in SUBSET BatchJobs /\ reported' \in SUBSET BatchJobs /\ reports \in Nat
    BY <1>1 DEF Sound, TypeOK
  <2>5. Cardinality(reported') = Cardinality(reported) + 1
    BY <1>1, <2>2, <2>4, OneMoreJob
  <2>6. reports' <= Cardinality(reported')
    BY <1>1, <2>1, <2>4, <2>5, JobSetFinite DEF Accounted
  <2>7. CASE SomeFinished
    BY <1>1, <2>1, <2>2, <2>7 DEF Accounted
  <2>8. CASE ~SomeFinished /\ SomeFinished'
    <3>1. batch'.finished /\ ~read[w].finished
      BY <2>8, PutFrame DEF SomeFinished
    <3>2. Less(read[w].pending) = 0
      <4>1. PICK b \in Entry : b = read[w]
        BY PutFrame
      <4>2. \/ batch' = Success(b) /\ Success(b).finished
            \/ batch' = Failure(b) /\ Failure(b).finished
        BY <3>1, <4>1, PutFrame
      <4>3. ~b.finished
        BY <3>1, <4>1
      <4> QED BY <4>1, <4>2, <4>3, ReportTyped
    <3>3. batch'.exists /\ batch'.pending = 0
      BY <3>2, PutFrame
    <3>4. reports' >= Total
      BY <1>1, <2>4, <3>3, JobSetFinite DEF PendingNeverTooLow
    <3>5. Cardinality(reported') = Total
      BY <1>1, <2>4, <2>6, <3>4, JobSetFinite
    <3>6. reported' = BatchJobs
      BY <2>4, <3>5, JobSetFinite
    <3> QED BY <2>3, <2>6, <3>6
  <2> QED BY <2>3, <2>6, <2>7, <2>8
<1> QED BY <1>3, <1>4 DEF Accounted

LEMMA AccountedStep ==
    ASSUME Sound, PendingNeverTooLow', Accounted, [Next]_vars
    PROVE  Accounted'
<1>1. CASE \/ \E w \in crew : Put(w)
           \/ \E w \in crew : \E ok \in BOOLEAN : Handle(w, ok)
  BY <1>1, PutAccounted, HandleAccounted
<1>2. CASE /\ \A w \in crew : ~Put(w)
           /\ \A w \in crew, ok \in BOOLEAN : ~Handle(w, ok)
  <2>1. /\ UNCHANGED <<runs, ran, reports, reported>> /\ (SomeFinished' => SomeFinished)
        /\ \A v \in Workers : Sending(v)' => Sending(v) /\ job'[v] = job[v]
    BY <1>2, SendingFrame, FinishedCopies DEF history
  <2> QED BY <2>1 DEF Accounted, RunsCounted, OnceEach, FirstReports
<1> QED BY <1>1, <1>2

(***************************************************************************)
(* While no handler has ended twice, a finished batch has heard from all   *)
(* of its jobs, also while dispatch() is still pushing, after lost updates *)
(* and kills, and whoever popped a job together.                           *)
(***************************************************************************)
THEOREM EarlyFinishNeedsRerun == Spec => []FinishedEarlyOnlyByRerun
<1>1. Init => Accounted
  <2> SUFFICES ASSUME Init PROVE Accounted
    OBVIOUS
  <2>1. /\ runs = 0 /\ ran = {} /\ reports = 0 /\ reported = {} /\ ~SomeFinished
        /\ \A w \in Workers : ~Sending(w)
    BY DEF Init, NoBatch, SomeFinished, Reporting, Sending
  <2>2. Cardinality({}) = 0
    BY FS_EmptySet
  <2> QED BY <2>1, <2>2 DEF Accounted, RunsCounted, FirstReports
<1>2. Sound /\ PendingNeverTooLow' /\ Accounted /\ [Next]_vars => Accounted'
  BY AccountedStep
<1>3. Sound /\ Accounted => FinishedEarlyOnlyByRerun
  <2> SUFFICES ASSUME Sound, Accounted, batch.finished, ~(runs > Cardinality(ran))
               PROVE  reported = BatchJobs
    BY DEF FinishedEarlyOnlyByRerun
  <2>1. ran \in SUBSET BatchJobs /\ runs \in Nat
    BY DEF Sound, TypeOK
  <2>2. OnceEach
    BY <2>1, JobSetFinite DEF Accounted, RunsCounted, OnceEach
  <2> QED BY <2>2 DEF Accounted, SomeFinished
<1> QED BY <1>1, <1>2, <1>3, SoundInvariant, PendingIsNeverTooLow, PTL DEF Spec

----------------------------------------------------------------------------
(***************************************************************************)
(* With a single worker and no cancel nothing comes between the read and   *)
(* the write of a report: the entry counts the reports exactly.            *)
(***************************************************************************)
Alone == Cardinality(crew) = 1 /\ canceller.step = "none"

EntryExact ==
    Alone =>
        /\ ~batch.exists => reports = 0
        /\ batch.exists => batch.pending = IF reports >= Total THEN 0 ELSE Total - reports
        /\ batch.exists /\ batch.pending = 0 /\ batch.failed = 0 => batch.finished
        /\ \A w \in Reporting : read[w] = batch

LEMMA ExactPut ==
    ASSUME Sound, EntryExact, Alone, NEW w \in crew, Put(w)
    PROVE  EntryExact'
<1>1. /\ w \in Reporting /\ batch \in Entry /\ batch.exists /\ batch'.exists
      /\ batch' = Success(batch) \/ batch' = Failure(batch)
      /\ batch'.pending = Less(batch.pending) /\ reports' = reports + 1
      /\ Reporting' = Reporting \ {w}
  BY PutFrame DEF EntryExact
<1>2. reports \in Nat /\ Total \in Nat /\ batch.pending \in Nat /\ batch.failed \in Nat
  BY <1>1, FS_CardinalityType DEF Sound, TypeOK, Entry, Total
<1>3. /\ batch.pending = IF reports >= Total THEN 0 ELSE Total - reports
      /\ batch.pending = 0 /\ batch.failed = 0 => batch.finished
  BY <1>1 DEF EntryExact
<1>4. batch'.pending = IF reports' >= Total THEN 0 ELSE Total - reports'
  BY <1>1, <1>2, <1>3 DEF Less
<1>5. batch'.pending = 0 /\ batch'.failed = 0 => batch'.finished
  <2>1. ASSUME batch' = Success(batch), batch'.pending = 0, batch'.failed = 0
        PROVE  batch'.finished
    <3>1. Success(batch).finished = (batch.finished \/ (Less(batch.pending) = 0 /\ batch.failed = 0))
      BY <1>1, ReportTyped
    <3>2. batch.failed = 0 /\ Less(batch.pending) = 0
      BY <1>1, <2>1, ReportTyped
    <3> QED BY <2>1, <3>1, <3>2
  <2>2. CASE batch' = Failure(batch)
    <3>1. batch'.failed = batch.failed + 1
      BY <1>1, <2>2, ReportTyped
    <3> QED BY <1>2, <3>1
  <2> QED BY <1>1, <2>1, <2>2
<1>6. Reporting' = {}
  <2>1. crew \in SUBSET Workers /\ Cardinality(crew) = 1
    BY DEF Alone, Sound, TypeOK
  <2>2. IsFiniteSet(crew)
    BY <2>1, FS_Subset
  <2>3. PICK c : crew = {c}
    BY <2>1, <2>2, FS_Singleton
  <2>4. Reporting \subseteq crew
    BY DEF Reporting, Sound, Owning, Busy
  <2> QED BY <1>1, <2>3, <2>4
<1> QED BY <1>1, <1>4, <1>5, <1>6 DEF EntryExact

LEMMA ExactStep ==
    ASSUME Sound, EntryExact, [Next]_vars
    PROVE  EntryExact'
<1> SUFFICES ASSUME Alone' PROVE EntryExact'
  BY DEF EntryExact
<1>1. ASSUME NEW w \in crew, Put(w) PROVE EntryExact'
  <2>1. canceller' = canceller /\ crew' = crew
    BY <1>1 DEF Put
  <2>2. Alone
    BY <2>1 DEF Alone
  <2> QED BY <1>1, <2>2, ExactPut
<1>2. ASSUME NEW w \in crew, Run(w) \/ Kill(w), ~Put(w) PROVE EntryExact'
  <2>1. crew' = crew
    BY <1>2 DEF Run, Take, Unregistered, Handle, Find, ReportFails, Settle, Kill
  <2>2. UNCHANGED <<batch, canceller, reports>> /\ \A v \in Reporting' :
            read'[v] = batch \/ (v \in Reporting /\ read'[v] = read[v])
    BY <1>2, WorkerFrame
  <2> QED BY <2>1, <2>2 DEF EntryExact, Alone
<1>3. CASE (\E j \in BatchJobs : PushJob(j)) \/ UNCHANGED vars
  BY <1>3 DEF PushJob, vars, history, EntryExact, Alone, Reporting
<1>4. CASE Create
  <2>1. /\ Reporting = {} /\ Reporting' = Reporting /\ ~batch.exists /\ batch' = NewBatch
        /\ UNCHANGED <<crew, canceller, reports>>
    BY <1>4 DEF Create, Sound, Existing, Reporting, Busy, history
  <2>2. reports = 0
    BY <2>1 DEF EntryExact, Alone
  <2>3. Total \in Nat /\ Total # 0
    BY FS_CardinalityType, FS_EmptySet DEF Total
  <2> QED BY <2>1, <2>2, <2>3 DEF EntryExact, NewBatch
<1>5. CASE Cancelling
  BY <1>5 DEF Cancelling, CancelFind, CancelPut, Alone
<1> QED BY <1>1, <1>2, <1>3, <1>4, <1>5 DEF Next, Dispatching

(***************************************************************************)
(* With a single worker and no cancel, a batch without a failed report is  *)
(* finished once as many reports as jobs were written.                     *)
(***************************************************************************)
THEOREM SuccessHasFinished == Spec => []SuccessFinishes
<1>1. Init => EntryExact
  BY DEF Init, NoBatch, EntryExact, Reporting
<1>2. Sound /\ EntryExact /\ [Next]_vars => EntryExact'
  BY ExactStep
<1>3. Sound /\ EntryExact => SuccessFinishes
  <2> SUFFICES ASSUME Sound, EntryExact, Alone, reports >= Total, batch.failed = 0
               PROVE  batch.finished /\ batch.pending = 0
    BY DEF SuccessFinishes, Alone
  <2>1. Total \in Nat /\ Total # 0 /\ reports \in Nat
    BY FS_CardinalityType, FS_EmptySet DEF Total, Sound, TypeOK
  <2>2. batch.exists
    BY <2>1 DEF EntryExact
  <2> QED BY <2>2 DEF EntryExact
<1> QED BY <1>1, <1>2, <1>3, SoundInvariant, PTL DEF Spec

=============================================================================
