-------------------------- MODULE NodeServer_proofs --------------------------
(***************************************************************************)
(* The kernel and the node server, for any requests, routes, middleware,   *)
(* lazy providers and connections. KeepsItsRequest rests on who owns the   *)
(* pooled objects: an object in the pool belongs to no request that is     *)
(* running, it is there once, and the runner of a route holds the object   *)
(* of the one request that awaits in its middleware, as long as no second  *)
(* one has entered.                                                        *)
(***************************************************************************)
EXTENDS NodeServer, FiniteSetTheorems, SequenceTheorems, TLAPS

\* A provider that is marked was constructed once, the others never.
BootsCounted == \A p \in 1 .. Lazy : boots[p] = IF p \in booted THEN 1 ELSE 0

Busy == {r \in Requests : at[r] \in Running}

\* Whose object is whose.
ObjectsOwned ==
    /\ \A r \in Requests : at[r] \in Waiting => own[r] = 0 /\ passed[r] = 0
    /\ \A r \in Busy : own[r] # 0 /\ data[own[r]] = r
    /\ \A i \in 1 .. Len(pool), r \in Busy : pool[i] # own[r]
    /\ \A i, j \in 1 .. Len(pool) : pool[i] = pool[j] => i = j

\* A request that shares its runner with nobody finds in it what it left.
PipelineKept ==
    \A r \in Requests \ mixed :
        /\ r \in Busy => sees[r] = own[r]
        /\ at[r] = "middleware" =>
              /\ Inside(r) = {r}
              /\ runner[routeOf[r]] = [request |-> own[r], index |-> passed[r]]
        /\ at[r] = "handling" => passed[r] = Awaiting[routeOf[r]]

KernelInv == KernelTypeOK /\ BootsCounted /\ ObjectsOwned /\ PipelineKept

----------------------------------------------------------------------------
(* The pipeline *)

\* advance() goes to the next middleware, to the handler, or nowhere further.
LEMMA AdvanceEffect ==
    ASSUME KernelTypeOK, NEW r \in Requests, NEW request, NEW index \in Nat,
           index <= Awaiting[routeOf[r]], Advance(r, request, index)
    PROVE  \E label \in Running, m \in {0, 1} :
              /\ at' = [at EXCEPT ![r] = label]
              /\ passed' = [passed EXCEPT ![r] = @ + m]
              /\ runner' = [runner EXCEPT ![routeOf[r]] =
                               [request |-> request, index |-> index + m]]
              /\ sees' = [sees EXCEPT ![r] = request]
              /\ index + m <= Awaiting[routeOf[r]]
              /\ label = "handling" => m = 0 /\ index = Awaiting[routeOf[r]]
<1> USE KernelAssumption
<1>1. Awaiting[routeOf[r]] \in Nat
  OBVIOUS
<1>2. CASE index < Awaiting[routeOf[r]] /\ at' = [at EXCEPT ![r] = "middleware"]
  <2>1. /\ passed' = [passed EXCEPT ![r] = @ + 1]
        /\ runner' = [runner EXCEPT ![routeOf[r]] = [request |-> request, index |-> index + 1]]
        /\ sees' = [sees EXCEPT ![r] = request]
    BY <1>2 DEF Advance, KernelTypeOK
  <2> QED BY <1>1, <1>2, <2>1 DEF Running
<1> QED BY <1>1, <1>2 DEF Advance, Running

\* acquire() hands out an object that no running request has, whether the
\* pool had one or not.
LEMMA AcquireEffect ==
    ASSUME KernelInv, NEW r \in Requests, at[r] \in Waiting, Acquire(r)
    PROVE  \E object \in 1 .. Len(data') :
              /\ own' = [own EXCEPT ![r] = object]
              /\ data' \in Seq(Requests) /\ Len(data) <= Len(data')
              /\ data'[object] = r
              /\ \A i \in 1 .. Len(data) : i # object => data'[i] = data[i]
              /\ pool' \in Seq(1 .. Len(data')) /\ Len(pool') <= Len(pool)
              /\ \A i \in 1 .. Len(pool') : pool'[i] = pool[i] /\ pool'[i] # object
              /\ \A q \in Busy : own[q] # object
              /\ Len(data') <= Cardinality({q \in Requests : own'[q] # 0})
              /\ Run(r, object)
<1> USE KernelAssumption
<1> DEFINE Owners == {q \in Requests : own[q] # 0}
<1>1. /\ data \in Seq(Requests) /\ pool \in Seq(1 .. Len(data))
      /\ own \in [Requests -> 0 .. Len(data)] /\ Len(data) <= Cardinality(Owners)
      /\ Len(data) \in Nat /\ Len(pool) \in Nat
  BY DEF KernelInv, KernelTypeOK
<1>2. own[r] = 0
  BY DEF KernelInv, ObjectsOwned
<1>3. /\ IsFiniteSet(Owners) /\ Cardinality(Owners) \in Nat
      /\ Cardinality(Owners \cup {r}) = Cardinality(Owners) + 1
  <2>1. IsFiniteSet(Owners)
    BY FS_Subset
  <2> QED BY <2>1, <1>2, FS_CardinalityType, FS_AddElement
<1>4. ASSUME NEW object, object # 0, own' = [own EXCEPT ![r] = object]
      PROVE  {q \in Requests : own'[q] # 0} = Owners \cup {r}
  BY <1>4, <1>1
<1>5. CASE pool = <<>>
  <2> DEFINE object == Len(data) + 1
  <2>1. /\ pool' = <<>> /\ data' = Append(data, r)
        /\ own' = [own EXCEPT ![r] = object] /\ Run(r, object)
    BY <1>5 DEF Acquire
  <2>2. /\ data' \in Seq(Requests) /\ Len(data') = object /\ data'[object] = r
        /\ \A i \in 1 .. Len(data) : data'[i] = data[i]
    BY <2>1, <1>1, AppendProperties
  <2>3. pool' \in Seq(1 .. Len(data')) /\ Len(pool') = 0
    BY <2>1, EmptySeq
  <2>4. \A q \in Busy : own[q] # object
    BY <1>1 DEF Busy
  <2>5. Len(data') <= Cardinality({q \in Requests : own'[q] # 0})
    <3>1. object # 0
      BY <1>1
    <3>2. {q \in Requests : own'[q] # 0} = Owners \cup {r}
      BY <3>1, <2>1, <1>4
    <3>3. Cardinality({q \in Requests : own'[q] # 0}) = Cardinality(Owners) + 1
      BY <3>2, <1>3, Zenon
    <3> HIDE DEF Owners
    <3>4. Len(data') <= Cardinality(Owners) + 1
      BY <2>2, <1>1, <1>3
    <3> QED BY <3>3, <3>4, Zenon
  <2>6. object \in 1 .. Len(data') /\ Len(data) <= Len(data')
    BY <2>2, <1>1
  <2> HIDE DEF object
  <2>7. \A i \in 1 .. Len(pool') : pool'[i] = pool[i] /\ pool'[i] # object
    BY <2>3
  <2>8. Len(pool') <= Len(pool)
    BY <2>3, <1>1
  <2> QED BY <2>1, <2>2, <2>3, <2>4, <2>5, <2>6, <2>7, <2>8
<1>6. CASE pool # <<>>
  <2> DEFINE object == pool[Len(pool)]
             last == Len(pool)
  <2>0. last \in 1 .. Len(pool) /\ object \in 1 .. Len(data)
    BY <1>1, <1>6, SMTT(30)
  <2>1. /\ pool' = SubSeq(pool, 1, last - 1) /\ data' = [data EXCEPT ![object] = r]
        /\ own' = [own EXCEPT ![r] = object] /\ Run(r, object)
    BY <1>6 DEF Acquire
  <2>2. /\ data' \in Seq(Requests) /\ Len(data') = Len(data) /\ data'[object] = r
        /\ \A i \in 1 .. Len(data) : i # object => data'[i] = data[i]
    BY <2>0, <2>1, <1>1
  <2>3. /\ pool' \in Seq(1 .. Len(data')) /\ Len(pool') = last - 1
        /\ \A i \in 1 .. Len(pool') : pool'[i] = pool[i]
    <3>0. \A i \in 1 .. Len(pool) : pool[i] \in 1 .. Len(data)
      BY <1>1, ElementOfSeq
    <3>1. \A i \in 1 .. last - 1 : pool[i] \in 1 .. Len(data')
      BY <3>0, <2>2, <1>1
    <3> HIDE DEF last
    <3>2. last \in Nat /\ last - 1 \in Int /\ 1 \in Int /\ last >= 1
      BY <2>0, <1>1
    <3> QED BY <3>1, <3>2, <2>1, SubSeqProperties
  <2>4. \A i \in 1 .. Len(pool') : pool'[i] # object
    <3>1. \A i, j \in 1 .. Len(pool) : pool[i] = pool[j] => i = j
      BY DEF KernelInv, ObjectsOwned
    <3>2. \A i \in 1 .. last - 1 : i \in 1 .. Len(pool) /\ i # last
      BY <1>1, SMTT(30)
    <3> QED BY <3>1, <3>2, <2>0, <2>3
  <2>5. \A q \in Busy : own[q] # object
    BY <2>0 DEF KernelInv, ObjectsOwned
  <2>6. Len(data') <= Cardinality({q \in Requests : own'[q] # 0})
    <3>1. object # 0
      BY <2>0, <1>1
    <3>2. {q \in Requests : own'[q] # 0} = Owners \cup {r}
      BY <3>1, <2>1, <1>4
    <3>3. Cardinality({q \in Requests : own'[q] # 0}) = Cardinality(Owners) + 1
      BY <3>2, <1>3, Zenon
    <3> HIDE DEF Owners
    <3>4. Len(data') <= Cardinality(Owners) + 1
      BY <2>2, <1>1, <1>3
    <3> QED BY <3>3, <3>4, Zenon
  <2>7. object \in 1 .. Len(data') /\ Len(data) <= Len(data') /\ Len(pool') <= Len(pool)
    BY <2>0, <2>2, <2>3, <1>1
  <2> HIDE DEF object
  <2> QED BY <2>1, <2>2, <2>3, <2>4, <2>5, <2>6, <2>7
<1> QED BY <1>5, <1>6

\* Runner and objects of the requests other than r stay as they are when r
\* enters the pipeline of its route with an object nobody has.
LEMMA EnterKeeps ==
    ASSUME KernelInv, NEW r \in Requests, at[r] \in Waiting, Acquire(r),
           waits' \in [Requests -> 0 .. Lazy], UNCHANGED <<booted, boots>>
    PROVE  KernelInv'
<1> USE KernelAssumption
<1>1. PICK object \in 1 .. Len(data') :
              /\ own' = [own EXCEPT ![r] = object]
              /\ data' \in Seq(Requests) /\ Len(data) <= Len(data')
              /\ data'[object] = r
              /\ \A i \in 1 .. Len(data) : i # object => data'[i] = data[i]
              /\ pool' \in Seq(1 .. Len(data')) /\ Len(pool') <= Len(pool)
              /\ \A i \in 1 .. Len(pool') : pool'[i] = pool[i] /\ pool'[i] # object
              /\ \A q \in Busy : own[q] # object
              /\ Len(data') <= Cardinality({q \in Requests : own'[q] # 0})
              /\ Run(r, object)
  BY AcquireEffect
<1>2. PICK label \in Running, m \in {0, 1} :
              /\ at' = [at EXCEPT ![r] = label]
              /\ passed' = [passed EXCEPT ![r] = @ + m]
              /\ runner' = [runner EXCEPT ![routeOf[r]] = [request |-> object, index |-> 0 + m]]
              /\ sees' = [sees EXCEPT ![r] = object]
              /\ 0 + m <= Awaiting[routeOf[r]]
              /\ label = "handling" => m = 0 /\ 0 = Awaiting[routeOf[r]]
  <2>1. 0 <= Awaiting[routeOf[r]] /\ KernelTypeOK /\ Advance(r, object, 0)
    BY <1>1 DEF KernelInv, Run
  <2> QED BY <2>1, AdvanceEffect, SMTT(30)
<1>3. /\ at \in [Requests -> Waiting \cup Running \cup {"done"}]
      /\ data \in Seq(Requests) /\ Len(data) \in Nat
      /\ pool \in Seq(1 .. Len(data)) /\ Len(pool) \in Nat /\ Len(pool) <= PoolSize
      /\ own \in [Requests -> 0 .. Len(data)] /\ passed \in [Requests -> Nat]
      /\ sees \in [Requests -> 0 .. Len(data)]
      /\ runner \in [Routes -> [request : 0 .. Len(data), index : Nat]]
      /\ PoolSize \in Nat
  BY SMTT(30) DEF KernelInv, KernelTypeOK
<1> DEFINE n == Len(data)
           n2 == Len(data')
<1>0. /\ n2 \in Nat /\ Len(pool') \in Nat /\ n \in Nat /\ n <= n2 /\ object \in 1 .. n2
      /\ \A i \in 1 .. Len(pool') : pool'[i] \in 1 .. n2
  BY <1>1, <1>3, LenProperties, ElementOfSeq
<1> HIDE DEF n, n2
<1>4. KernelTypeOK'
  <2>1. runner' \in [Routes -> [request : 0 .. n2, index : Nat]]
    <3>1. runner \in [Routes -> [request : 0 .. n2, index : Nat]]
      BY <1>0, <1>3 DEF n
    <3>2. [request |-> object, index |-> 0 + m] \in [request : 0 .. n2, index : Nat]
      BY <1>0, <1>2
    <3> QED BY <3>1, <3>2, <1>2
  <2>2. \A t \in Routes : runner'[t].index <= Awaiting[t]
    BY <1>2, <1>3 DEF KernelInv, KernelTypeOK
  <2>3. mixed' \subseteq Requests
    BY <1>1 DEF Run, Inside, KernelInv, KernelTypeOK
  <2>4. own' \in [Requests -> 0 .. n2] /\ sees' \in [Requests -> 0 .. n2]
    <3>0. 0 .. n \subseteq 0 .. n2 /\ object \in 0 .. n2
      BY <1>0
    <3>1. own \in [Requests -> 0 .. n2] /\ sees \in [Requests -> 0 .. n2]
      BY <3>0, <1>3 DEF n
    <3>2. own' = [own EXCEPT ![r] = object]
      BY <1>1
    <3> QED BY <3>0, <3>1, <3>2, <1>2
  <2>5. /\ passed' \in [Requests -> Nat]
        /\ at' \in [Requests -> Waiting \cup Running \cup {"done"}]
    BY <1>2, <1>3, SMTT(30)
  <2>6. booted' \subseteq 1 .. Lazy /\ boots' \in [1 .. Lazy -> Nat]
    BY DEF KernelInv, KernelTypeOK
  <2>7. Len(pool') <= Len(pool)
    BY <1>1
  <2>8. Len(pool') <= PoolSize
    BY <2>7, <1>0, <1>3
  <2> QED BY <2>1, <2>2, <2>3, <2>4, <2>5, <2>6, <2>8, <1>1 DEF KernelTypeOK, n2
<1>5. \A q \in Requests : q \in Busy' <=> q = r \/ q \in Busy
  BY <1>2, <1>3 DEF Busy
<1>6. ObjectsOwned'
  <2>1. \A q \in Requests : at'[q] \in Waiting => own'[q] = 0 /\ passed'[q] = 0
    BY <1>1, <1>2, <1>3 DEF KernelInv, ObjectsOwned, Waiting, Running
  <2>2. \A q \in Busy' : own'[q] # 0 /\ data'[own'[q]] = q
    <3> SUFFICES ASSUME NEW q \in Busy' PROVE own'[q] # 0 /\ data'[own'[q]] = q
      OBVIOUS
    <3>1. CASE q = r
      BY <3>1, <1>0, <1>1, <1>3
    <3>2. CASE q # r
      <4>1. q \in Busy /\ q \in Requests
        BY <3>2, <1>5 DEF Busy
      <4>2. own'[q] = own[q] /\ own[q] # object
        BY <4>1, <3>2, <1>1, <1>3
      <4>3. own[q] # 0 /\ own[q] \in 1 .. Len(data) /\ data[own[q]] = q
        BY <4>1, <1>3, SMTT(30) DEF KernelInv, ObjectsOwned
      <4>4. \A i \in 1 .. Len(data) : i # object => data'[i] = data[i]
        BY <1>1
      <4> QED BY <4>2, <4>3, <4>4
    <3> QED BY <3>1, <3>2
  <2>3. \A i \in 1 .. Len(pool'), q \in Busy' : pool'[i] # own'[q]
    <3> SUFFICES ASSUME NEW i \in 1 .. Len(pool'), NEW q \in Busy'
                 PROVE  pool'[i] # own'[q]
      OBVIOUS
    <3>1. pool'[i] = pool[i] /\ pool'[i] # object /\ i \in 1 .. Len(pool)
      BY <1>0, <1>1, <1>3
    <3>2. CASE q = r
      BY <3>1, <3>2, <1>1, <1>3
    <3>3. CASE q # r
      <4>1. q \in Busy /\ own'[q] = own[q]
        BY <3>3, <1>1, <1>3, <1>5 DEF Busy
      <4> QED BY <4>1, <3>1 DEF KernelInv, ObjectsOwned
    <3> QED BY <3>2, <3>3
  <2>4. \A i, j \in 1 .. Len(pool') : pool'[i] = pool'[j] => i = j
    <3>1. \A i \in 1 .. Len(pool') : pool'[i] = pool[i] /\ i \in 1 .. Len(pool)
      BY <1>0, <1>1, <1>3
    <3> QED BY <3>1 DEF KernelInv, ObjectsOwned
  <2> QED BY <2>1, <2>2, <2>3, <2>4 DEF ObjectsOwned
<1>7. PipelineKept'
  <2> SUFFICES ASSUME NEW q \in Requests \ mixed'
               PROVE  /\ q \in Busy' => sees'[q] = own'[q]
                      /\ at'[q] = "middleware" =>
                            /\ Inside(q)' = {q}
                            /\ runner'[routeOf[q]] = [request |-> own'[q], index |-> passed'[q]]
                      /\ at'[q] = "handling" => passed'[q] = Awaiting[routeOf[q]]
    BY DEF PipelineKept
  <2>1. /\ q \notin mixed
        /\ Inside(r) # {} => q # r /\ q \notin Inside(r)
    BY <1>1 DEF Run
  <2>2. passed[r] = 0
    BY DEF KernelInv, ObjectsOwned
  <2>3. CASE q = r
    <3>1. sees'[r] = object /\ own'[r] = object /\ passed'[r] = m /\ at'[r] = label
      BY <1>1, <1>2, <1>3, <2>2
    <3>2. Inside(r) = {} /\ runner'[routeOf[r]] = [request |-> object, index |-> m]
      BY <1>2, <1>3, <2>1, <2>3
    <3>3. at'[r] = "middleware" => Inside(r)' = {r}
      <4>1. \A p \in Requests \ {r} : ~(at'[p] = "middleware" /\ routeOf[p] = routeOf[r])
        BY <3>2, <1>2, <1>3 DEF Inside
      <4> QED BY <4>1 DEF Inside
    <3> QED BY <3>1, <3>2, <3>3, <2>3, <1>2
  <2>4. CASE q # r
    <3>1. /\ sees'[q] = sees[q] /\ own'[q] = own[q] /\ passed'[q] = passed[q] /\ at'[q] = at[q]
          /\ q \in Busy' <=> q \in Busy
      BY <1>1, <1>2, <1>3, <1>5, <2>4
    <3>2. /\ q \in Busy => sees[q] = own[q]
          /\ at[q] = "middleware" =>
                /\ Inside(q) = {q}
                /\ runner[routeOf[q]] = [request |-> own[q], index |-> passed[q]]
          /\ at[q] = "handling" => passed[q] = Awaiting[routeOf[q]]
      BY <2>1 DEF KernelInv, PipelineKept
    <3>3. at[q] = "middleware" => routeOf[q] # routeOf[r]
      BY <2>1 DEF Inside
    <3>4. at[q] = "middleware" => Inside(q)' = Inside(q) /\ runner'[routeOf[q]] = runner[routeOf[q]]
      BY <3>3, <1>2, <1>3 DEF Inside
    <3> QED BY <3>1, <3>2, <3>4
  <2> QED BY <2>3, <2>4
<1>8. BootsCounted'
  BY DEF KernelInv, BootsCounted
<1> QED BY <1>4, <1>6, <1>7, <1>8 DEF KernelInv

\* A middleware that calls next() takes its runner on by one, and nobody
\* else who keeps to his own request is in that runner.
LEMMA CallsNextKeeps ==
    ASSUME KernelInv, NEW r \in Requests, CallsNext(r)
    PROVE  KernelInv'
<1> USE KernelAssumption
<1> DEFINE old == runner[routeOf[r]]
<1>1. /\ at \in [Requests -> Waiting \cup Running \cup {"done"}]
      /\ own \in [Requests -> 0 .. Len(data)] /\ passed \in [Requests -> Nat]
      /\ sees \in [Requests -> 0 .. Len(data)]
      /\ runner \in [Routes -> [request : 0 .. Len(data), index : Nat]]
      /\ at[r] = "middleware" /\ routeOf[r] \in Routes
      /\ \A t \in Routes : runner[t].index <= Awaiting[t]
      /\ old.index \in Nat /\ old.request \in 0 .. Len(data)
  BY DEF KernelInv, KernelTypeOK, CallsNext
<1>2. UNCHANGED <<waits, booted, boots, pool, data, own, mixed>>
  BY DEF CallsNext
<1>3. PICK label \in Running, m \in {0, 1} :
              /\ at' = [at EXCEPT ![r] = label]
              /\ passed' = [passed EXCEPT ![r] = @ + m]
              /\ runner' = [runner EXCEPT ![routeOf[r]] =
                               [request |-> old.request, index |-> old.index + m]]
              /\ sees' = [sees EXCEPT ![r] = old.request]
              /\ old.index + m <= Awaiting[routeOf[r]]
              /\ label = "handling" => m = 0 /\ old.index = Awaiting[routeOf[r]]
  <2>1. /\ KernelTypeOK /\ Advance(r, old.request, old.index)
        /\ old.index \in Nat /\ old.index <= Awaiting[routeOf[r]]
    BY <1>1 DEF KernelInv, CallsNext
  <2> HIDE DEF old
  <2> QED BY <2>1, AdvanceEffect
<1> HIDE DEF old
<1>4. KernelTypeOK'
  <2>1. /\ runner' \in [Routes -> [request : 0 .. Len(data), index : Nat]]
        /\ \A t \in Routes : runner'[t].index <= Awaiting[t]
    BY <1>1, <1>3
  <2>2. /\ sees' \in [Requests -> 0 .. Len(data)] /\ passed' \in [Requests -> Nat]
        /\ at' \in [Requests -> Waiting \cup Running \cup {"done"}]
    BY <1>1, <1>3, SMTT(30)
  <2>3. {q \in Requests : own'[q] # 0} = {q \in Requests : own[q] # 0}
    BY <1>2
  <2> QED BY <1>2, <2>1, <2>2, <2>3 DEF KernelInv, KernelTypeOK
<1>5. Busy' = Busy /\ r \in Busy
  BY <1>1, <1>3 DEF Busy, Running
<1>6. ObjectsOwned'
  <2>1. \A q \in Requests : at'[q] \in Waiting => at[q] \in Waiting /\ passed'[q] = passed[q]
    BY <1>1, <1>3 DEF Waiting, Running
  <2> QED BY <2>1, <1>2, <1>5, SMTT(30) DEF KernelInv, ObjectsOwned
<1>7. PipelineKept'
  <2> SUFFICES ASSUME NEW q \in Requests \ mixed
               PROVE  /\ q \in Busy => sees'[q] = own[q]
                      /\ at'[q] = "middleware" =>
                            /\ Inside(q)' = {q}
                            /\ runner'[routeOf[q]] = [request |-> own[q], index |-> passed'[q]]
                      /\ at'[q] = "handling" => passed'[q] = Awaiting[routeOf[q]]
    BY <1>2, <1>5 DEF PipelineKept
  <2>1. /\ q \in Busy => sees[q] = own[q]
        /\ at[q] = "middleware" =>
              /\ Inside(q) = {q}
              /\ runner[routeOf[q]] = [request |-> own[q], index |-> passed[q]]
        /\ at[q] = "handling" => passed[q] = Awaiting[routeOf[q]]
    BY DEF KernelInv, PipelineKept
  <2>2. CASE q = r
    <3>1. Inside(r) = {r} /\ old = [request |-> own[r], index |-> passed[r]]
      BY <2>1, <2>2, <1>1 DEF old
    <3>2. old.request = own[r] /\ old.index = passed[r]
      BY <3>1
    <3>3. at'[r] = "middleware" => Inside(r)' = {r}
      <4>1. \A p \in Requests \ {r} : ~(at'[p] = "middleware" /\ routeOf[p] = routeOf[r])
        BY <3>1, <1>1, <1>3 DEF Inside
      <4> QED BY <4>1 DEF Inside
    <3>4. /\ sees'[r] = own[r] /\ passed'[r] = passed[r] + m /\ at'[r] = label
          /\ runner'[routeOf[r]] = [request |-> own[r], index |-> passed[r] + m]
      BY <3>2, <1>1, <1>3
    <3> QED BY <3>2, <3>3, <3>4, <2>2, <1>1, <1>3
  <2>3. CASE q # r
    <3>1. sees'[q] = sees[q] /\ passed'[q] = passed[q] /\ at'[q] = at[q]
      BY <1>1, <1>3, <2>3
    <3>2. at[q] = "middleware" => routeOf[q] # routeOf[r]
      BY <2>1, <2>3, <1>1 DEF Inside
    <3>3. at[q] = "middleware" => Inside(q)' = Inside(q) /\ runner'[routeOf[q]] = runner[routeOf[q]]
      BY <3>2, <1>1, <1>3 DEF Inside
    <3> QED BY <3>1, <3>3, <2>1
  <2> QED BY <2>2, <2>3
<1>8. BootsCounted'
  BY <1>2 DEF KernelInv, BootsCounted
<1> QED BY <1>4, <1>6, <1>7, <1>8 DEF KernelInv

\* release(): the object of a request that has settled goes to the pool,
\* where it is not yet, and no running request has it.
LEMMA SettleKeeps ==
    ASSUME KernelInv, NEW r \in Requests, Settle(r)
    PROVE  KernelInv'
<1> USE KernelAssumption
<1>1. /\ at \in [Requests -> Waiting \cup Running \cup {"done"}]
      /\ pool \in Seq(1 .. Len(data)) /\ Len(pool) \in Nat /\ Len(pool) <= PoolSize
      /\ own \in [Requests -> 0 .. Len(data)] /\ PoolSize \in Nat
  BY DEF KernelInv, KernelTypeOK
<1>2. /\ r \in Busy /\ at' = [at EXCEPT ![r] = "done"]
      /\ pool' = IF Len(pool) < PoolSize THEN Append(pool, own[r]) ELSE pool
      /\ UNCHANGED <<waits, booted, boots, data, own, runner, sees, passed, mixed>>
  BY DEF Settle, Busy
<1>3. own[r] \in 1 .. Len(data) /\ data[own[r]] = r
  BY <1>1, <1>2 DEF KernelInv, ObjectsOwned
<1>4. /\ pool' \in Seq(1 .. Len(data)) /\ Len(pool') <= PoolSize
      /\ \A i \in 1 .. Len(pool') :
            \/ i \in 1 .. Len(pool) /\ pool'[i] = pool[i]
            \/ i = Len(pool) + 1 /\ pool'[i] = own[r]
  <2>1. CASE Len(pool) < PoolSize
    <3>1. /\ Append(pool, own[r]) \in Seq(1 .. Len(data)) /\ Len(Append(pool, own[r])) = Len(pool) + 1
          /\ \A i \in 1 .. Len(pool) : Append(pool, own[r])[i] = pool[i]
          /\ Append(pool, own[r])[Len(pool) + 1] = own[r]
      BY <1>1, <1>3, AppendProperties
    <3>2. pool' = Append(pool, own[r])
      BY <2>1, <1>2
    <3> QED BY <3>1, <3>2, <2>1, <1>1
  <2>2. CASE ~(Len(pool) < PoolSize)
    BY <2>2, <1>1, <1>2
  <2> QED BY <2>1, <2>2
<1>5. Busy' = Busy \ {r}
  BY <1>1, <1>2 DEF Busy, Running
<1>6. KernelTypeOK'
  <2>1. at' \in [Requests -> Waiting \cup Running \cup {"done"}]
    BY <1>1, <1>2
  <2>2. {q \in Requests : own'[q] # 0} = {q \in Requests : own[q] # 0}
    BY <1>2
  <2> QED BY <1>2, <1>4, <2>1, <2>2 DEF KernelInv, KernelTypeOK
<1>7. ObjectsOwned'
  <2>1. \A q \in Requests : at'[q] \in Waiting => own'[q] = 0 /\ passed'[q] = 0
    BY <1>1, <1>2 DEF KernelInv, ObjectsOwned, Waiting
  <2>2. \A q \in Busy' : own'[q] # 0 /\ data'[own'[q]] = q
    BY <1>2, <1>5 DEF KernelInv, ObjectsOwned
  <2>3. \A q \in Busy' : own[q] # own[r]
    BY <1>3, <1>5 DEF KernelInv, ObjectsOwned
  <2>4. \A i \in 1 .. Len(pool'), q \in Busy' : pool'[i] # own'[q]
    BY <1>2, <1>4, <1>5, <2>3 DEF KernelInv, ObjectsOwned
  <2>5. \A i \in 1 .. Len(pool) : pool[i] # own[r]
    BY <1>2 DEF KernelInv, ObjectsOwned
  <2>6. \A i, j \in 1 .. Len(pool') : pool'[i] = pool'[j] => i = j
    BY <1>4, <2>5 DEF KernelInv, ObjectsOwned
  <2> QED BY <2>1, <2>2, <2>4, <2>6 DEF ObjectsOwned
<1>8. PipelineKept'
  <2> SUFFICES ASSUME NEW q \in Requests \ mixed
               PROVE  /\ q \in Busy' => sees[q] = own[q]
                      /\ at'[q] = "middleware" =>
                            /\ Inside(q)' = {q}
                            /\ runner[routeOf[q]] = [request |-> own[q], index |-> passed[q]]
                      /\ at'[q] = "handling" => passed[q] = Awaiting[routeOf[q]]
    BY <1>2 DEF PipelineKept
  <2>1. at'[q] # "done" => at'[q] = at[q] /\ q # r
    BY <1>1, <1>2
  <2>2. at'[q] = "middleware" => Inside(q)' \subseteq Inside(q) /\ q \in Inside(q)'
    BY <1>1, <1>2 DEF Inside
  <2> QED BY <2>1, <2>2, <1>5 DEF KernelInv, PipelineKept
<1>9. BootsCounted'
  BY <1>2 DEF KernelInv, BootsCounted
<1> QED BY <1>6, <1>7, <1>8, <1>9 DEF KernelInv

----------------------------------------------------------------------------
(* Before the pipeline *)

\* A request that goes from one place before its pipeline to another, or is
\* done there, touches neither the pool nor a runner.
LEMMA OutsideKeeps ==
    ASSUME KernelInv, NEW r \in Requests, at[r] \in Waiting,
           NEW label \in Waiting \cup {"done"}, at' = [at EXCEPT ![r] = label],
           UNCHANGED <<pool, data, own, runner, sees, passed, mixed>>,
           waits' \in [Requests -> 0 .. Lazy],
           booted' \subseteq 1 .. Lazy, boots' \in [1 .. Lazy -> Nat], BootsCounted'
    PROVE  KernelInv'
<1>1. at \in [Requests -> Waiting \cup Running \cup {"done"}]
  BY DEF KernelInv, KernelTypeOK
<1>2. Busy' = Busy
  BY <1>1 DEF Busy, Waiting, Running
<1>3. KernelTypeOK'
  <2>1. {q \in Requests : own'[q] # 0} = {q \in Requests : own[q] # 0}
    OBVIOUS
  <2>2. at' \in [Requests -> Waiting \cup Running \cup {"done"}]
    BY <1>1
  <2> QED BY <2>1, <2>2 DEF KernelInv, KernelTypeOK
<1>4. ObjectsOwned'
  <2>1. \A q \in Requests : at'[q] \in Waiting => at[q] \in Waiting
    BY <1>1
  <2> QED BY <1>2, <2>1 DEF KernelInv, ObjectsOwned
<1>5. PipelineKept'
  <2>1. \A q \in Requests : at'[q] \in Running => at'[q] = at[q]
    BY <1>1 DEF Waiting, Running
  <2>2. \A q \in Requests : at'[q] = "middleware" <=> at[q] = "middleware"
    BY <1>1 DEF Waiting
  <2>3. \A q \in Requests : Inside(q)' = Inside(q)
    BY <2>2 DEF Inside
  <2> QED BY <1>2, <2>1, <2>2, <2>3 DEF KernelInv, PipelineKept, Running
<1> QED BY <1>3, <1>4, <1>5 DEF KernelInv

\* dispatch() up to its next await.
LEMMA DispatchKeeps ==
    ASSUME KernelInv, NEW r \in Requests, at[r] \in Waiting, Dispatch(r),
           waits' \in [Requests -> 0 .. Lazy], UNCHANGED <<booted, boots>>
    PROVE  KernelInv'
<1>1. booted' \subseteq 1 .. Lazy /\ boots' \in [1 .. Lazy -> Nat] /\ BootsCounted'
  BY DEF KernelInv, KernelTypeOK, BootsCounted
<1>2. CASE Acquire(r)
  BY <1>2, EnterKeeps
<1>3. ASSUME NEW label \in {"binding", "done"}, at' = [at EXCEPT ![r] = label],
             UNCHANGED <<pool, data, own, runner, sees, passed, mixed>>
      PROVE  KernelInv'
  <2>1. label \in Waiting \cup {"done"}
    BY DEF Waiting
  <2> QED BY <1>1, <1>3, <2>1, OutsideKeeps
<1> QED BY <1>2, <1>3 DEF Dispatch

\* The loop over the lazy providers constructs only one that is not marked,
\* and marks it.
LEMMA ProceedKeeps ==
    ASSUME KernelInv, NEW r \in Requests, at[r] \in Waiting, Proceed(r)
    PROVE  KernelInv'
<1> USE KernelAssumption
<1>1. /\ waits \in [Requests -> 0 .. Lazy] /\ booted \subseteq 1 .. Lazy
      /\ boots \in [1 .. Lazy -> Nat] /\ needs[r] \subseteq 1 .. Lazy /\ Lazy \in Nat
  BY DEF KernelInv, KernelTypeOK
<1>2. CASE waits' = [waits EXCEPT ![r] = 0] /\ Dispatch(r) /\ UNCHANGED <<booted, boots>>
  BY <1>1, <1>2, DispatchKeeps
<1>3. ASSUME NEW p \in 1 .. Lazy, p \notin booted, NextProvider(r, p)
      PROVE  KernelInv'
  <2>1. /\ waits' = [waits EXCEPT ![r] = p] /\ boots' = [boots EXCEPT ![p] = @ + 1]
        /\ booted' = booted \cup {p} /\ at' = [at EXCEPT ![r] = "booting"]
        /\ UNCHANGED <<pool, data, own, runner, sees, passed, mixed>>
    BY <1>3 DEF NextProvider
  <2>2. /\ waits' \in [Requests -> 0 .. Lazy] /\ booted' \subseteq 1 .. Lazy
        /\ boots' \in [1 .. Lazy -> Nat]
    BY <1>1, <2>1
  <2>3. BootsCounted'
    BY <1>1, <1>3, <2>1 DEF KernelInv, BootsCounted
  <2>4. "booting" \in Waiting \cup {"done"}
    BY DEF Waiting
  <2> QED BY <2>1, <2>2, <2>3, <2>4, OutsideKeeps
<1> QED BY <1>1, <1>2, <1>3 DEF Proceed

\* One step of handle() for a request, whichever it is.
LEMMA HandleKeeps ==
    ASSUME KernelInv, NEW r \in Requests, Handle(r)
    PROVE  KernelInv'
BY ProceedKeeps DEF Handle, Waiting

LEMMA WorkKeeps ==
    ASSUME KernelInv, NEW r \in Requests, Work(r)
    PROVE  KernelInv'
<1>0. KernelTypeOK /\ BootsCounted
  BY DEF KernelInv
<1>1. CASE ProviderBooted(r)
  BY <1>1, ProceedKeeps DEF ProviderBooted, Waiting
<1>2. CASE BindingsResolved(r)
  BY <1>0, <1>2, EnterKeeps DEF BindingsResolved, Waiting, KernelTypeOK
<1>3. CASE CallsNext(r)
  BY <1>3, CallsNextKeeps
<1>4. CASE Settle(r)
  BY <1>4, SettleKeeps
<1>5. CASE Rejects(r)
  <2>1. /\ at[r] \in Waiting /\ "done" \in Waiting \cup {"done"}
        /\ at' = [at EXCEPT ![r] = "done"]
        /\ UNCHANGED <<waits, booted, boots, pool, data, own, runner, sees, passed, mixed>>
    BY <1>5 DEF Rejects, Waiting
  <2>2. /\ waits' \in [Requests -> 0 .. Lazy] /\ booted' \subseteq 1 .. Lazy
        /\ boots' \in [1 .. Lazy -> Nat] /\ BootsCounted'
    BY <1>0, <2>1 DEF KernelTypeOK, BootsCounted
  <2> QED BY <2>1, <2>2, OutsideKeeps
<1> QED BY <1>1, <1>2, <1>3, <1>4, <1>5 DEF Work

\* What no request changes stays.
LEMMA KernelStutter ==
    ASSUME KernelInv, UNCHANGED kernelVars
    PROVE  KernelInv'
BY DEF KernelInv, KernelTypeOK, BootsCounted, ObjectsOwned, PipelineKept, Busy, Inside, kernelVars

LEMMA KernelInitInv == KernelInit => KernelInv
<1> SUFFICES ASSUME KernelInit PROVE KernelInv
  OBVIOUS
<1> USE KernelAssumption
<1>1. Busy = {} /\ \A r \in Requests : at[r] = "new"
  BY DEF KernelInit, Busy, Running
<1>2. Len(data) = 0 /\ Len(pool) = 0 /\ pool \in Seq(1 .. Len(data)) /\ data \in Seq(Requests)
  BY EmptySeq DEF KernelInit
<1>3. 0 <= Cardinality({r \in Requests : own[r] # 0})
  <2>1. IsFiniteSet({r \in Requests : own[r] # 0})
    BY FS_Subset
  <2> QED BY <2>1, FS_CardinalityType
<1>4. KernelTypeOK
  BY <1>2, <1>3 DEF KernelInit, KernelTypeOK, Waiting
<1>5. ObjectsOwned
  BY <1>1, <1>2 DEF KernelInit, ObjectsOwned
<1>6. PipelineKept
  BY <1>1 DEF PipelineKept, Busy
<1>7. BootsCounted
  BY DEF KernelInit, BootsCounted
<1> QED BY <1>4, <1>5, <1>6, <1>7 DEF KernelInv

----------------------------------------------------------------------------
(* The server around the kernel *)

\* A connection has at most one request in flight, and counts it; the timer
\* is not armed before the shutdown.
ServerInv ==
    /\ phase \in {"serving", "closing", "exited"}
    /\ tls \in BOOLEAN
    /\ sock \in [Conns -> {"none", "open", "ended", "gone"}]
    /\ timer \in {"off", "armed", "fired"}
    /\ line \in [Requests -> {"unsent", "refused", "answered", "broken", "aborted", "cut"} \cup Open]
    /\ early \subseteq Requests
    /\ active = [c \in Conns |-> IF InFlight(c) = {} THEN 0 ELSE 1]
    /\ \A q, r \in Requests :
          line[q] \in Open /\ line[r] \in Open /\ connOf[q] = connOf[r] => q = r
    /\ phase = "serving" => timer = "off"
    /\ NoCutOff

IInv == KernelInv /\ ServerInv

\* The count of a connection is the number of its requests in flight.
LEMMA ActiveIsCardinality ==
    ASSUME ServerInv
    PROVE  active = [c \in Conns |-> Cardinality(InFlight(c))]
<1> SUFFICES ASSUME NEW c \in Conns
             PROVE  Cardinality(InFlight(c)) = IF InFlight(c) = {} THEN 0 ELSE 1
  BY DEF ServerInv
<1>1. CASE InFlight(c) = {}
  BY <1>1, FS_EmptySet
<1>2. CASE InFlight(c) # {}
  <2>1. PICK r : r \in InFlight(c)
    BY <1>2
  <2>2. InFlight(c) = {r}
    BY <2>1 DEF InFlight, ServerInv
  <2> QED BY <1>2, <2>2, FS_Singleton
<1> QED BY <1>1, <1>2

\* What a step of the kernel leaves alone.
LEMMA ServerStutter ==
    ASSUME ServerInv, UNCHANGED serverVars
    PROVE  ServerInv'
BY DEF ServerInv, InFlight, NoCutOff, serverVars

\* A request goes on along its line: from in flight to in flight, with its
\* connection's count, or to in flight on a connection that has none.
LEMMA LineKeeps ==
    ASSUME ServerInv, NEW r \in Requests, line[r] \in Open, NEW label \in Open,
           line' = [line EXCEPT ![r] = label],
           UNCHANGED <<phase, tls, sock, active, timer, early>>
    PROVE  ServerInv'
<1>1. line \in [Requests -> {"unsent", "refused", "answered", "broken", "aborted", "cut"} \cup Open]
  BY DEF ServerInv
<1>2. \A q \in Requests : line'[q] \in Open <=> line[q] \in Open
  BY <1>1
<1>3. \A c \in Conns : InFlight(c)' = InFlight(c)
  BY <1>2 DEF InFlight
<1>4. \A q \in Requests : line'[q] = "cut" => line[q] = "cut"
  BY <1>1 DEF Open
<1>5. line' \in [Requests -> {"unsent", "refused", "answered", "broken", "aborted", "cut"} \cup Open]
  BY <1>1
<1> QED BY <1>2, <1>3, <1>4, <1>5 DEF ServerInv, NoCutOff

\* A request arrives.
LEMMA RequestKeeps ==
    ASSUME ServerInv, NEW r \in Requests, Request(r)
    PROVE  ServerInv'
<1> USE ServerAssumption
<1> DEFINE c == connOf[r]
<1>1. /\ line \in [Requests -> {"unsent", "refused", "answered", "broken", "aborted", "cut"} \cup Open]
      /\ sock \in [Conns -> {"none", "open", "ended", "gone"}]
      /\ active = [d \in Conns |-> IF InFlight(d) = {} THEN 0 ELSE 1]
      /\ early \subseteq Requests
  BY DEF ServerInv
<1>2. /\ line[r] = "unsent" /\ InFlight(c) = {} /\ c \in Conns
      /\ UNCHANGED <<phase, tls, timer>>
  BY DEF Request
<1>3. CASE phase = "closing"
  <2>1. /\ line' = [line EXCEPT ![r] = "refused"] /\ sock' = [sock EXCEPT ![c] = "ended"]
        /\ UNCHANGED <<active, early>>
    BY <1>3 DEF Request
  <2>2. \A q \in Requests : /\ line'[q] \in Open <=> line[q] \in Open
                            /\ line'[q] = "cut" => line[q] = "cut"
    BY <1>1, <1>2, <2>1 DEF Open
  <2>3. \A d \in Conns : InFlight(d)' = InFlight(d)
    BY <2>2 DEF InFlight
  <2>4. /\ line' \in [Requests -> {"unsent", "refused", "answered", "broken", "aborted", "cut"} \cup Open]
        /\ sock' \in [Conns -> {"none", "open", "ended", "gone"}]
    BY <1>1, <2>1
  <2> QED BY <1>2, <2>1, <2>2, <2>3, <2>4 DEF ServerInv, NoCutOff
<1>4. CASE phase # "closing"
  <2>1. /\ line' = [line EXCEPT ![r] = "reading"] /\ active' = [active EXCEPT ![c] = @ + 1]
        /\ early' = early \cup {r} /\ sock' = sock
    BY <1>4 DEF Request
  <2>2. /\ line'[r] = "reading" /\ "reading" \in Open
        /\ \A q \in Requests \ {r} : line'[q] = line[q]
        /\ line' \in [Requests -> {"unsent", "refused", "answered", "broken", "aborted", "cut"} \cup Open]
    BY <1>1, <2>1 DEF Open
  <2>3. InFlight(c)' # {} /\ \A d \in Conns \ {c} : InFlight(d)' = InFlight(d)
    BY <2>2 DEF InFlight
  <2>4. active' = [d \in Conns |-> IF InFlight(d)' = {} THEN 0 ELSE 1]
    BY <1>1, <1>2, <2>1, <2>3, SMTT(30)
  <2>5. \A q \in Requests \ {r} : line[q] \in Open => connOf[q] # c
    BY <1>2 DEF InFlight
  <2>6. \A q, p \in Requests :
          line'[q] \in Open /\ line'[p] \in Open /\ connOf[q] = connOf[p] => q = p
    BY <2>2, <2>5 DEF ServerInv
  <2>7. NoCutOff'
    BY <1>2, <2>1, <2>2 DEF ServerInv, NoCutOff
  <2> QED BY <1>1, <1>2, <2>1, <2>2, <2>4, <2>6, <2>7 DEF ServerInv
<1> QED BY <1>3, <1>4

\* finish counts the request off.
LEMMA FinishKeeps ==
    ASSUME ServerInv, NEW r \in Requests, Finish(r)
    PROVE  ServerInv'
<1> USE ServerAssumption
<1> DEFINE c == connOf[r]
<1>1. /\ line \in [Requests -> {"unsent", "refused", "answered", "broken", "aborted", "cut"} \cup Open]
      /\ sock \in [Conns -> {"none", "open", "ended", "gone"}]
      /\ active = [d \in Conns |-> IF InFlight(d) = {} THEN 0 ELSE 1]
  BY DEF ServerInv
<1>2. /\ line[r] \in Open /\ c \in Conns /\ line' = [line EXCEPT ![r] = "answered"]
      /\ active' = [active EXCEPT ![c] = @ - 1]
      /\ sock' = IF phase = "closing" /\ active'[c] = 0 THEN [sock EXCEPT ![c] = "ended"] ELSE sock
      /\ UNCHANGED <<phase, tls, timer, early>>
  BY DEF Finish, Open
<1>3. /\ line'[r] = "answered" /\ "answered" \notin Open
      /\ \A q \in Requests \ {r} : line'[q] = line[q]
      /\ line' \in [Requests -> {"unsent", "refused", "answered", "broken", "aborted", "cut"} \cup Open]
  BY <1>1, <1>2 DEF Open
<1>4. InFlight(c) = {r} /\ InFlight(c)' = {} /\ \A d \in Conns \ {c} : InFlight(d)' = InFlight(d)
  <2>1. \A q \in Requests \ {r} : line[q] \in Open => connOf[q] # c
    BY <1>2 DEF ServerInv
  <2>2. InFlight(c) = {r}
    BY <1>2, <2>1 DEF InFlight
  <2>3. InFlight(c)' = {}
    BY <1>3, <2>1 DEF InFlight
  <2>4. \A d \in Conns \ {c} : InFlight(d)' = InFlight(d)
    BY <1>3 DEF InFlight
  <2> QED BY <2>2, <2>3, <2>4
<1>5. active' = [d \in Conns |-> IF InFlight(d)' = {} THEN 0 ELSE 1]
  <2>1. InFlight(c) # {}
    BY <1>4
  <2>2. active[c] = 1 /\ \A d \in Conns : active[d] = IF InFlight(d) = {} THEN 0 ELSE 1
    BY <1>1, <1>2, <2>1
  <2>3. active' = [d \in Conns |-> IF d = c THEN 0 ELSE active[d]]
    <3>1. active' = [d \in Conns |-> IF d = c THEN active[c] - 1 ELSE active[d]]
      BY <1>1, <1>2, Zenon
    <3> HIDE DEF c
    <3> QED BY <3>1, <2>2
  <2>4. ASSUME NEW d \in Conns
        PROVE  (IF d = c THEN 0 ELSE active[d]) = IF InFlight(d)' = {} THEN 0 ELSE 1
    BY <1>4, <2>2
  <2> QED BY <2>3, <2>4
<1>6. \A q, p \in Requests :
        line'[q] \in Open /\ line'[p] \in Open /\ connOf[q] = connOf[p] => q = p
  BY <1>3 DEF ServerInv
<1>7. NoCutOff'
  BY <1>2, <1>3 DEF ServerInv, NoCutOff
<1>8. sock' \in [Conns -> {"none", "open", "ended", "gone"}]
  BY <1>1, <1>2
<1> QED BY <1>2, <1>3, <1>5, <1>6, <1>7, <1>8 DEF ServerInv

\* Sockets are lost with what is in flight on them.
LEMMA LoseKeeps ==
    ASSUME ServerInv, NEW cs \in SUBSET Conns, NEW state \in {"ended", "gone"},
           NEW how \in {"broken", "aborted", "cut"}, Lose(cs, state, how),
           UNCHANGED <<tls, early>>,
           phase' \in {"serving", "closing", "exited"}, timer' \in {"off", "armed", "fired"},
           phase' = "serving" => timer' = "off",
           timer = "fired" => timer' = "fired",
           how = "cut" => tls \/ timer' = "fired" \/ \A c \in cs : InFlight(c) = {}
    PROVE  ServerInv'
<1> USE ServerAssumption
<1>1. /\ line \in [Requests -> {"unsent", "refused", "answered", "broken", "aborted", "cut"} \cup Open]
      /\ sock \in [Conns -> {"none", "open", "ended", "gone"}]
      /\ active = [d \in Conns |-> IF InFlight(d) = {} THEN 0 ELSE 1]
      /\ early \subseteq Requests
  BY DEF ServerInv
<1>2. /\ sock' = [c \in Conns |-> IF c \in cs THEN state ELSE sock[c]]
      /\ line' = [r \in Requests |-> IF connOf[r] \in cs /\ line[r] \in Open THEN how ELSE line[r]]
      /\ active' = [c \in Conns |-> IF c \in cs THEN 0 ELSE active[c]]
  BY DEF Lose
<1>3. \A q \in Requests : line'[q] \in Open <=> line[q] \in Open /\ connOf[q] \notin cs
  BY <1>2 DEF Open
<1>4. \A c \in Conns : InFlight(c)' = IF c \in cs THEN {} ELSE InFlight(c)
  BY <1>3 DEF InFlight
<1>5. active' = [d \in Conns |-> IF InFlight(d)' = {} THEN 0 ELSE 1]
  <2>1. \A d \in Conns : active[d] = IF InFlight(d) = {} THEN 0 ELSE 1
    BY <1>1
  <2>2. ASSUME NEW d \in Conns
        PROVE  (IF d \in cs THEN 0 ELSE active[d]) = IF InFlight(d)' = {} THEN 0 ELSE 1
    BY <1>4, <2>1
  <2> QED BY <1>2, <2>2
<1>6. /\ line' \in [Requests -> {"unsent", "refused", "answered", "broken", "aborted", "cut"} \cup Open]
      /\ sock' \in [Conns -> {"none", "open", "ended", "gone"}]
  BY <1>1, <1>2
<1>7. NoCutOff'
  <2> SUFFICES ASSUME NEW r \in early, line'[r] = "cut" PROVE tls \/ timer' = "fired"
    BY DEF NoCutOff
  <2>1. CASE line[r] = "cut"
    BY <2>1 DEF ServerInv, NoCutOff
  <2>2. CASE line[r] # "cut"
    <3>1. r \in Requests /\ connOf[r] \in cs /\ line[r] \in Open /\ how = "cut"
      BY <1>1, <1>2, <2>2
    <3>2. r \in InFlight(connOf[r])
      BY <3>1 DEF InFlight
    <3> QED BY <3>1, <3>2
  <2> QED BY <2>1, <2>2
<1>8. \A q, p \in Requests :
        line'[q] \in Open /\ line'[p] \in Open /\ connOf[q] = connOf[p] => q = p
  BY <1>3 DEF ServerInv
<1> QED BY <1>1, <1>5, <1>6, <1>7, <1>8 DEF ServerInv

----------------------------------------------------------------------------
(* The invariant and its theorems *)

LEMMA InitInv == Init => IInv
<1> SUFFICES ASSUME Init PROVE IInv
  OBVIOUS
<1>1. KernelInv
  BY KernelInitInv DEF Init
<1>2. \A c \in Conns : InFlight(c) = {}
  BY DEF Init, InFlight, Open
<1>3. ServerInv
  BY <1>2 DEF Init, ServerInv, NoCutOff, Open
<1> QED BY <1>1, <1>3 DEF IInv

LEMMA NextKeeps == IInv /\ [Next]_vars => IInv'
<1> SUFFICES ASSUME KernelInv, ServerInv, [Next]_vars PROVE KernelInv' /\ ServerInv'
  BY DEF IInv
<1> USE ServerAssumption
<1>1. ASSUME NEW c \in Conns, Connect(c) PROVE KernelInv' /\ ServerInv'
  <2>1. \A d \in Conns : InFlight(d)' = InFlight(d)
    BY <1>1 DEF Connect, InFlight
  <2>2. ServerInv'
    BY <1>1, <2>1 DEF Connect, ServerInv, NoCutOff
  <2> QED BY <1>1, <2>2, KernelStutter DEF Connect
<1>2. ASSUME NEW c \in Conns, ClientLeaves(c) PROVE KernelInv' /\ ServerInv'
  <2>1. /\ {c} \in SUBSET Conns /\ Lose({c}, "gone", "aborted")
        /\ UNCHANGED <<kernelVars, phase, tls, timer, early>>
    BY <1>2 DEF ClientLeaves
  <2>2. phase \in {"serving", "closing", "exited"} /\ timer \in {"off", "armed", "fired"}
        /\ (phase = "serving" => timer = "off")
    BY DEF ServerInv
  <2>3. ServerInv'
    BY <2>1, <2>2, LoseKeeps
  <2> QED BY <2>1, <2>3, KernelStutter
<1>3. ASSUME NEW r \in Requests, Request(r) PROVE KernelInv' /\ ServerInv'
  BY <1>3, RequestKeeps, KernelStutter DEF Request
<1>4. ASSUME NEW r \in Requests, ToKernel(r) PROVE KernelInv' /\ ServerInv'
  <2>1. line[r] \in Open /\ "kernel" \in Open
    BY <1>4 DEF ToKernel, Open
  <2> QED BY <1>4, <2>1, HandleKeeps, LineKeeps DEF ToKernel
<1>5. ASSUME NEW r \in Requests, KernelStep(r) PROVE KernelInv' /\ ServerInv'
  BY <1>5, WorkKeeps, ServerStutter DEF KernelStep
<1>6. ASSUME NEW r \in Requests, Stream(r) PROVE KernelInv' /\ ServerInv'
  <2>1. line[r] \in Open /\ "streaming" \in Open
    BY <1>6 DEF Stream, Open
  <2> QED BY <1>6, <2>1, KernelStutter, LineKeeps DEF Stream
<1>7. ASSUME NEW r \in Requests, Finish(r) PROVE KernelInv' /\ ServerInv'
  BY <1>7, FinishKeeps, KernelStutter DEF Finish
<1>8. ASSUME NEW r \in Requests, StreamFails(r) PROVE KernelInv' /\ ServerInv'
  <2>1. /\ {connOf[r]} \in SUBSET Conns /\ Lose({connOf[r]}, "gone", "broken")
        /\ UNCHANGED <<kernelVars, phase, tls, timer, early>>
    BY <1>8 DEF StreamFails
  <2>2. phase \in {"serving", "closing", "exited"} /\ timer \in {"off", "armed", "fired"}
        /\ (phase = "serving" => timer = "off")
    BY DEF ServerInv
  <2>3. ServerInv'
    BY <2>1, <2>2, LoseKeeps
  <2> QED BY <2>1, <2>3, KernelStutter
<1>9. ASSUME Close PROVE KernelInv' /\ ServerInv'
  <2> DEFINE idle == {c \in Live : tls \/ active[c] = 0}
  <2>1. /\ idle \in SUBSET Conns /\ Lose(idle, "ended", "cut")
        /\ UNCHANGED <<kernelVars, tls, early>>
        /\ phase = "serving" /\ phase' = "closing" /\ timer' \in {"off", "armed", "fired"}
    BY <1>9 DEF Close, Live
  <2>2. timer # "fired" /\ (tls \/ \A c \in idle : InFlight(c) = {})
    BY <2>1 DEF ServerInv, Live
  <2> HIDE DEF idle
  <2>3. ServerInv'
    BY <2>1, <2>2, LoseKeeps
  <2> QED BY <2>1, <2>3, KernelStutter
<1>10. ASSUME TimerFires PROVE KernelInv' /\ ServerInv'
  <2>1. /\ Live \in SUBSET Conns /\ Lose(Live, "gone", "cut") /\ timer' = "fired"
        /\ UNCHANGED <<kernelVars, phase, tls, early>>
    BY <1>10 DEF TimerFires, Live
  <2>2. phase \in {"serving", "closing", "exited"} /\ phase # "serving"
    BY <1>10 DEF TimerFires, ServerInv
  <2>3. ServerInv'
    BY <2>1, <2>2, LoseKeeps
  <2> QED BY <2>1, <2>3, KernelStutter
<1>11. ASSUME Exit PROVE KernelInv' /\ ServerInv'
  <2>1. \A d \in Conns : InFlight(d)' = InFlight(d)
    BY <1>11 DEF Exit, InFlight
  <2>2. ServerInv'
    BY <1>11, <2>1 DEF Exit, ServerInv, NoCutOff
  <2> QED BY <1>11, <2>2, KernelStutter DEF Exit
<1>12. ASSUME UNCHANGED vars PROVE KernelInv' /\ ServerInv'
  BY <1>12, KernelStutter, ServerStutter DEF vars
<1> QED BY <1>1, <1>2, <1>3, <1>4, <1>5, <1>6, <1>7, <1>8, <1>9, <1>10, <1>11, <1>12 DEF Next

(***************************************************************************)
(* HttpKernel and the node adapter keep their invariant, for any requests  *)
(* on any connections.                                                     *)
(***************************************************************************)
THEOREM NodeServerInvariant == Spec => []IInv
<1>1. Init => IInv
  BY InitInv
<1>2. IInv /\ [Next]_vars => IInv'
  BY NextKeeps
<1> QED BY <1>1, <1>2, PTL DEF Spec

(***************************************************************************)
(* Types; the pool has at most PoolSize objects; there are no more objects *)
(* than requests that acquired one; and a socket counts exactly the        *)
(* requests that are in flight on it.                                      *)
(***************************************************************************)
THEOREM NodeServerTypes == Spec => []TypeOK
<1>1. IInv => TypeOK
  BY ActiveIsCardinality DEF IInv, KernelInv, ServerInv, TypeOK
<1> QED BY <1>1, NodeServerInvariant, PTL

(***************************************************************************)
(* A request that shares its route's runner with no other while one awaits *)
(* in a middleware is handled on its own data, behind every middleware of  *)
(* its route.                                                              *)
(***************************************************************************)
THEOREM RequestsKeptApart == Spec => []KeepsItsRequest
<1>1. IInv => KeepsItsRequest
  BY DEF IInv, KernelInv, ObjectsOwned, PipelineKept, KeepsItsRequest, OnItsOwn, Busy
<1> QED BY <1>1, NodeServerInvariant, PTL

(***************************************************************************)
(* bootLazyProvider() constructs a provider at most once.                  *)
(***************************************************************************)
THEOREM ProvidersBootOnce == Spec => []BootsOnce
<1>1. IInv => BootsOnce
  BY DEF IInv, KernelInv, BootsCounted, BootsOnce
<1> QED BY <1>1, NodeServerInvariant, PTL

(***************************************************************************)
(* Over plain HTTP the shutdown cuts off a request that had arrived only   *)
(* by its timer.                                                           *)
(***************************************************************************)
THEOREM DrainCutsNothingOff == Spec => []NoCutOff
<1>1. IInv => NoCutOff
  BY DEF IInv, ServerInv
<1> QED BY <1>1, NodeServerInvariant, PTL

=============================================================================
