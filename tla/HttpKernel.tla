----------------------------- MODULE HttpKernel -----------------------------
(***************************************************************************)
(* HttpKernel.handle() for the concurrent requests of one process: boot    *)
(* the lazy providers of the path, resolve the route's bindings, take a    *)
(* request object from the pool, run the route's pipeline, give the object *)
(* back.                                                                   *)
(*                                                                         *)
(* A step is what runs between two awaits that wait for something. All     *)
(* requests of a route share its RoutePipelineRunner, with one `request`   *)
(* and one `index`. Of the middleware only those count that await before   *)
(* they call next(): the others run in the same step as what follows them. *)
(* Pooling is on, as in production.                                        *)
(***************************************************************************)
EXTENDS Naturals, FiniteSets, Sequences

CONSTANTS
    Requests,
    Routes,
    routeOf,     \* [Requests -> Routes]
    Awaiting,    \* [Routes -> Nat]: middleware that await before next()
    Bound,       \* routes with parameters that a binding resolves
    PoolSize,    \* how many objects the pool keeps
    Lazy,        \* number of lazy providers, in order of registration
    needs        \* [Requests -> SUBSET (1 .. Lazy)]: those of the path

ASSUME KernelAssumption ==
    /\ IsFiniteSet(Requests) /\ Requests \cap Nat = {}
    /\ routeOf \in [Requests -> Routes]
    /\ Awaiting \in [Routes -> Nat]
    /\ Bound \subseteq Routes
    /\ PoolSize \in Nat \ {0}
    /\ Lazy \in Nat
    /\ needs \in [Requests -> SUBSET (1 .. Lazy)]

VARIABLES
    at,       \* where each request is in handle()
    waits,    \* the provider whose register() and boot() a request awaits, or 0
    booted,   \* bootedLazyProviders
    boots,    \* history: how often each provider was constructed
    pool,     \* PondoknusaRequestPool.pool
    data,     \* the objects made so far: the request each was initialized with
    own,      \* the object a request acquired, or 0
    runner,   \* [Routes -> the runner's request and index]
    sees,     \* the object given to the middleware or handler a request is in
    passed,   \* history: the middleware a request has been through
    mixed     \* history: requests that shared a runner while one was awaiting

kernelVars == <<at, waits, booted, boots, pool, data, own, runner, sees, passed, mixed>>

Waiting == {"new", "booting", "binding"}
Running == {"middleware", "handling", "stopped"}

KernelInit ==
    /\ at = [r \in Requests |-> "new"]
    /\ waits = [r \in Requests |-> 0]
    /\ booted = {}
    /\ boots = [p \in 1 .. Lazy |-> 0]
    /\ pool = <<>> /\ data = <<>>
    /\ own = [r \in Requests |-> 0]
    /\ runner = [t \in Routes |-> [request |-> 0, index |-> 0]]
    /\ sees = [r \in Requests |-> 0]
    /\ passed = [r \in Requests |-> 0]
    /\ mixed = {}

KernelTypeOK ==
    /\ at \in [Requests -> Waiting \cup Running \cup {"done"}]
    /\ waits \in [Requests -> 0 .. Lazy]
    /\ booted \subseteq 1 .. Lazy
    /\ boots \in [1 .. Lazy -> Nat]
    /\ pool \in Seq(1 .. Len(data)) /\ Len(pool) <= PoolSize
    /\ data \in Seq(Requests)
    /\ Len(data) <= Cardinality({r \in Requests : own[r] # 0})
    /\ own \in [Requests -> 0 .. Len(data)]
    /\ runner \in [Routes -> [request : 0 .. Len(data), index : Nat]]
    /\ \A t \in Routes : runner[t].index <= Awaiting[t]
    /\ sees \in [Requests -> 0 .. Len(data)]
    /\ passed \in [Requests -> Nat]
    /\ mixed \subseteq Requests

----------------------------------------------------------------------------
(* The pipeline *)

\* advance(): the next middleware that awaits, or the handler, with the
\* runner's request; or one on the way answers itself and calls no next().
Advance(r, request, index) ==
    LET Reach(label, middleware) ==
            /\ at' = [at EXCEPT ![r] = label]
            /\ passed' = [passed EXCEPT ![r] = @ + middleware]
            /\ runner' = [runner EXCEPT ![routeOf[r]] =
                            [request |-> request, index |-> index + middleware]] IN
    /\ sees' = [sees EXCEPT ![r] = request]
    /\ \/ index < Awaiting[routeOf[r]] /\ Reach("middleware", 1)
       \/ index = Awaiting[routeOf[r]] /\ Reach("handling", 0)
       \/ Reach("stopped", 0)

\* Requests that are in a middleware of the route of r.
Inside(r) == {q \in Requests : at[q] = "middleware" /\ routeOf[q] = routeOf[r]}

\* Mutant: run() keeps the index.
RunOn(r, object) ==
    /\ Advance(r, object, runner[routeOf[r]].index)
    /\ mixed' = IF Inside(r) = {} THEN mixed ELSE mixed \cup Inside(r) \cup {r}

\* run(): the runner takes the request and starts over.
Run(r, object) ==
    /\ Advance(r, object, 0)
    /\ mixed' = IF Inside(r) = {} THEN mixed ELSE mixed \cup Inside(r) \cup {r}

\* dispatchRoute() after its bindings: acquire(), then run().
Acquire(r) ==
    LET fresh == pool = <<>>
        object == IF fresh THEN Len(data) + 1 ELSE pool[Len(pool)] IN
    /\ pool' = IF fresh THEN pool ELSE SubSeq(pool, 1, Len(pool) - 1)
    /\ data' = IF fresh THEN Append(data, r) ELSE [data EXCEPT ![object] = r]
    /\ own' = [own EXCEPT ![r] = object]
    /\ Run(r, object)

\* A middleware calls next().
CallsNext(r) ==
    /\ at[r] = "middleware"
    /\ Advance(r, runner[routeOf[r]].request, runner[routeOf[r]].index)
    /\ UNCHANGED <<waits, booted, boots, pool, data, own, mixed>>

\* The pipeline settles: the handler or a middleware returned a response or
\* threw. The finally block releases the object, which a full pool drops.
Settle(r) ==
    /\ at[r] \in Running
    /\ at' = [at EXCEPT ![r] = "done"]
    /\ pool' = IF Len(pool) < PoolSize THEN Append(pool, own[r]) ELSE pool
    /\ UNCHANGED <<waits, booted, boots, data, own, runner, sees, passed, mixed>>

----------------------------------------------------------------------------
(* Before the pipeline *)

\* Mutant: the provider is not marked before the awaits.
NextProviderLate(r, p) ==
    /\ waits' = [waits EXCEPT ![r] = p]
    /\ boots' = [boots EXCEPT ![p] = @ + 1]
    /\ at' = [at EXCEPT ![r] = "booting"]
    /\ UNCHANGED <<booted, pool, data, own, runner, sees, passed, mixed>>

\* bootLazyProvider(): mark, construct, await register() and boot().
NextProvider(r, p) ==
    /\ waits' = [waits EXCEPT ![r] = p]
    /\ boots' = [boots EXCEPT ![p] = @ + 1]
    /\ booted' = booted \cup {p}
    /\ at' = [at EXCEPT ![r] = "booting"]
    /\ UNCHANGED <<pool, data, own, runner, sees, passed, mixed>>

\* dispatch(): the route, or an answer that there is none for the path or the
\* method.
Dispatch(r) ==
    \/ /\ routeOf[r] \in Bound
       /\ at' = [at EXCEPT ![r] = "binding"]
       /\ UNCHANGED <<pool, data, own, runner, sees, passed, mixed>>
    \/ routeOf[r] \notin Bound /\ Acquire(r)
    \/ /\ at' = [at EXCEPT ![r] = "done"]
       /\ UNCHANGED <<pool, data, own, runner, sees, passed, mixed>>

\* The loop over the lazy providers from where r is in it, and, when it has
\* passed the last one, dispatch() up to its next await.
Proceed(r) ==
    LET wanted == {p \in needs[r] \ booted : p > waits[r]} IN
    \/ \E p \in wanted : (\A q \in wanted : p <= q) /\ NextProvider(r, p)
    \/ /\ wanted = {}
       /\ waits' = [waits EXCEPT ![r] = 0]
       /\ Dispatch(r)
       /\ UNCHANGED <<booted, boots>>

Handle(r) == at[r] = "new" /\ Proceed(r)

ProviderBooted(r) == at[r] = "booting" /\ Proceed(r)

BindingsResolved(r) ==
    /\ at[r] = "binding"
    /\ Acquire(r)
    /\ UNCHANGED <<waits, booted, boots>>

\* register() or boot() throws, or no record matches: the exception handler
\* renders a response. The provider stays marked.
Rejects(r) ==
    /\ at[r] \in {"booting", "binding"}
    /\ at' = [at EXCEPT ![r] = "done"]
    /\ UNCHANGED <<waits, booted, boots, pool, data, own, runner, sees, passed, mixed>>

Work(r) ==
    ProviderBooted(r) \/ BindingsResolved(r) \/ CallsNext(r) \/ Settle(r) \/ Rejects(r)

----------------------------------------------------------------------------
(***************************************************************************)
(* A request whose pipeline nobody entered while it awaited in a           *)
(* middleware works on its own data, and reaches its handler behind every  *)
(* middleware of its route, although objects and runners are used again.   *)
(***************************************************************************)
OnItsOwn(r) ==
    /\ at[r] \in Running => data[sees[r]] = r
    /\ at[r] = "handling" => passed[r] = Awaiting[routeOf[r]]

KeepsItsRequest == \A r \in Requests \ mixed : OnItsOwn(r)

(***************************************************************************)
(* A lazy provider is registered and booted at most once, also when more   *)
(* requests that need it arrive before it is ready.                        *)
(***************************************************************************)
BootsOnce == \A p \in 1 .. Lazy : boots[p] <= 1

=============================================================================
