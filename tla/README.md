# Formal verification of Pondoknusa

TLA+ models of the concurrent parts of the framework, the TLC instances that
check them, and TLAPS proofs for every value of their constants. Paths are
relative to the repository; `packages/queue/src` is written `queue/src`.
`PROJECT.json` holds the machine-readable side: components, runs, the mutant
that breaks each property, the source lines of each definition, hazards,
findings and theorems.

    tlc -workers 2 -config MCDatabaseQueue_chain.cfg MCDatabaseQueue
    tlapm DatabaseQueue_proofs.tla

1. [The system](#1-the-system)
2. [Models and code](#2-models-and-code)
3. [What is checked](#3-what-is-checked)
4. [What is proved](#4-what-is-proved)
5. [Findings](#5-findings)
6. [Assumptions and limits](#6-assumptions-and-limits)
7. [Plan](#7-plan)

## 1. The system

Pondoknusa is a TypeScript web framework of 47 packages. Most of them are
sequential: a request enters, objects are resolved, text or SQL comes out. What
is hard to test is what several processes, or several promises of one process,
do to state they share. Every `await` is a point where somebody else can act;
threads only compile views (`views/src/parallel-compile.ts`), without shared
state, and no component of the framework wraps its own statements in a database
transaction: `DB.transaction()` is offered to applications only. So the unit of atomicity everywhere below is one SQL statement, one
Redis command, one cache call, or one synchronous stretch of JavaScript.

### 1.1 Components with a protocol

| Component | State | Operations | Interacts with | Hard behaviour | Correct means |
|---|---|---|---|---|---|
| Worker loop (`queue/src/queue-processor.ts`, `queue-worker.ts`) | loop position, the popped record, `shouldQuit` | pop, handle, continue the chain, delete, record as failed, release; SIGTERM | a driver, `failed_jobs`, batches | kill between two statements; an error after the handler succeeded; a second worker on the same row | a job runs at least once or is recorded; attempts are counted; chains are ordered |
| Database queue (`database-queue.ts`, `chain.ts`) | table `jobs` | push, later, pop (SELECT, UPDATE), deleteJob, release (SELECT, UPDATE) | workers of several processes | read-then-write without a transaction | no job disappears |
| Failed jobs (`failed-job-repository.ts`, `cli/.../queue-failed.ts`) | table `failed_jobs` | record, find, retry (find, push, delete), forget | any driver | two operators on one record; an interrupted retry | a retry never loses the job |
| Redis queue (`redis-queue.ts`) | envelopes, ready list, delayed and reserved sets | the same, as sequences of commands | workers | ids in no list after a kill; stale envelopes written back | every id stays reachable |
| Batches (`batch.ts`) | one cache entry | create, push the jobs, report, cancel | worker, cache | read-modify-write by every worker; a job that runs again reports again | no lost update finishes it early; a cancel holds |
| Cache locks (`cache/src/cache-lock.ts`) | one cache entry | acquire, get, block, release | every store's `add` | expiry while held; release after an expiry; two-step `add` | mutual exclusion |
| `remember()` (`cache-repository.ts`) | the value, `pendingRemember` of each process | remember | lock and store | sharing a computation; failures in the middle | one computation, only stored answers, every call settles |
| Tag index (`cache-repository.ts`, `tagged-cache.ts`) | a list per tag | tag, untrack, flush | store | read-modify-write of the list | flush leaves nothing behind |
| Echo client (`echo/src`) | socket, socket id, subscribed and pending channels | connect, subscribe, unsubscribe, reconnect | the hub, the authorization endpoint | several sockets during a reconnect; replies for an old socket | the page's channels are the hub's |
| Broadcast hub (`broadcasting-websocket/src`) | clients, channels, presence members | upgrade, subscribe, leave, dispatch | Echo, Redis fan-out | presence kept in two tables; subscriber start that fails | members are the connected clients that hear the channel |
| Sessions (`auth/src/session-*.ts`) | one row or key per session | load at the start, write at the end | HTTP kernel | two requests of one session | no update is silently undone |
| Redis connections (`redis/src/redis-manager.ts`, `redis-node/src`) | clients, pending connections | connection, close | cache, queue, hub | a rejected connection stays pending | a later call can succeed |
| Migrator (`database/src/migrator.ts`) | the schema, table `migrations` | run, rollback | a connection | failure between `up()` and the record | each migration is recorded once |
| Transactions (`database/src/database-manager.ts`, the three drivers) | sessions in a transaction, clients taken from the pool | transaction, query | every query of the process | two async callers share one handle; nested calls; a lost `COMMIT` | all or nothing; a rollback undoes its own statements; calls end |
| HTTP kernel (`core/src/http-kernel.ts`, `http/src/route-pipeline.ts`, `request-pool.ts`, `application.ts`) | lazy providers booted, one runner per route, pooled request objects | handle | every request of the process | requests that await in a middleware of one route | a request sees its own data and all of its middleware |
| Node server (`core/src/adapters/node-server.ts`) | sockets, requests in flight | request, close | kernel, signals | drain against a timer | accepted requests are answered; the shutdown ends |
| Scheduler (`core/src/schedule.ts`, `cli/.../schedule-run.ts`) | registered tasks | the due tasks of a minute | commands, queue | a failing task; runs that overlap | every due task runs |
| Password resets, OAuth (`auth/src/password-reset-broker.ts`, `auth-oauth/src`) | tokens, codes | issue, use, rotate | database | concurrent use | single use |

### 1.2 Components without one

Container, configuration, routing, validation, views, SSR, locale, collection,
support, crypto, log, mail transports, storage disks, vector stores, GraphQL,
admin, MCP, REPL, scaffolding. They transform data, or send one remote request
per call, and keep no state that two actors change. `PROJECT.json` lists each
with its reason.

## 2. Models and code

    JobDelivery  <--implements--  DatabaseQueue --extends--> FailedJobs --extends--> QueueProcessor
         ^---------implements--   RedisQueue ----extends--------^
    JobBatch                      (above a queue: which jobs can be run, what they report)
    CacheRemember --extends--> CacheLock
    EchoClient    --extends--> BroadcastHub
    NodeServer    --extends--> HttpKernel
    Transactions                  (a database manager and its driver)

**QueueProcessor** is `QueueProcessor.run` with `QueueWorker.process` inside.
Every worker has a program counter `pc`; each of its values stands between two
awaits. The `try` block is `handling`, `chaining` (the continuer pushes the rest
of the chain), `deleting`; the `catch` block is `recording` and `burying`
(`failedJobs.record`, `deleteJob`) or `releasing` and `rewriting`. `StepFails`
is the consequence of one `try` around all of them: an error of the push or the
delete turns a success into a failed attempt. `Shutdown` is the signal handler,
read only at the head of the loop; `Crash` is a kill, or an error inside the
`catch` block, which leaves `run()`; `Restart` is the supervisor. History
variables (`accepted`, `done`, `fails`, `orphaned`) remember what happened and
guard nothing but the bounds and which jobs are still to be dispatched.

**FailedJobs** adds the table and the operators: `RetryFind`, the push, and
`RetryDelete` are separate steps of `queue:retry`.

**DatabaseQueue** adds the table `jobs`, as a function on keys, with `pop`
(`PopSelect`, `PopReserve`) and `release` (`ReleaseRead`, `ReleaseWrite`) split
at their await. Nothing but `release` clears `reserved_at`, as in the code.

**RedisQueue** has one action per Redis command: promotion (`zRangeByScore`,
then `zRem` and `lPush` per id), `rPop` or `brPop`, the `get` of the envelope,
the `set` with `reservedAt`, the `zAdd`; the three commands of `deleteJob` and
`release` are counted by `cmd`.

**JobDelivery** is the promise both drivers are held to: a job on record stays
there until it ran and its successor is on record, or an operator discards it;
a link enters only after the job before it ran; a job may run more than once.

**JobBatch** models the batch entry and, of the queue, only what reaches it.
`held` is the set of jobs with a record in the queue or in `failed_jobs`. `Take`
lets any worker run any such job at any time, also one that is being run or has
reported: two workers SELECT one row (`database-queue.ts:73-91`), an id is
promoted twice (`redis-queue.ts:149-151`), `queue:retry` brings a job back.
`Settle` is the rest of the loop: the job may be deleted after a success, released,
recorded, or keep another record. `Unregistered` is the run that fails
before `process()` and reports nothing. `Find` and `Put` are the halves of
`recordSuccessfulJob` and `recordFailedJob`; `ReportFails` is the `catch` block that
counts a job as failed whose success could not be written. `crew`, the workers
that are started, is chosen at the start, so that one run covers one worker and
two. The histories `runs`, `ran`, `reports` and `reported` count the handlers
that ended and the reports that were written, and the jobs they belong to.

**CacheLock** models one lock name: `Attempt` is the store's `add`, in one
command or as `has` then `put` (`AtomicAdd`), `ReleaseGet` and `Forget` are the
two halves of `release`, `Expire` is the time to live.

**CacheRemember** EXTENDS it: a lock client is a call of `remember()` that
computes. `Look`, `Share` and `Lead` are the code before the lock, `Recheck`,
`Compute` and `Store` the callback under it, `Answer`, `BlockRejects` and
`FallBack` what follows, `ClearPending` the `finally`, which runs some
microtasks after the computation settled and so may come after another call has
already shared it.

**BroadcastHub** is the hub's two tables and its handlers. A guarded channel is
entered only with a token made for the very socket (`for = s`). `LeavePresence`
returns early where the socket is no member, as the code does, and
`RemoveClient` leaves only the channels the client itself lists, so that the
agreement of the two tables is a result and not an assumption.

**EchoClient** EXTENDS it with one page: the connector and Echo's table of
channels. `Connect` makes one more socket whenever the current one is not open
and forgets the old one without closing it. `sid`, `subscribed` and `pending` are the
fields of the connector; `joined` is the `subscribed` flag of each `EchoChannel`.
Three loops subscribe: `FlushNext` in a task `flush` of every `connected` and a
task `all` of every reconnect, and `Resubscribe` with `SubscribeAgain` in a task
`channels` of every `connected`. A task stands still at its awaits. `Authorized`
is the one await that waits for an answer from outside, so it may be overtaken
by anything; the others only let the loops interleave among themselves, which is what
`Quiet` says.

**HttpKernel** is `handle()` between the awaits that wait for something. The
runner of a route is a record of the two fields all its requests share; `pool`
and `data` are the request objects, `own` is the object a request acquired and
`sees` the one its middleware was given. `mixed` records who shared a runner
while somebody was awaiting in it.

**NodeServer** EXTENDS it with sockets, the count per socket, the response and
the shutdown. `Close` is the synchronous part of `close()`, `TimerFires` its
timeout, `Exit` the resolution of `server.close()` and the end of the process in
`core/src/server.ts`. With TLS the sockets of the `connection` event are not
those that count requests, so every one of them looks idle to `close()`.

**Transactions** has one `pc` per call of `transaction()`; the driver (`kind`)
is chosen at the start, so one run covers the three. `Session` says where a
callback's statements go: to the one handle of SQLite, or to the client of the
call. A nested call is a call of its own, because `DatabaseManager.transaction`
asks the manager and not the context for the connection. The server is external:
`Put`, `Close`, `Refused` and `LoseClient` are what it may do.

## 3. What is checked

Each property of a passing run has a mutant: a plausible error in one mapped
definition under which TLC finds the property violated in the same
configuration. The mutated forms stand in the modules, above the definitions
they replace, marked `Mutant`.

| Run | Instance | States | Question |
|---|---|---|---|
| `dbq_chain` | chain of 2, 2 workers, 2 attempts, 4 keys, 1 stop | 635 k | Is a job lost, run out of order, buried early or left reserved when two workers pop the same row? Does the driver implement `JobDelivery`? |
| `dbq_operators` | chain of 2, 1 worker, 2 operators, 4 keys, 1 stop, 1 fault | 66 k | Are attempts exact with one worker? Does `queue:retry` ever delete the last record? |
| `dbq_live` | 1 job, 2 workers, 2 attempts, 4 keys, 2 stops, 1 fault, fair | 42 k | Does the queue drain? |
| `redis_pair` | 1 job, 2 workers, 1 operator, 3 ids, 1 stop | 1.5 M | Do interleaved commands strand a job? |
| `redis_sole` | chain of 2, 1 worker, 5 ids, 1 stop, 1 fault, fair | 12 k | With one worker: refinement of `JobDelivery`, draining, exact attempts |
| `redis_exhausted` | 1 job, 2 workers, fair | violation | Is an exhausted job always recorded? |
| `batch` | 3 jobs, 1 or 2 workers, 5 runs of handlers, kills, a canceller | 1.2 M | What can lost updates and repeated runs do to a batch? |
| `remember_shared` | 2 calls in one process, 1 in another | 1.3 M | Exclusion of the lock, overlap after an expiry, leaks; stampedes, unstored answers |
| `remember_process` | 2 calls of one process, 1 of another that may end, two-step `add`, no expiry, fair | 98 k | Do calls settle, also when the lock is left behind for ever or the shared computation fails? |
| `drain` | 3 requests on 2 connections, 2 routes, 1 lazy provider, a pool of 1 object, plain or TLS, fair | 515 k | Do requests keep their data and their middleware? Does a shutdown cut anybody off early, and does it end? |
| `echo` | 2 channels, 3 sockets, 1 broken connection | 221 k | Is the page heard once everything has settled? Do the hub's tables agree? |
| `transactions` | 2 tasks (1 nested), 1 writer, pool of 2, 2 writes, 3 drivers, fair | 154 k | Is a transaction all or nothing? Does every call end? |

**What the runs show.** On the database queue two workers can, and do, run the
same row at once, and the attempts column can lose updates; still no
interleaving loses a job, buries it before `maxAttempts` failures, or lets a
link of a chain overtake the job before it. The three orders that carry this
are: push the next link before deleting, record a failure before deleting, push
a retry before deleting the failed record. A row whose worker was killed stays
reserved for ever: `NoJobLost` counts it as on record, `ReservedIsHeld` says
that nothing but a kill causes it, and `Drains` excepts it by name. On Redis
the same holds for the ids in the lists, except that a kill between two
commands takes an id out of every list; `NoJobStranded` and `Drains` name
the ids (`orphaned`) that were in a worker's hands when it was killed, those it had only read
among them. A batch may stay unfinished for ever after a
lost report, and a report may undo a cancel. Reports count runs, not jobs, so a
batch can also finish before all its jobs have run: whenever a job runs twice, by
a retry, by two workers that popped one row, by an id promoted twice, by
`queue:retry`, or because `deleteJob` failed after the report. That needs no retries:
it happens with one attempt per worker too. `FinishedEarlyOnlyByRerun` says that this is the only
way: lost updates, rejected writes, kills, the cancel and a
`dispatch()` still under way never finish a batch early. Without its exception
TLC shows the early finish.

In the kernel, object pool and lazy providers are sound: a request that nobody
overlaps in a middleware keeps its data and passes every middleware
(`KeepsItsRequest`), and a provider is booted once. The premise is needed. When a
second request enters a route while a middleware of the first is awaiting before
`next()`, it overwrites the runner's `request` and `index`: the first goes on
with the second's object, and one of the two may skip middleware. Without the
exception for `mixed` TLC shows this with two requests and one such middleware;
`http/src/route-pipeline.test.ts:7` tests the runner with one request at a
time. `BootsOnce` holds because a provider is marked before its awaits, at a
price: a request that comes meanwhile is dispatched before the provider is
ready, and a boot that failed is not tried again. Draining holds over plain
HTTP; with TLS `close()` ends sockets with requests in flight. It gives a
request five seconds, while `docs/cookbook/observability.md:82` says that
"in-flight requests drain before the process exits".

The page hears every channel it keeps, through several sockets, breaks and the
three loops, with one exception: an authorization that is answered after the
current socket has changed. The hub refuses its token, the connector
marks the channel as subscribed all the same, and every later loop skips it.
`late` names these behaviours. That a page settles at all is not claimed: the
`close` of a superseded socket clears the id of the live one, and channels
subscribed after it wait for a `connected` that does not come.

A transaction is all or nothing over each driver. On SQLite a task's plain
statement may fall into another task's transaction and share its fate, which is
why `OthersKept` asks for rows written `alone`; a second `BEGIN` is refused, and
since it stands before the `try` no `ROLLBACK` follows that would undo the first
task's work. On PostgreSQL `transaction()` returns normally after a callback that swallowed
a database error, although nothing was kept (`aborted`); after a client lost at
`COMMIT` nobody knows (`doubt`). `TransactionsEnd` needs more clients than tasks
that nest: with a pool of one, or two nesting tasks and a pool of two, everyone
waits for a client for ever.

**Bounds.** `MaxId` bounds the keys ever handed out: four let a chain of two be
pushed, repeated once by a failure after the push, and recorded or retried; a
push beyond the bound is disabled, which only removes behaviours. `MaxAttempts`
2 distinguishes a retry from a burial, in both directions of an off-by-one.
`MaxStops` counts signals and kills together, `MaxFaults` rejected statements (none in
`dbq_chain` and `redis_pair`: with two workers these are the theorems' business);
one of each reaches every pair of statements a fault can separate, and two stops
let one worker be killed and the other stopped. Two workers are what every race
in the drivers needs, as each is between two processes on one row. Three batch
jobs let one be running, one reported and one unsent; `MaxRuns` 5 lets each of them
run once and two of them, or one of them twice, run again. Three lock clients let the
entry of a second be deleted by the first and taken by the third. In
`remember_process` (`MCNext`) nothing expires, which is the harder case for whoever
waits: a lock left behind is never free again. Only the process of the single call
ends, so that two calls survive to wait for its lock or share a computation,
and that call has no lock command rejected: its end leaves the lock just so. Three sockets
are the current one, a superseded one that is still open, and the one made after
a break; two channels are one of each kind that the code distinguishes, and
every pair of loops can meet on them. Two requests of one route and one of
another on two connections let a pooled object go from one route to the other, a
connection be idle, busy, or reused during the shutdown, and a lazy provider be
wanted twice. `PoolSize` 1 makes the pool empty, in use and full. `MaxWrites` 2 is the least with which a transaction can be kept
in part; a pool of two is full with one nested call.

**Symmetry** is used over workers, operators, batch jobs and the calls of one
process, only in runs without liveness properties.

**Fairness.** Workers are weakly fair per process (`WF` of `WorkerStep`): the
loop `while (!shouldQuit)` goes on, a poll that finds nothing sleeps and polls
again, and an await returns. `BecomesDue` is weakly fair: time passes. Stops,
kills, restarts, faults and operators have no fairness, and `Drains` presupposes a
worker that stays up. In the cache models each call is weakly fair and `GiveUp`
strongly fair, because the loop of `block()` alternates between trying and
sleeping while the deadline approaches: `Date.now() < deadline` is false from
some time on. `Expire` has none, so nothing depends on a time to live. In
`NodeServer` only `TimerFires` and `Exit` are fair: timers fire, and
`server.close()` calls back when the last socket is gone. Handlers that never
return and clients that never leave are allowed. In `Transactions` the steps of
a call are weakly fair, `CallbackEnds` among them: a callback that never ends
keeps its client, and no driver limits it.

**Deadlock** is not checked (`CHECK_DEADLOCK FALSE`): the instances really stop,
when keys, stops and faults are used up and workers have stopped, or when every
one-shot call has ended. That nothing waits for ever before that is what
`Drains`, `CallsSettle`, `ShutdownEnds` and `TransactionsEnd` say.

## 4. What is proved

For all values of the constants, under the assumptions the modules name
(`JobsAssumption`, `BoundsAssumption`, `PushersAssumption`, `BatchAssumption`,
`LockAssumption`, `RememberAssumption`, `HubAssumption`, `EchoAssumption`,
`NoneAssumption`, `KernelAssumption`, `ServerAssumption`, `TransactionsAssumption`;
`ChainsAssumption` where order matters). A theorem of a component is in its
module `_proofs`; those of `CacheLock` are in `CacheRemember_proofs`.

| Theorem | States | Argument |
|---|---|---|
| `TypeCorrect` (`DatabaseQueue_proofs`) | `[]TypeOK` | with `HandsOK`: inside the `try` a worker holds a key and a job |
| `NoJobIsLost`, `DeletersAreSecured` | `[]NoJobLost`, `[]DeletersSecured` | invariant `Safe` |
| `RecordedAfterEnoughFailures` | `[]RecordedAfterMaxAttempts` | invariant `Charged`, for any workers |
| `ReservationsAreHeld` | `[]ReservedIsHeld` | invariant `HeldRows` |
| `SoleWorkerBounded` | `[]AttemptsBounded`, for one worker | invariant `Exact`, with `Safe` |
| `ChainsAreOrdered`, `Implements` (`DatabaseQueueRefinement_proofs`) | `[]ChainOrder`, `Spec => Delivers` | invariant `Ordered`, then each action is one step of `JobDelivery` or a stutter |
| `RedisTyped` (`RedisQueue_proofs`) | `[]TypeOK` | invariant `Keyed` |
| `NothingIsStranded` | `[]NoJobStranded` | invariant `Safe` |
| `RedisRecordsExhausted` | `[]RecordedAfterMaxAttempts` | invariant `Charged` |
| `RedisSoleWorkerBounded` | `[]AttemptsBounded`, for one worker | invariant `Exact`, with `Keyed` |
| `RedisChainsAreOrdered`, `RedisImplements` | `[]ChainOrder`, `Spec => Delivers` | invariant `Ordered`, then each command is one step of `JobDelivery` or a stutter |
| `BatchTyped` (`JobBatch_proofs`) | `[]TypeOK` | invariant `Sound` |
| `PendingIsNeverTooLow` | `[]PendingNeverTooLow` | inductive with `Sound` |
| `CancelIsFinal` | `CancelFreezes`, an action property | invariant `Uncancelled` |
| `EarlyFinishNeedsRerun` | `[]FinishedEarlyOnlyByRerun` | invariant `Accounted` |
| `SuccessHasFinished` | `[]SuccessFinishes` | invariant `EntryExact` |
| `LockIsExclusive`, `OverlapIsBounded`, `LeaksAreFaults` (`CacheRemember_proofs`) | for a one-command `add` | invariant `Locked` |
| `RememberTyped` | `[]TypeOK` | invariant `Shared` |
| `RememberExcludes` | the three of `CacheLock` again, for calls of `remember()` | cited from `CacheLock` by lemma `RememberLocks`, without a new induction |
| `OneComputation` | `[]SoleComputation` | invariant `Shared`, for any store |
| `NoStampede`, `AnswersComeFromStore` | `[]StoredOnce`, `[]AnswersAreStored` | invariants `Once`, `Faithful` |
| `EchoTypes`, `EchoPresence` (`EchoClient_proofs`) | `[]TypeOK`, `[]PresenceAgrees` | invariant `Inv`, with `HubInv` |
| `SettledPageHears` | `[]HeardWhenSettled` | invariant `Heard` |
| `NodeServerTypes`, `RequestsKeptApart`, `ProvidersBootOnce` (`NodeServer_proofs`) | `[]TypeOK`, `[]KeepsItsRequest`, `[]BootsOnce` | invariant `KernelInv` |
| `DrainCutsNothingOff` | `[]NoCutOff` | invariant `ServerInv` |
| `TransactionsTypes`, `TransactionsAreAtomic` (`Transactions_proofs`) | `[]TypeOK`, `[]AllOrNothing` | invariant `IInv`, with `Kept(c)` of each call |

**The queue.** `NoJobLost` is not inductive: a worker may delete a row by a key
it read long ago. `Safe` adds that keys in use are below the counter
(`RecordsFresh`), that a key in hand still names the job it was read with or
nothing (`WorkerKeys`, `OperatorKeys`), and `DeletersSecured`: whoever is about to delete
has settled the job, or there is another record of it *with a later key*. The
order on keys is the point of the argument. With "another record exists" alone
two workers that popped one row could each rely on the record the other is
about to delete; since a record is only ever given up for a later one, the
record with the greatest key is relied on by nobody who would delete it. The
lemmas `BystandingWorker` and `BystandingOperator` show what a step of one actor
leaves the others; one lemma per group of actions then handles the actor itself.

**Attempts.** The attempts column is written from a copy, by several workers at
once, so nothing simple relates it to the runs. What holds is that every count
is paid for (`Paid`): the column, and every copy a worker may still compute
with, *plus the number of releases under way*, is at most the number of failed
runs. A failed run raises both sides by one as its worker becomes a releaser;
the `UPDATE` of `release` moves one from the second term to the first; a stale
write only lowers the left side. An exhausted copy therefore has `MaxAttempts`
runs behind it. The converse, that an exhausted job is recorded in time, is
false with two workers and is proved for one (`SoleWorkerBounded`): then
nobody writes the row between the worker's read and its `UPDATE`, a row in hand stays
reserved, and column, copy and runs agree (`RowsExact`, `CopyExact`).

**Reservations.** A worker lets go of a reserved row by deleting it, by clearing
`reserved_at`, or because the row is gone; `ReservedRows`, that nothing is
reserved where no row is, makes the three cases complete.

**Redis.** Here a push is two commands, and between `SET` and `LPUSH` the
envelope is in the database while nobody can find it. `Hidden` says that such a
key is in nobody's hands but its pusher's, which is why the id the pusher lists
later still names the job (`StoredJobs`, `StoredLink`, `StoredRetry`), and
`OneName` that all who know a key agree on its job. Both follow from one frame
(`KeyFrame`) that each command keeps: a key becomes visible only by the last
command of its push, and gets a name only when it is drawn. `Safe` is then the
argument of the database queue with *kept* in place of *holds a row*: an
envelope counts only while its key is listed, in hand, or lost by a kill. A
worker that deletes an id, or takes it out of the delayed set, may take it from
another one that has put it back; it may do so because the job is settled or
kept under a later key. `Charged` counts as above, with the releases between
their `GET` and their `SET`. For `RedisImplements` a job is on record from the
`SET` on; `Entered` adds that whatever is visible, in hand or recorded has been
accepted, so that running, recording and storing it again are steps of the
promise. Promotion, `LPUSH` and `ZADD` are stutters: they move a key.

That a single worker never runs a key more than `MaxAttempts` times
(`RedisSoleWorkerBounded`) is the one place where the *list* matters, and not only the
set of its elements: `ListedOnce` says that a key is in it once, or in the
delayed set, or in hand, which two workers that promote together break. So
nothing loads the envelope that is in hand, and its count is never behind the
runs: `WaitingExact` for the envelopes that wait, `CopyExact` for the one in
hand, on each side of the `SET` of `release()`.

**Batches.** `Sound` says, besides the types, that only workers of the crew run
anything and that the entry exists once something ran. Because an entry is
written back whole, each property must hold of the copies as well as of the entry:
`Uncancelled` says that nobody but `cancel()` is about to write a cancel.
`Accounted` counts for as long as every handler ended once (`OnceEach`). Then a report
about to be written is the first of its job, and no two workers have the same one to
write (`FirstReports`); hence there are no more reports than jobs that reported, and
when the pending count reaches 0, which by `PendingIsNeverTooLow` takes as many reports
as jobs, all of them have. Once a handler has ended twice the count says nothing
any more, and the property claims nothing. `EntryExact` says that the entry counts the
reports exactly; it needs a single worker and no cancel (`Alone`), since then nothing comes
between the read and the write of a report: a kill or a rejected write leaves the
entry as it was, and the report unwritten.

**The lock.** A *stray* is a client that acts as the owner although the entry is
not its own. An expiry makes at most one stray; a stray that forgets another
client's entry turns that client into a stray and stops being one. So there are never more strays
than expiries (`Counted`), and all insiders but one are strays.

**Remember.** A call that computes is the one in its process's `pendingRemember`
(`LeaderPending`), and only such a call drives the lock (`LockOfLeader`): this
gives `OneComputation` without using the lock at all. `Once` then uses the exclusion proved for `CacheLock`, through
`RememberLocks`, and the look under the lock: nobody computes after a value is
stored, unless something has expired. `Faithful` records that a value in hand
was stored by the time its call can answer.

**Echo and the hub.** `PresenceAgrees` relates two tables, and `leavePresence`
consults one of them before it changes both: it would leave a ghost in the other
if they could differ. `HubInv` therefore adds that a socket outside the table of
clients is present nowhere and that a client is subscribed to every presence
channel it lists. One lemma per handler of the hub shows that it keeps `HubInv`;
the page's steps then only have to be shown to reach the hub through these
handlers. `EchoTypes` says more than types: `sid` is always a socket that is
open and has been greeted, which is what `close` restores.

`HeardWhenSettled` speaks of a moment at which nothing is under way, so its
invariant has to say what is owed to a channel until then. `Settling` is the time
from the `connected` of the current socket on, as long as no answer is awaited
that was asked for another socket (such an answer will be `late`). It begins with every task
idle, and from then on each channel is in `subscribed` or some task has it
ahead (`Known`), whichever loop that is. That alone would not do: `subscribed`
may hold channels that an earlier socket announced, or none did, and
`subscribe()` skips those. `Announced` says that such a channel is still
ahead of the loop over Echo's table *and* its `EchoChannel` is subscribed,
so that `resubscribe()` will unsubscribe it first; this rests on `Joining`, that every
kept channel is subscribed or being subscribed by Echo itself, and on `OwnLoop`,
that no loop of an earlier socket is left.

**The kernel.** A request keeps its data when two things hold: its object is
nobody else's, and its route's runner still holds that object. `ObjectsOwned`
gives the first: each running request owns an object initialized with it, none
of these is in the pool, and the pool holds no object twice, which is why a
release cannot hand one object to two requests. `PipelineKept` gives the second,
for requests outside `mixed` only: whoever awaits in a middleware is alone
there, and the runner's index is the number of middleware it has passed.

**Draining.** `ServerInv` says that a socket has at most one request in flight
and that `active` is 1 exactly then. So what `close()` ends at once over plain
HTTP carries no request, and the rest is cut by the timer. `LoseKeeps` is the
one lemma for every way in which sockets go.

**Transactions.** `Kept` says where the rows of a callback are: in the session of
its own call and no other, only while that call is in its transaction, and
afterwards in the table all or not at all. With a pool, sessions are distinct by
construction; on the handle of SQLite this needs `Alone`, that no two calls are in
a transaction, which rests on the refused `BEGIN` *and* on its place before the `try`.
`GotoKeeps` and `CloseKeeps` treat the steps that write nothing and the ends of a
transaction; the other steps have a lemma each.

**Only model-checked.** Every liveness property (`Drains`, `CallsSettle`,
`SettledLeave`, `ShutdownEnds`, `TransactionsEnd`), as `WF` and `SF` rest on `ENABLED`, which the
prover does not handle. `ExhaustedIsRecorded` is false (section 5). Every other
property of the runs is the subject of a theorem.

## 5. Findings

*An exhausted job may never be recorded on Redis* (run `redis_exhausted`).
`pop()` loads the envelope and later writes it back whole
(`redis-queue.ts:80-82`). Two workers can hold the same id, since
`promoteDelayed` ignores the result of `zRem`; the second then restores the
attempts the first has just incremented, and this can repeat for ever.
`README.md:557` says that jobs that exhaust retries are written to `failed_jobs`.

*The array store's lock is not exclusive* (`CacheLock` with `AtomicAdd = FALSE`; no run). Its `add()` awaits
`has()` and then puts (`array-store.ts:29-35`): two `acquire()` calls of one tick
both succeed. The file and DynamoDB stores do the same across processes. Inside
one process `remember()` is not affected, as `pendingRemember` is looked up and
set without an await (`OneComputation`, for every store; `remember_process` runs calls
over such a store).

## 6. Assumptions and limits

- A statement the database rejects has not been applied, and a Redis command
  likewise. In `CacheLock` an `add()` that rejects may have been applied.
- A `failedJobs` repository is configured; without one the
  `catch` block drops an exhausted job by design.
- Keys of `jobs` are not reused (`AUTOINCREMENT`). One counter numbers `jobs`
  and `failed_jobs`; only the order inside each table is observable.
- Time is what a comparison sees: a row is due or not, an entry is there or
  expired, a deadline comes. Durations, backoff and `retryAfter` values are not
  modelled.
- `INCR` and `SET` of a Redis push are one step, as nobody knows the id before
  it is listed.
- A payload is the job it decodes to. A payload that does not decode behaves as
  a handler that throws.
- `maxJobs` ends the loop as a signal does and is folded into `Shutdown` and `Exit`.
- `JobBatch` keeps of the queue which jobs have a record, and lets a job with one be
  popped by anybody at any time: more than the drivers do. A rejected put of the entry
  has not been applied. It assumes a worker built with a `batchRepository`; the one
  `QueueServiceProvider` builds has none, and then batches are never updated.
  Its cache entry is a copy per read, which excludes the array store.
- Callbacks of `remember()` return something other than null; `block()` is given
  a positive number of seconds.
- One lock name, one cached key, one batch: the code keeps no state across them.
- `EchoClient`: a channel is listened to once and left at most once; `disconnect()`
  is not called; the authorization endpoint answers and does not refuse; the hub
  acts on a message before the page does anything else, as the page reads
  none of its answers but `connected`. A socket ends by `close`: after an `error` the hub's
  close handler is not called (`ws-framing.ts:77-86`) and the client stays in both tables,
  which is not modelled. Three sockets cut short a reconnect that resubscribes both channels;
  `SettledPageHears` is about any number. That `listen()` and each resubscription bind
  the same listener again (`echo/src/channel.ts:39`) is not visible: `bound` is a set.
- `HttpKernel`: middleware that does not await before `next()` runs in one step
  with what follows; whether a path has a route is left open.
- `NodeServer`: an error before the kernel is called and one while the body is sent
  (`node-server.ts:47`, `55-59`) are one case; one request at a time on a connection, no HTTP/2, no upgrade to
  a WebSocket during the shutdown.
- `Transactions`: statements of one callback are not concurrent; a row is
  written by one statement; isolation between sessions is the server's, and so is a rollback it decides on by itself
  (a MySQL deadlock, an SQLite error that ends the transaction) under a callback that
  swallows the error: only PostgreSQL's aborted state is modelled. Statements that a callback sends over
  `DB.connection()` are those of a writer.

Not modelled, with reasons, is everything `PROJECT.json` marks `not_modelled`:
parts that are planned below, parts without a protocol (1.2), and pure I/O.

## 7. Plan

Done: the queue, its drivers and commands, batches, locks and `remember()`; the
page and the hub; the kernel and the node server; transactions; with the proofs
of section 4. Next, most important behaviour first:

| Next | Module | Models | Abstract specification and composition | Properties, run, bounds |
|---|---|---|---|---|
| 1 | `TagIndex` | tag tracking and `flush()` | a set of keys per tag | a flushed tag leaves no key tagged before the flush, unless calls overlapped; 2 callers, 2 keys |
| 2 | `SessionStore` | load, change, write at the end of a request | one register per session; above `HttpKernel` | what one request wrote is not undone by a request that changed nothing; 2 requests |
| 3 | `Migrator` | run with a crash, two processes | | nothing is recorded that did not run; 2 migrations |
| 4 | `RedisConnection`, `TokenUse` | pending connections; reset tokens | a token used once | 2 requests |
| 5 | `ScheduleRun` | due tasks of a minute | above `JobDelivery` | every due task runs or an earlier one failed |
| 6 | `EchoClient` | `disconnect()`, channels listened to again, refused authorizations | | as now |

Each of these comes with its type invariant and its property as theorems.

A hazard in `PROJECT.json` without a property says in its note why.
