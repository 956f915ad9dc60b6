# Verification of the pet-study service

TLA+ models of this repository: the asynchronous job pipeline, the event hub
behind the SSE endpoint, the gRPC runtime, the supervisor that starts and
stops them, the way of an HTTP request through the middleware, and the program
around them with its configuration and telemetry. TLC checks the models on
small instances; TLAPS proves every safety property that holds for every value
of the constants. `PROJECT.json` maps each definition to the lines it
models and lists the hazards the properties are aimed at.

## The system

The service is one Go process (`cmd/api/main.go`).

| Part | Source | What it does |
|---|---|---|
| supervisor | `internal/api/server.go` | opens listeners, starts pool and gRPC, waits for a signal or a failure, shuts everything down under one deadline |
| create handlers | `internal/routes/users_handler*.go` | `POST /users`, synchronous or, with `?async=1`, through a job |
| queue | `internal/queue` | bounded channel, admission flag, `StopAccepting` barrier |
| worker pool | `internal/workerpool` | generations of workers, `Start`, `Stop`, repair of active jobs |
| job service and store | `internal/service/jobService.go`, `internal/store/jobrepo`, `internal/entity/job.go` | status table, compare-and-set transitions, memory or PostgreSQL |
| user service and store | `internal/service/service.go`, `internal/store/userrepo` | unique e-mails |
| event hub, SSE | `internal/stream`, `internal/routes/job_handler.go` | per-job history, bounded subscriber buffers, `GET /jobs/{id}/events` |
| gRPC runtime | `internal/transport/grpcserver` | `Start`, `Serve`, `Shutdown` with forced stop |
| health | `internal/health` | `/livez`, `/readyz` with component checks |
| profile client | `internal/outbound`, `internal/service/user_profile_service.go` | outbound HTTP with retries and backoff |
| middleware | `internal/middleware`, `internal/security`, `internal/interceptors` | bulkhead, rate limit, JWT, RBAC, proxies, CORS, headers |
| HTTP support | `internal/httputils`, `internal/httpapi`, `internal/router` | errors, parsing, representation, routes |
| telemetry, config, db | `internal/telemetry`, `internal/config`, `internal/db` | exporters, environment, connection |

How they interact: a handler saves a `queued` job, publishes the event, and
offers an item to the queue; if the queue refuses, it deletes the job. A
worker takes the item, moves the job to `running`, creates the user, and
moves the job to `succeeded` or `failed`; each change is published to the hub,
which SSE handlers drain. Every `/api` request first passes CORS, the router,
the bulkhead, the rate limiter, authentication and RBAC. On shutdown the supervisor withdraws readiness,
stops admission, drains HTTP, stops gRPC, stops the pool (which fails every
job still active) and closes the hub.

## Modules

| Module | Models |
|---|---|
| `JobTransitions` | statuses, intents, the transition table (`entity/job.go`) |
| `JobLifecycle` | abstract specification of the job store: what a client of the jobs API may rely on |
| `AsyncJobs` | handler, queue, pool, job service, both kinds of repository, user store, event log, counters; composes these parts |
| `StreamHub` | `Hub` and the loop of the SSE handler |
| `GrpcRuntime` | the runtime's state machine over an abstract `grpc.Server` |
| `Supervisor` | `APIServer.Run` and `cleanup` over abstract components |
| `Access` | token verification, policy table, RBAC, ownership, CORS: operators |
| `ProblemMap` | `MapError` with the order of its tests, the bridge's errors, `Accept` |
| `RequestPath` | middleware chain and handlers; composes `Access` and `ProblemMap` |
| `Config` | `config.Load`: every variable, its default and its checks |
| `Telemetry` | `telemetry.Runtime`: fail-open start, shutdown, the error handler |
| `Process` | `main` and `run`: construction, failures, deferred calls; composes `Config` and `Telemetry` |
| `MC*` | instances for TLC: the payload and routing functions, tokens, environments, symmetry |
| `AsyncJobsInvariant`, `AsyncJobsOutcomes`, `AsyncJobsEvents` | proofs about `AsyncJobs`: the inductive invariant; how jobs end; what is announced, and what `Stop` tells the supervisor |
| `StreamHubProofs` | proofs about `StreamHub` |
| `SupervisorProofs` | proofs about `GrpcRuntime` and `Supervisor` |
| `RequestPathHandlers`, `RequestPathProofs` | proofs about `RequestPath` |
| `ProcessProofs` | proofs about `Config`, `Telemetry` and `Process` |

Definitions with the comment "Variant with a bug" are not used by any specification. Each is a plausible
mistake in the definition that follows it; putting it in that definition's
place must break the property it is listed with in `PROJECT.json`.

### AsyncJobs

A request and the job it creates are one identity, because the store gives
each saved job a fresh id. The payload is the e-mail, the one field requests
compete for; `Emails` stands for classes under the store's equality.

* **Handler** (`hpc`): `SaveJob`, `PublishQueuedJob`, `BeginEnqueue` (takes
  the read lock, checks context and flag), `Enqueue` (the channel send or its
  refusal), `DeleteJobAfterFailedEnqueue`. A handler between `BeginEnqueue`
  and `Enqueue` holds the read lock, and `StopAccepting` needs the write lock.
* **Worker** (`wpc`, one process per generation and slot): `ReceiveItem`,
  `CheckContext`, then service calls. Each call is `ServiceCheck` (read and
  check) followed by the repository's compare-and-set, so that anything may
  happen in between. `ExistsByEmail` and `SaveUser` are separate for the same
  reason. The publication and the count of an outcome are one step.
* **Pool**: `Start` settles a finished generation and makes a new one. `Stop`
  is one step per lock region or channel operation: capture, cancel, two
  selects, the once-per-generation repair, settle. `sexpired` is the deadline
  of the caller's context; the supervisor's context ends in no other way.
* **Stores**: `Durable` selects the SQL repositories. Then a statement may
  fail, may commit and lose its answer, and is refused on a dead context. A
  `Crash` loses the memory of the process and keeps the rows. With `SharedDB`
  another instance runs its shutdown repair at any time.
* **Environment**: signals, cancelled requests, synchronous requests for the
  same e-mail, and deletions (`UserService.Delete`, which no route calls yet).
  `Supervised` restricts `Start` and `Stop` to the order `APIServer.Run` uses;
  otherwise they are called in any order, which is the pool's contract.

### StreamHub

`Subscribe` holds the mutex from registration to the end of the replay, one
event per step, so a full channel would block it there. `Publish` is one
critical section. `Close` raises the flag first and takes the mutex later: two
steps. The handler takes events, ends when its channel is closed, or leaves
because the client is gone, a write fails or its deadline passes. Events are
numbers in order of publication; `received` is what reached the client.

### GrpcRuntime

`state`, `done`, `err` and the two `sync.Once` are as in `runtime.go`. Of
`grpc.Server` the model keeps what the runtime relies on: `Serve` returns on
failure or after a stop, `GracefulStop` waits for calls in flight, `Stop` cuts
them. Any number of callers may be in `Shutdown`, each with its own deadline.

### Supervisor

One step per component that `Run` and `cleanup` touch. The components are
reduced to what their own models establish: the pool stops, fails or times out
(`AsyncJobs`), `Shutdown` of gRPC returns and is forced past the deadline
(`GrpcRuntime`), the hub is closed (`StreamHub`). That they do is proved of
those models (see "The components as Run sees them"). Requests hold a connection
of their server; a stream ends only when its client leaves, which is what
`Events` does while the hub is open.

### RequestPath

A connection serves one request at a time; `rq[r]` is that request and `pc` its
place in the chain. A step is one middleware, or one operation where others can
see the difference: the bulkhead's channel and its gauge, the limiter's
`Reserve`, `Delay` and `Cancel`, the deferred releases, the writing of the
problem, the metrics. Handlers that wait (profile client with its retries, gRPC
bridge, event stream) are modelled step by step; the others are one step. A
panic may happen wherever handler code runs, and a client may leave at any time.

* The limiter is `x/time/rate`, external: tokens may go negative, and a
  cancelled reservation gives back less when later ones exist (`lastEvent`).
  `ideal` is a history variable, a bucket only admitted requests draw from.
  A call reads the clock and takes the library's lock in one step; two calls
  that read it in one order and lock in the other are not told apart.
* The bridge's call waits on three clocks: the client's, the bridge's own
  (`left`) and that of the job query behind it (`query`, `DB_QUERY_TIMEOUT`),
  which starts when the server asks the repository. `GetJob` reports the end of
  each with its own code, so that a 504 may come from a query whose deadline is
  shorter than the bridge's.
* Time is relative. A tick is the time of one token and ages every timer.
* The backoff doubles a `Width`-bit duration, so that the code's overflow
  guard is exercised.
* A token is the record of facts the verifier tells apart (`Access`); an error
  is the set of sentinels `errors.Is` finds in it, so that the order of the
  tests in `mapJWTParseError` and `MapError` matters as it does in the code.

### Config, Telemetry, Process

`Config` keeps every variable and the class of its value ("neg", "zero",
"junk", ...): what tells an accepted value from a refused one. `Load` is a
predicate, because every error ends the program the same way, and `Values` the
configuration in force, with the defaults of disabled listeners.

`Telemetry` has the error handler one atomic operation per step. The clock may
be set to anything at any time, backwards included. A provider whose shutdown
fails or times out may leave its exporter open, but no longer reports here: the
previous error handler is back.

`Process` builds the components in `run`'s order. A constructor refuses what
its code refuses, or fails for a reason outside the configuration; what `run`
defers is a stack, popped however it ends. A gRPC listener is not on that
stack: `run` closes it when the client cannot be built, and otherwise leaves it
to `APIServer.Run`. The exporters report while the program serves or unwinds.

## Runs

| Run | Instance | Question |
|---|---|---|
| `supervised` | memory, 2 requests, 1 generation, fairness | do accepted jobs end, does `Stop` return, is admission a barrier? |
| `durable` | SQL, 2 requests, 1 crash, 2 generations | does a successful `Stop` leave nothing active, crashes and lost answers included? |
| `shared` | SQL, 2 workers, another instance | does the store implement `JobLifecycle`; do events agree with it; is an item ever in two places? |
| `stops` | SQL, 1 request, 2 stoppers, 2 generations, synchronous requests and deletions | may any order of `Start` and `Stop` let generations, or a repair and a worker, overlap; do racing `Stop` calls share one outcome; do job outcomes agree with what was inserted? |
| `deadline` | SQL, 1 request | violation: README's promise about shutdown |
| `hub` | 2 streams, 2 closers, buffer 2, 3 events | no send on a closed channel, order, gauge, counted gaps; does the replay terminate, do streams end after `Close`? |
| `grpc` | 2 callers, 2 calls | what may `Shutdown` claim when it returns, and does it return? |
| `supervisor` | 2 servers, a request, a stream | does `Run` report what happened, and return? |
| `startup` | gRPC disabled | violation: the service does not start |
| `streams` | 1 server, a stream | violation: streams are cut before the hub is closed |
| `edge` | 2 connections, 2 keys, 15 headers, all routes, bulkhead of 1 and 2 | are slots and gauges given back however a request ends; may refused requests buy admissions; who gets data; is the recorded status the real cause; does every request end? |
| `process` | all environments one or two variables away from 4 profiles, 2 reporters | does `run` build what `Load` accepts; is a protected profile's baseline kept; is everything closed in order; are failed exports counted once and warnings spaced? |

### Bounds

Two requests with one e-mail are the smallest conflict. Two generations and
two stoppers let a late `Stop` meet the next generation. Queue capacity 1 with
two requests makes the full queue happen; capacity 2 lets both workers hold an
item. One crash separates a process from its restart; the proofs cover the
rest of the constants for the properties they are about. In the hub, one
event more than the buffer makes the history drop its oldest event and a slow
subscriber miss one. Two gRPC callers are one that begins the shutdown and one that joins.

Two connections fill a bulkhead of one slot and, with a burst of one token, make
one request wait behind another's reservation; `MaxDebt` bounds the tokens owed
and with them the reservations that wait. The second connection asks for one
route only, since it is there to compete for slots and tokens. The query's
deadline is one tick and the bridge's two, so that either can pass first. `MC` tokens are
one of each kind the verifier distinguishes. Three attempts with a 3-bit
duration double the delay out of the positive range. Environments differ
from a profile in any one variable, or in two of those that are checked
together. Three failed exports and two reporters make a swap fail and a
suppressed warning pend.

Requests, workers and stoppers are symmetric in the safety runs; symmetry is
not used where liveness is checked. Deadlock is not checked where the system
stops by design: all requests used up and the process shut down.

### Fairness

Goroutines that can run do run: weak fairness for handler, worker, `Stop` and
`Run` steps, for the hub's replay and the SSE loop, for `Serve`'s return.
Strong fairness is assumed only where `Close` and `unsubscribe` wait for the
hub's mutex: a `sync.Mutex` hands itself to a starving waiter.
In `RequestPath` time passes and a request's own steps are taken (weak fairness
of `Tick` and `Step`); clients, the services behind and the event stream's hub
owe nothing, so `RequestEnds` rests on the code's own timeouts.
The deadlines of `GrpcRuntime` (`ContextExpires`) and `Supervisor` (`Expire`) pass, since they
are timers; `AsyncJobs` does not need its deadline to pass. Nothing is assumed of
clients, signals, failures, crashes or another instance, and in `Supervisor`
nothing of the workers: `RunReturns` holds if they hang. After a signal the
supervisor goes on to `StopAccepting`, because `Run` has no other path.

## What the code does not keep

* **Start-up without gRPC** (`startup`). With `GRPC_ENABLE=false`, the default,
  `main` passes a nil `*grpcserver.Runtime` in an interface that is not nil.
  `Run` calls `Start`, gets `ErrGRPCServerRuntimeRequired` and gives up.
* **Streams at shutdown** (`streams`). `README.md` closes the hub before the
  HTTP servers, `cleanup` after. One open stream holds `Server.Shutdown` until
  the shared deadline, is cut, and leaves gRPC and the pool no time.
* **Jobs at the deadline** (`deadline`). `README.md` says every active job is
  failed. When the deadline passes first, `Stop` returns without a repair. What
  the code keeps is `StopLeavesNothingActive`: success means nothing is active.

Two documents disagree about who may read a job. `docs/streaming-protocol.md`
(lines 119-124) gives `GET /api/v1/jobs/{id}` to the owner or an administrator;
`docs/security-policy.md`, `README.md` and `TestSecurity_403_RBAC_UserCannotReadJobs`
keep it for administrators, as `policy.go` does. The model has the code's rule.

`AcceptedConfigurationBuilds` is about the constructors. That `Run` starts what
was built is another matter: the default configuration is built and then
refused (`startup`).

## Proofs

### The pipeline

For all sets of requests, workers, stoppers and all bounds satisfying
`PipelineAssumption` (a database that is shared is a database: `SharedDB =>
Durable`):

| Theorem of `AsyncJobsInvariant` | Statement |
|---|---|
| `TypeCorrect` | `Spec => []TypeOK` |
| `ItemsInOnePlace` | an item is in the queue once or with one worker |
| `GenerationsDoNotOverlap` | only one generation has live workers |

| Theorem of `AsyncJobsOutcomes` | Statement |
|---|---|
| `ExecutionIsUndisturbed` | unless the database is shared, the job a worker executes stays running |
| `NothingIsAdmittedAfterStop` | after `StopAccepting` the queue only shrinks |
| `PipelineImplementsLifecycle` | `AsyncJobs` implements `JobLifecycle` |
| `StopCallsAgree` | `Spec => []StopOutcomeShared` |
| `SuccessfulStopLeavesNothing` | `Spec => []StopLeavesNothingActive` |
| `SuccessIsBacked` | `Spec => []SucceededCreatedUser` |
| `ConflictsAreReal` | `Spec => []ConflictHasCause` |
| `FailureCreatesNothing` | `Spec => []FailedCreatedNoUser` |

| Theorem of `AsyncJobsEvents` | Statement |
|---|---|
| `AnnouncementsAreCommitted` | `Spec => []EventsAgreeWithStore` |
| `AnnouncementsAreOrdered` | `Spec => []EventsInOrder` |
| `PoolIsWhatRunSees` | `Spec => [][PoolSeenByRun]_vars`, see "The components as Run sees them" |

None of these is inductive alone. The inductive invariant `IInv` adds to the
types:

* `WorkerShape`: a worker holds an item exactly from its receive to the end of
  the iteration, and a service call under way has an intent;
* `ItemShape`: items are in one place, and each comes from a handler that has
  accepted. A handler about to enqueue has not, so its item is a new one;
* `StoreShape`: no row before `Save`; a row from `Save` to the answer or the
  rollback, so the rollback deletes a job that no worker can hold;
* `PoolShape`: workers outside the current generation are unborn or exited.
  This is what `Start` must preserve;
* `StopShape`: until its repair has run, a `Stop` call's generation stays
  current and marked as stopping, and the repair waits for its workers. A late
  call finds the outcome of `stopOnce` and repairs nothing.

Everything else is a further induction relative to `IInv`:

* *Undisturbed execution*: a repair happens only after its generation has
  exited, and by `PoolShape` no other is alive then.
* *Barrier*: after `StopAccepting` no handler is inside `Enqueue` (`Barred`).
* *Refinement*: the accepted set is the handlers in state `accepted`; each step
  is a step of `JobLifecycle` or leaves it alone.
* *One outcome*: a call that returns without a timeout reports its generation's
  `outcome`, which is written once.
* *Nothing left active*: `DrainPromise` says that under the supervisor a `Stop`
  runs only after `StopAccepting`, and that once a repair has succeeded every
  job that was accepted, or may still be, is terminal. It needs the barrier (no
  job is accepted after the repair), `PoolShape` (no worker is left to move
  one) and `DrainShape` (what a crash cut off is stored).
* *Users* (`UserShape`): before its insert a worker's job has created nothing,
  from its success on it has, and a queued item never has. An item is in one
  place, so nobody else creates the user in between. In memory `MemoryShape`
  adds that a job whose user exists has succeeded, or is running with its worker
  about to say so, which is why no repair can fail it.
* *Events* (`LogShape`): the log of a job is known from where its request and
  its item are; an outcome is stored before it is announced. A crash empties
  the log and leaves no item behind.
* *Counters* (`CounterShape`): each counter is the number of jobs whose log
  reaches that far, so their order is the inclusion of those sets.

### The hub

`StreamHubProofs`, for any finite set of streams, any jobs, closers, buffer and
number of events (`HubAssumption`):

| Theorem | Statement |
|---|---|
| `NoSendOnClosedChannel` | `Spec => []RegisteredChannelIsOpen` |
| `CounterNeverDrifts` | `Spec => []SubscribersCounted` |
| `ClientsSeeOrder` | `Spec => []DeliveredInOrder` |
| `ReplayNeverBlocks` | during the replay the channel has room for the rest of the history |
| `DropsAreCounted` | `Spec => []MissedIsCounted` |
| `CloseLetsEveryStreamGo` | `Spec => []HubIsDown`: after `Close` no stream is registered, and every loop has a closed channel to end on |

`RegistryInv` says who holds the mutex (exactly a handler in its replay), that
a registered channel is open, and that the counter counts the streams that have
finished `Subscribe`: the map and the counter differ while one of them replays.
`FlowInv` says that the history is a window of consecutive events
ending with the latest, that a replaying channel holds a prefix of the history,
and that what was received, what is buffered and what is to come are in order.
`ReplayNeverBlocks` follows because the window is never longer than the buffer.
`MissedIsCounted` compares two numbers: `dropsTotal` and the pairs of a live
stream and an event that it missed (`Lost`). A publication adds a pair for each
stream whose buffer is full, and counts each. A stream joins without a gap,
because its replay is a window of consecutive events; the invariant that makes
this inductive (`LossInv`) is that a live stream which has got nothing has
nothing to miss.

`HubIsDown` is the safe half of `StreamsEndAfterClose`, whose other half is
fairness. It speaks of the call of `Close` that found the hub open. A
second call returns at once, possibly before the first has taken the mutex,
so a caller that must see the streams gone has to be the first; `cleanup` is the
only one. `SweepInv` adds that a loop whose stream is not in the map has had
its channel closed.

### The gRPC runtime

`SupervisorProofs`, for any set of callers and any number of calls:
`GracefulShutdownDrains` (`GracefulMeansDrained`), `ShutdownClosesDone`
(`ReturnedMeansDone`) and `ShutdownHidesServeError` (`ShutdownIsNotAFailure`).
The strengthening `StoppedIsFinal` relates `state`, the `Serve` goroutine and
`done`: "stopped" is final, and a stopped server either never served or has
closed `done`.

### The supervisor

`SupervisorProofs`, for every set of servers, requests and streams, with and
without gRPC and a database (`SupervisorAssumption`):

| Theorem | Statement |
|---|---|
| `ReadinessIsWithdrawnFirst` | `Spec => []ReadyMeansServing` |
| `GracefulIsClean` | `Spec => []GracefulMeansClean` |
| `CutIsForced` | `Spec => []CutIsReported` |
| `FailuresAreReturned` | `Spec => []FailureIsReturned` |

`SupervisorInvariant` follows the order of `cleanup`. `OpenShape`: nothing is
closed before the first `Shutdown`, and readiness is withdrawn earlier.
`TraceShape`: a request is cut only by a forced close, and a close that was
forced or failed is among the collected outcomes. `StageShape`: past each stage
its component is down, or an outcome says that it is not. A return without
outcomes has therefore passed every stage with its component down.

### The components as Run sees them

`Supervisor` has one step where a component takes many. Three theorems say of
the detailed models what those steps assume:

* `RuntimeIsWhatRunSees` (`SupervisorProofs`): `GrpcPhase` maps the runtime's
  state and error to the supervisor's `grpc`. A step of the runtime leaves it
  alone or moves it as `StartGrpc`, `GrpcFails` or `ShutdownGrpc` do; the only
  other move is a `Shutdown` before `Start`, which `Run` never calls. When a
  `Shutdown` returns the server is down, and "forced" means that the context
  was done.
* `PoolIsWhatRunSees` (`AsyncJobsEvents`): a worker leaves only once main's
  context is cancelled or the pool is being stopped, as in `WorkersExit`. A
  `Stop` that gives up does so after its deadline and changes nothing
  (`PoolTimedOut`); any other answer is an error on a database only, and under
  the supervisor finds every worker gone, no generation left and the queue
  stopped (`PoolStopped`). `PoolInv` makes it inductive: a generation is
  cancelled only by the `Stop` that marked it, a repair fails only on a
  database, and under the supervisor no generation follows the one a `Stop`
  has captured. TLC checked `PoolInv` on the instances of `stops`, `supervised`
  and `durable` first.
* `CloseLetsEveryStreamGo` (`StreamHubProofs`): the hub after `CloseHub`.

These are theorems about the components one by one. `Supervisor` is not an
instance of the composed system: its variables are not a function of theirs.

### The request path

`RequestPathProofs`, for any finite set of connections, routes to ask for,
headers, key ring, CORS configuration, limits, timeouts and retry policy
(`RingAssumption`, `EdgeAssumption`, `CallersAssumption`):

| Theorem | Statement |
|---|---|
| `SlotsAreAccountedFor` | `Spec => []SlotsAccountedFor` |
| `DataIsGuarded` | `Spec => []DataNeedsAuthority` |
| `StatusesAreHonest` | `Spec => []StatusIsHonest` |
| `LimiterIsFair` | `Spec => []LimiterConforms` |

`RequestInv` is about one request: the chain behind the bulkhead is entered by
API paths only, nothing is on the wire before a handler wrote it, a request in
a handler has passed RBAC, and one that waits or leaves with data is the
administrator's or the owner's. `RequestPathHandlers` proves that a genuine
token is what `Verify` accepts, for every ring, what RBAC lets through, and
that each handler and the middleware around it keep `RequestInv`;
`RequestPathProofs` adds the counting, the mapping of errors and the limiter.
The counting is one argument: each step changes one request (`Tick` none) and
moves each gauge by the change of that request's membership.

A status is honest because an error is: `Honest` says that a request that
leaves carries an error only for a cause that has occurred (`Caused`: a client
that has gone, the deadline of the bridge or of its query, the limiter before
authentication), and
that a 200 already sent goes with an error of writing or a panic at most. Every
rule of `MapError` names the cause of its status (`RulesAreFair`), so that the
status chosen is honest whichever sentinels the error wraps.

The limiter's argument is `LimiterInv`. Reservations that wait act at different
times, none after `lastEvent`, and the bucket owes at least the time until
`lastEvent`. A cancelled reservation gives back one token less those reserved
after it: one for the last and none for an earlier one, since a later
one acts a token's time after it. The bucket that only admitted requests draw
from is never below the limiter's own, and is above it while a reservation
whose time has come between `Delay` and `Cancel` may still give its token back.

### The program

`ProcessProofs`, for every set of environments (`EnvsAssumption`: prefix
lengths are integers) and, of telemetry, any finite set of reporters, any
interval and clock (`TelemetryAssumption`):

| Theorem | Statement |
|---|---|
| `AcceptedBuilds` | `Spec => []AcceptedConfigurationBuilds` |
| `BaselineIsKept` | `Spec => []BaselineHolds` |
| `EverythingIsClosed` | `Spec => []CleanupInOrder` |
| `ProcessImplementsTelemetry` | `Spec => TelemetrySpec` |
| `NoFailureIsLost` | `TelemetrySpec => []FailuresAccountedFor` |
| `OneWarningPerInterval` | `TelemetrySpec => WarningsAreSpaced` |

`AcceptedIsBuildable` compares the checks of `Load` with those of the
constructors, variable by variable, defaults included; `ConfigInv` carries the
result along `run`. `CleanupInv` lists the eight stacks of deferred calls `run`
can have, with what may be open under each, the stage that has it, the state
of the providers and who still owes the gRPC listener a close. It needs
`ConfigInv`: a constructor that panicked after the listener was open would leave
it open. The handler's invariant adds to the accounting that a reporter about
to swap has seen the interval end by its own reading of the clock; a swap
therefore moves `nextLog` by an interval or more, whatever the clock does.

### Only model-checked

* **Liveness**: `AcceptedJobEnds`, `StopReturns`, `SubscribeReturns`,
  `StreamsEndAfterClose`, `ShutdownReturns`, `RunReturns`, `RequestEnds`. They
  rest on fairness, which the prover cannot reason about. What they need of the
  states is proved: a replay never blocks, a swept hub has let every stream go,
  a `Stop` that returns before its deadline has seen the workers gone.
* **What the code does not keep**: the three violated properties above are
  refuted by TLC; there is nothing to prove.

## Not modelled

* **Text**: wording and layout of responses and logs, JSON, e-mail, ETag and
  SSE syntax, request ids, and the headers a request or response gets
  (`TrustProxy`, `SecurityHeaders`, `Retry-After`). Each is a function of one
  message and touches no shared state.
* **Statistics**: latency sums, refusal counters and the published database
  statistics are independent atomic adds or reads.
* **Body parsing and validation** of the create handlers; `User.Update`, which
  only the memory repository has and nothing calls; ids and versions.
* **Lifetime of the hub's histories**: the hub keeps the history of each job
  for as long as the process lives. The model has a fixed set of jobs, and
  nothing in the repository says what the bound should be.
* **Generated and development code**: protobuf code, test kit, scripts,
  runtime information.
* **Libraries** (`net/http`, `x/time/rate`, `golang-jwt`, `grpc.Server`,
  `database/sql`) are modelled by what the code relies on and marked external.
