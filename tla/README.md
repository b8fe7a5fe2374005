# Verification of gin-bear

gin-bear is a Go web framework (package `bear`, `src/pkg/bear`) with optional
extensions (`src/extensions`). This directory holds TLA+ models of the parts of it
in which several goroutines or several processes share state, the TLC
configurations that check them on small instances, and TLAPS proofs of the
properties that matter most.

`PROJECT.json` lists the runs, maps each definition to the lines it models, and
lists hazards, findings and theorems. Line numbers below refer to `src/`.

## 1. The system

### 1.1 Components

| Component | State | Operations | Correct when |
|---|---|---|---|
| **Lifecycle** `pkg/bear/lifecycle.go` | `state`, `startErr`, `stopErr`, `startRetryable`; per entry `started`, `stopState`, the running attempt | `Start`, `Stop`, registration | components go up in order and down in reverse, nothing is started twice or shut down twice, a nil `Stop` means that all is down, both calls respect their deadline |
| **ApplyAll, Serve, Shutdown** `pkg/bear/bear.go` 409-813, 1997-2157 | `serving`, `served`, `shutdownRequested`, `serveErr`; `applyState`, `applyErr` | the three calls, each from any goroutine | resources outlive every handler, sealing is final, nil answers are true, the drain budget holds |
| **Handler trackers, hijacked connections** `handler_tracker.go`, `runtime.go` 103-190 | active count, accepting flag; set of connections | begin, end, `stopAccepting`, `wait`; register, sweep | no handler begins after the close, no WebSocket escapes the sweep |
| **gRPC runtime** `grpc_runtime.go`, `grpc.go` | active server, health status | drain, forced stop, health watch | drain is bounded, a watcher misses no change |
| **Migration runner** `migration.go` | lock table, history table, the schema itself | `Up`, `Down`, `ForceUnlock`, `ForceMigrationState` | one runner at a time, the history tells the truth, no holes |
| **Agent task store** `extensions/agent/tasks/tasks.go` | `agent_tasks`, `agent_approvals` | `Submit`, `Approve`, `Claim`, `Reserve`, `RecordIntent`, `RenewLease`, `Complete`, `Cancel`, `SweepTimeouts`, `Recover`, `ConfirmUnknown`, `RequeueUnknown` | one execution of a write per approval, no effect forgotten, tokens add up |
| **Agent runner, ledger, gate** `extensions/agent/runner.go`, `tools.go` | budget of a run, slots per user | `Run`, tool calls | budgets are never overdrawn, slots are given back |
| **Plugin barrier, strict build** `plugin.go` 267-350, `bear.go` 2232-2475 | open/closing/closed, registrations under way; registration version, what is built | load a plugin, close, build in rounds, seal | all that was registered is built once and injected when registration is sealed; `ApplyAll` returns |
| **IoC container** `ioc.go`, registration in `lifecycle.go` 132-291 | beans by type and by interface, conflicts; the lifecycle's entries | `Set`, `TrySet`, `SetWithInterface`, batches, `TryRemove`, `Add` | the container's beans are what the lifecycle starts and stops; conflicts are found |
| **Fairing pipeline** `fairing.go`, `handler.go`, `bear.go` 1649-1990 | which fairings a request has entered | request, response | the handler runs behind all of them, and those entered see the response in reverse order |
| **Plugin dispatcher** `plugin.go` 27-258 | routes, shapes, order | `RegisterE`, `Unregister`, `Dispatch` | the handler is decided by the registered routes alone |
| **Default facade** `runtime.go` 39-300 | process-wide facade, superseded ones | publish, load, update | the newest live application answers |
| **Gin's mode** `bear.go` 82-90, 872-934 | gin's mode, the reserved mode, its owners | construct an engine, prune owners | the mode does not change under a live strict runtime |
| **Readiness** `health.go` | attempts in flight | probe | one execution of a checker at a time, never a stale answer |
| **WebSocket connections** `bear.go` 1547-1645, `runtime.go` 103-190, `websocket.go` | open slots, tracked connections | `HandleWSE`'s handler, heartbeat | slots are the connections that are open; callbacks are paired |
| **Cron and its lock, rate limiters** `cron.go`, `cron_lock.go`, `limiter.go` | Redis keys with a time to live, counters per window | acquire, release; allow | one firing runs a job while the lock lives, the limit per window |
| **Repository** `db.go` 369-623 | a versioned row, copies of it, a transaction | `FindByID`, `Update`, `UpdateByID` | no update is lost |
| **Authentication, authorisation** `jwt*.go`, `auth_token.go`, `casbin_authorizer.go`, `authorization.go` | blacklist in Redis, policy in a database and in each instance | request, revoke, change policy, reload | access that was withdrawn is refused |
| **Configuration** `config.go`, `config_loader.go` | the merged settings | decode files, overrides, validate | production starts with safe settings only |
| **Generators** `internal/cli/gen.go`, `plan.go`, `apply.go`, `migration.go`, `internal/scaffold`, `internal/atomicdir` | the files of a project, a lock file | `bear new`, `gen`, `gen apply` | the registry compiles and nothing generated is lost, whoever fails or dies |
| Database and Redis adapters, agent operations and model client, OpenAPI, binding, redaction, logging, metrics, doctor, MCP server | none that several actors share | - | functions of their input, or I/O; not modelled (section 7) |

### 1.2 How they interact

`Serve` closes the plugin barrier and builds the application (`ApplyAll`: modules,
container, lifecycle `Start`), binds its listeners, and on cancellation closes
both trackers, drains the servers, sweeps the hijacked connections and stops the
lifecycle. `Shutdown` either waits for that `Serve` or does the same work itself,
through the same lifecycle. Handlers run in goroutines of their own; the trackers
are all that Shutdown knows of them. Migrations and agent tasks share nothing but
a database between processes, so there the shared state is rows, and atomicity is
that of a statement or a transaction.

### 1.3 What is hard

* *Deadlines that abandon work.* `Stop` leaves a hanging component behind and
  returns; `runShutdownUntil` (`bear.go:582`) leaves a whole `Stop` behind. Both go
  on, and the next call must take up what they do, not repeat it.
* *Calls in any order.* `ApplyAll`, `Serve` and `Shutdown`, each several times, with
  rollbacks in between that make some of them possible again.
* *Crashes between statements* of the task store and of a non-transactional
  migration; answers that are lost after the statement took effect.
* *Stale reads.* `Claim` reads its row back; `Cancel` decides from a row that it read
  before; `ForceUnlock` deletes an owner that it read before.
* *Registration while building.* Plugins, modules, controllers and plain code
  register beans and routes while the strict build runs its rounds; the seal must
  leave out none.
* *Sharing by name.* A Redis key, a row version, a counter or a facade pointer is
  taken, lost to a time-out or to another actor, and given back late.
* *Several files.* A generator changes a package, migrations, `go.mod`, a manifest
  and a registry, beside other generators, and any of the steps may be the last.
* *Things that must end*: both shutdown paths, `ApplyAll`, tasks of workers that
  died, agent runs whose client has left, health watches.

The hazards in `PROJECT.json` name the line where each of these bites.

## 2. Plan

Modules are written so that they can be proved about: parameters are CONSTANTS
with a named assumption, there is one action per operation or critical section,
invariants are conjunctions of named parts, and there is no RECURSIVE operator.
Done, in this order: `Lifecycle` with its abstract specification and proofs;
`AgentTasks`; `Application`; `Migrations` with proofs; the seventeen modules of
section 3.5 and `Components`, which checks them; then the proofs about
`AgentTasks`, about the rest of `Migrations`, about `Application`, and about the seventeen
components (section 5). Every invariant and every action property of a passing run is now
a theorem; what stays with TLC is liveness, which the prover cannot do.

Left to model: the compatibility mode of `ApplyAll` (`bear.go:2067-2157`).

## 3. The models

### 3.1 `Lifecycle` (and `OrderedComponents`, `MCLifecycle`, `LifecycleProofs`)

Goroutines `Proc` call `Start` and `Stop` in strict mode on one lifecycle with the
components `1..N`. An action is a critical section of `lifecycle.mu`, or a call of
a component outside it. `state`, `startErr`, `startRetryable`, `stopErr` are the
fields of the same name; `started`, `stopState`, `legacyStarted` are those of an
entry; `attempt[c]` is the goroutine that runs a component's Shutdown and what it
put in its channel; `comp[c]` is what the component itself does, and is never read
by the code. `Kind[c]` says how it is shut down: with a context, through the legacy
interface, or not at all. `ctxDone[p]` becomes TRUE at any time (`Expire`). Errors
are reduced to "there was one", except that a context error is kept apart from
others because `Stop` retries after it.

`OrderedComponents` is what the application's components may rely on, with no
callers, deadlines, or attempts in it: opened in order, closed one at a time from
the last, reopened only when all are down. `OrderKept` is the refinement under
`opening <- state \in {"new", "starting"}`.

### 3.2 `AgentTasks` (`MCAgentTasks`, `AgentTasksProofs`)

One row per task with the columns that decide something (`status`, `version`,
`nonce` for the recorded intent, `live` for a lease that has not expired,
`reserved`, `budget`, `gen`, `attempts`, `owner`). The mutex of a `Store` is local to
its process, so workers are kept apart by the conditional updates only: an action
is one statement or transaction, and what was read before is `draft`, `ver` and
`excluded` of the worker. `effects[t][g]` counts executions of the write `t` under
its approval number `g` and `charged` what has been settled; the code reads
neither. `RunOnce` is the steps of a worker; `CancelRead`/`CancelWrite`, the sweeps
and the operator's reconciliation run beside it. A worker may crash at any step.

`PromptReadBack` separates two questions. With TRUE no other process commits between
the update of a conditional write and the read-back of the row (`tasks.go:499` and
the like); with FALSE it may, as nothing in the code prevents it.

### 3.3 `Application` (`MCApplication`, `ApplicationProofs`)

Each goroutine makes one call of `ApplyAll`, `Serve` or `Shutdown`, at any time. The
variables are the fields of `Bear` under `servingMu` and `applyMu`, the lifecycle as
a caller sees it (`lc`, `stopErr`, `resources`), the trackers and connections, what
each request does (`handler`), and Serve's `clock` (drain budget, forced budget,
over). An action is a critical section or the end of a wait. `stage[p]` says which
code called the lifecycle's Stop. `embedded` (the engine runs inside another
server, where trackers are all there is) and `prestarted` (a resource such as the
Redis connection of `EnableRedisE` is open before `ApplyAll`) are chosen at Init.
The lifecycle is represented by what module `Lifecycle` establishes of it: one
operation at a time, a failed Start rolls back, a Stop completes or is left
incomplete at its deadline. `AbandonedStopEnds` is the Stop that nobody waits for.

### 3.4 `Migrations` (`MCMigrations`, `MigrationsProofs`)

`lock` is the lock table's one row, `history[v]` the history table and `schema[v]`
what has really happened to the database, which the code cannot read. A process
makes one call; a second call is a second process, because each call draws an
owner token of its own. An action is a statement or a transaction. Each may take
effect with its answer lost (`lost`) or have no effect; a process may crash
between any two, which also ends its SQL session. `NonTx` says which migrations, in which direction,
run outside a transaction. Operators (`CallForceUnlock`,
`CallForceMigrationState`) are processes as well. `careful`, chosen at Init,
is the assumption the code states about them: "Callers decide whether a lock is
stale" (`migration.go:343-346`, `docs/production.md:768-771`). When it is TRUE they unlock
only a holder that is dead and act one at a time; properties that need this say
so, and the others hold without it. `orderly` is the weaker part of it, that they
record the states they found one at a time, which `OneExecution` needs: with two
operators who have both found a version dirty, the second may record its finding over
the work of a runner that began after the first and lost its lock, and the next
runner executes the same version. It takes five processes, more than the run has;
the proof brought it up. An operator decides on a dirty version when
nobody executes its SQL and repairs a half-changed schema by hand first.

Init covers the states a database may be found in: the first `k` migrations are
applied and the next may be dirty with any schema. Deployments bring along a
prefix of the migrations (an older or newer release); a deployment that leaves
out an old file is not considered, for the code reads it as a missing migration
and would fill the gap later.

### 3.5 The components side by side (`Components`, `MCComponents`, `ComponentsProofs`)

These share no state with one another, so each is a module of its own with its
variables, Init, Next and properties. `Components` declares `focus`, chosen at Init: a
behaviour is about one component, and the others keep one initial state. A full product
would only multiply interleavings of steps that commute. The proofs do not use `focus`: a step
of one component leaves the others' variables alone. An action is a critical
section, a statement, a command of Redis, or a step of a goroutine between two of
them. `history` in a variable's comment marks what the code does not keep.

| Module | What it models | Property |
|---|---|---|
| `Build` | the registration barrier, plugin loads, single-flight injection, build rounds, snapshot, seal; registration by users, by `Build` methods and directly in the container; several `ApplyAll` with contexts that end | `SealedMeansBuilt`, `ApplyAllReturns` |
| `Container` | the four ways to set, a batch, removal, the indexes and conflicts, and the lifecycle's entries | `ComponentsMatchBeans`, `OneInstancePerType` |
| `LifecycleCompat` | `Start` and `Stop` without strict mode, workers that are left behind | `StrictlyLIFO`; finding 4 |
| `Fairings` | one request through every chain of guards, controllers and pipelines, in both modes | `FairingsBracketHandler` |
| `PluginRoutes` | routes that overlap, reload and disappear, for one method | `DispatchByRankOnly` |
| `Readiness` | probes that share attempts, time-outs, checkers that panic | `ChecksSharedAndFresh` |
| `HealthWatch` | the gRPC health service's `Watch` | `NoChangeMissed`, `WatchesEndWithDrain` |
| `Facade` | publish, load with fallback, compare and swap | `NewestLiveIsLoaded` |
| `GinMode` | engines constructed with or without strict mode, refused or failing, and runtimes that stop | `GinModeKept` |
| `WebSockets` | the handler of `HandleWSE`, its deferred calls, slots and heartbeat | `SlotsAreConnections` |
| `AgentRuns` | one user's runs: gate, rounds, ledger, tools; the stream handler with its bounded channel | `SlotsAreRuns`, `DoneCarriesEverything`, `RunsEnd` |
| `Generation` | `bear new`, `gen` and `gen apply` as processes over one directory that may fail or die at any step | `RegistryCompiles`, `GeneratedIsKept`, `MigrationsStayApart` |
| `CronLock` | the firings of one job, on one node or several, that may overlap; the key, the scheduler's shutdown | `RunningHoldsKey` |
| `Limiter` | the two fixed windows over a clock, and Redis without an answer | `AdmissionsBounded` |
| `Records` | the optimistic lock, in and outside a transaction | `NoUpdateLost` |
| `Configuration` | the chain of files, overrides, validation, for every environment | `ProductionLoadsSafely` |
| `Authorization` | token, blacklist, and the policy of replicas over one database | `WithdrawnIsRefused` |

A run has a limited number of properties, so `Components` conjoins related ones:
`ContainerConsistent`, `RequestsReachTheirHandler`, `HealthIsCurrent`,
`AccessIsGuarded`, `RunsAccounted`, `ProjectIntact`, `SharedStateOwned`, `StreamsEnd`.

What the modules assume, and what was seen while writing them:

* `Build`: `sealStableStrictBuild` compares the *number* of beans with the snapshot
  (`bear.go:2465`) under the container's lock, gives that back, and seals the lifecycle's
  registration in a second step (`bear.go:2468`; actions `CountsBeans` and `Seals`).
  The registration lock is held all along, but a change made directly in the container
  does not take it. Two such changes leave a bean that was never injected, and
  `SealedMeansBuilt` excuses exactly these: a `TryRemove` with a `TrySet` between
  snapshot and count (`removedSince`), and a `TrySet` between count and seal (`late`).
* `Container`: setting a bean that `Lifecycle.Add` had put into the list before panics
  (`lifecycle.go:201`: an entry made by `Add` has no map of registrations), after the
  container has taken it. `Bind` models that; `ComponentsMatchBeans` asks of such
  a bean only that its component is started and stopped. When it happens in a batch, the
  container has taken the whole batch by then, and the beans behind the one that panics have no
  entry: the lifecycle never starts or stops them. `BindPanics` says where a
  batch ends, `halfSet` that one has ended so; `ComponentsMatchBeans` is about the others.
* `Fairings`: the comment at `bear.go:1665-1667` says that route fairings run before
  global ones on a request. Compatibility mode does that; strict mode runs the
  global ones first (`bear.go:1901-1916`), and the model follows the code.
* `Facade`: the stack of superseded facades is a set of facades with the place each
  was pushed at; the newest is the one with the greatest place. A facade that has no
  runtime, set by `updateDefaultFacade` between a publish's
  load and its store, is lost; runtimes are not.
* `GinMode`: a runtime without strict mode reserves nothing, so the mode may change under it;
  a direct call of `gin.SetMode` by the application is outside the model.
* `Build`: modules and mounts that a round collects come in some order
  (`InSomeOrder`), as they do from the container's maps.
* `Limiter`: `recent[l][i]` counts what was admitted in the last `i` steps of the clock. The bounds checked are twice the limit for Redis and
  three times for memory, where a late tick is followed by the next. They are those of
  an answering Redis: on an error the failure mode decides (`limiter.go:166-168, 173-176`),
  and the default, to fail open (`limiter.go:143`), admits without counting, for as long
  as Redis gives no answer. `RedisErrs` is that path, with a script that may have run
  all the same; `onError` counts what it admits, and the bound is twice
  the limit plus these, or twice the limit when the limiter fails closed. `ErrorLimit`
  bounds them in the model only.
* `Records`: after a rollback the copy keeps the version that `Update` gave it and
  may later match a row it never read; `NoUpdateLost` names that case (`leftBehind`).
* `AgentRuns`: the user's requests share a gate, as the handlers' runners do.
  A runner without one makes a gate per run (`runner.go:282-285`). A tool may start
  after the cancellation, within one answer. A stream ended by its client or by
  the backstop leaves no audit record (`http.go:206-213, 242-250`).
* `Generation`: the steps of an undo may fail as well; the error is reported and the undo
  goes on. When the write of the registry and then the restoring of the manifest fail
  (`gen.go:498-508`), the package is removed although the manifest lists it, and the next
  `gen api` renders a registry that imports it. `RegistryCompiles` excepts the packages to
  which that has happened (`stranded`), and no others. `upgradeManifestToV2` rewrites the
  manifest in place, so that an error or a death there leaves it torn, and every
  later `gen api` refuses it; a rollback writes back a snapshot of `go.mod`, drops
  a pin that a concurrent `gen model` wrote, and tears the file if it dies there. The properties hold in spite of all this.
* `Configuration`: `docs/production.md:99-102` says that production configuration is
  always strict. A later file that says `server.mode: release` and `config.strict: true`
  does not undo that an earlier one with `strict: false` dropped unknown keys, so the
  last part of `ProductionLoadsSafely` speaks of production declared by the
  environment. A second gap: `strictPolicy` looks up `config` and `server`
  with that case (`config_loader.go:224,233`), while `encoding/json` decodes
  `{"Config":{"strict":false}}` too, so a last file that says so loads in production with
  strictness off. In the model a file's `foreign` sections are those `strictPolicy` does not
  find, and the property excepts a last file that has one (`unseen`); the next file
  would be refused. A strong secret is required where authentication is on, as in
  `bear.go:969`; it is off by default, and `config_loader_test.go:400-410` loads a production
  configuration without a secret.
* `Authorization`: one token and one rule; revocation is stored in Redis.
* `WebSockets`: without a limit (`MaxConnections` 0, the default outside strict mode and
  production, `websocket.go:49-51`) slots are neither counted nor released. The theorem covers that, the run has a limit.

## 4. What is checked

| Run | Instance | Shows |
|---|---|---|
| `lifecycle` | 3 goroutines (symmetric), 3 components, one of each kind | `StopNilMeansDown`, `RetryFindsAllDown`, `TerminalErrorKept`, `StoppedIsFinal`; refinement `OrderKept`; the inductive invariant `IInv` |
| `lifecycle_live` | 2 goroutines, components 1 and 2 prestarted, 1 deregistered | `StartedMeansUp` where a rollback shuts down what Start did not open; `StopReturns` and `StartReturns` |
| `agent_tasks` | 1 write task, 2 workers, operator, 2 approvals | `OncePerApproval`, `EffectNeverForgotten`, `BudgetAccounted`, `SettledIsFinal`; the inductive invariant `IInv` |
| `agent_tasks_live` | 1 readonly and 1 write task, 1 worker | `RunningEnds` |
| `agent_stale_claim` | as `agent_tasks`, read-back not prompt | finding 1 |
| `agent_queue_starves` | 2 readonly tasks, 1 worker | finding 2 |
| `application` | 3 goroutines, 1 gRPC and 1 WebSocket handler | `HandlersHaveResources`, `NoConnectionEscapes`, `ShutdownReleases`, `BindsWithResources`; the inductive invariant `IInv` |
| `application_live` | 2 goroutines, one of them a Shutdown, the same handlers | `ShutdownReturns`, `ServeReturns` |
| `application_nil_shutdown` | a Shutdown beside a Serve or another Shutdown | finding 3 |
| `migrations` | 3 processes (symmetric), 2 migrations, the second non-transactional both ways | `OneRunner`, `HistoryTruthful`, `AppliedInOrder`, `NilMeansHeld`, `OneExecution`, `UpNilMeansApplied`; the inductive invariant `IInv` |
| `components` | the instances of section 3.5; three objects that register one another, 3 container instances, 2 callers, 6 overlapping routes, 9 chains of stages, 2 probes, 2 watches, 3 runtimes, 2 sockets for 1 slot, 2 requests for 1 run, 2 processes and 2 resources, 2 nodes and 2 firings, a limit of 1 per window, 2 writers, 2 files, 2 replicas | all properties of the seventeen modules; their inductive invariants (`ComponentsIInv`); `ApplyAllReturns` and `StreamsEnd` |
| `compat_stop_nil` | 3 components, two prestarted, 2 callers | finding 4 |

Every run also checks types, within its inductive invariant or by themselves, but for the runs of one
liveness property or one finding. `CHECK_DEADLOCK FALSE` is set where the system
may stop: all calls have returned or crashed, a request is answered, a
configuration is loaded, or a bound has been reached. The
two lifecycle runs check deadlock: a goroutine that has returned may call again.

### Bounds, and why they are enough

* *Lifecycle.* Three components give one of each kind and a first, middle and last
  one; three callers give an owner, a waiter, and one that takes the lifecycle
  between the owner's end and the waiter's wake-up. Nothing else is bounded: calls
  repeat for ever. The proofs cover every `N` and every set of callers.
* *AgentTasks.* `Budget` 1 with `Usages` {0, 2} gives a usage below, and one above,
  reservation and budget; the workers reserve 1 and 0 tokens, so both `Reserve` and the
  bare `RecordIntent` occur. `MaxAttempts` 2 allows one retry. `MaxGen` bounds how often
  the operator asks for a new approval (1: two approvals exist). `MaxVersion` bounds
  versions, only in the guard of the claim: a row at that version is no longer claimed,
  all else continues. 5 lets a second claim meet everything the first left behind.
  Two workers are what a takeover needs; two tasks appear where the queue matters.
* *Application.* Three calls are a Serve, a concurrent Shutdown and one more of any
  kind. A WebSocket handler passes the HTTP tracker, so both trackers, and the
  sweep, have one user. The liveness run leaves the third goroutine out for its
  cost; no wait in the code involves a third one.
* *Migrations.* Two versions are the least that has an order; one is transactional
  and one is not. Three processes are a runner, an operator who misjudges it, and the
  runner that comes next. Four processes were explored to depth 15 without a
  violation; the theorems cover every number.

* *Components.* Two actors compete for everything that has one owner, and a third
  where a hand-over needs it (firings, runtimes, container instances). `RoundLimit` 2 lets
  registration outlast the rounds, `ModuleLimit` bounds what is registered while a
  build goes on. `EntryLimit`, `ProbeLimit`, `ChangeLimit`, `RuntimeLimit`, `EngineLimit`, `StampLimit`,
  `FireLimit`, `CommandLimit`, `TroubleLimit`, `ErrorLimit`, `VersionLimit`, `FileLimit` and
  `ClockLimit` bound how often something happens, each in the guard of the one
  action that would count on, and 1 to 3 of each suffice to meet what the first one
  left behind. `TroubleLimit` 2: two errors or deaths per behaviour, so that an undo may fail too.
  `MaxTokens` 4 and `MaxRounds` 2 let a run end by tokens, by rounds and by a text;
  `BufferEvents` 1 with two deltas fills the channel. `Window` 3 is the least number
  of clock steps in which a late tick, the next one and requests between differ.

### Fairness, and what justifies it

* `Lifecycle`: a goroutine that can continue does (`WF Step`) and a context expires
  eventually (`WF Expire`). No fairness is assumed of the end of an Init or a Shutdown: components
  may hang, which is what `StopReturns` is about. `StartReturns` excepts an Init that
  hangs itself, because the code calls it in Start's own goroutine.
* `AgentTasks`: workers run, a lease that is not renewed runs out, and `Recover` is
  called again and again. The last one is up to the deployment: nothing in `src/`
  outside the tests calls `Recover` periodically. A crash, a renewal, a cancellation
  or an operator is never forced.
* `Application`: goroutines run, time passes, and each `Shutdown` has a deadline (given,
  or the default of `bear.go:675-679`). Builds and initialisers end; handlers and
  the Shutdown of a component may hang for ever. Serve's context is not forced to be
  cancelled.
* `Components`: goroutines run: a plugin load, a build, a caller of `ApplyAll`, an agent
  run, a stream handler, a health watch. A load and a build end because each of their
  steps may fail but none may hang; a model and a tool return once their context
  has ended, which `openai.go` does with its request's context. No context need end, no
  client need read or leave, and nobody is obliged to call.
* `Migrations`: no liveness is claimed; a process may wait for its database for ever.

## 5. What is proved

TLAPS checks these for every value of the constants, from the named assumptions of the
modules (`LifecycleAssumption`, `MigrationsAssumption`, `TasksAssumption`,
`ApplicationAssumption`, and one for each component): types of the constants, that a
value such as `NoProc` or `Nobody` is not one of the actors, and that what the code counts or
ranges over (connections, modules) is finite. TLC evaluates them on every run.
The pattern is the same throughout: an inductive invariant `IInv`, a conjunction of named parts that TLC
checks as an invariant of the run; one lemma for each part, with one step per action
or family of actions; and each property as a consequence.

**`LifecycleProofs`.** `Invariant` shows `Spec => []IInv`. None of the safety properties
is inductive: that a nil Stop means that all is down needs to know who owns the
lifecycle (`Ownership`), that the flags of an entry say what its component really
does (`EntryMatchesComponent`, `StateMatchesEntries`), that everything after the
component being closed is down (`LaterOnesDown`, with `Progress` for where each
call stands), and which errors have been kept (`Outcomes`). One lemma per action
shows `IInv` preserved. `Types`, `StopNil`, `RetryClean` and `TerminalError` follow by
implication; `Final` and `StartedUp` are action properties shown step by step under
`IInv`; `Refinement` maps Init and each step to a step of `OrderedComponents` or a
stutter.

**`MigrationsProofs`.** `Invariant` shows `Spec => []IInv` for any number of processes and
migrations. `HistoryTruthful` alone is not inductive: `ClearDirty` writes "clean"
without looking at the schema, so `DirtyIsCurrent` must say that the schema is then
what the row will say and that no other version is dirty; that nobody else has
written in the meantime needs `LockExclusive`, and this needs `LockOwned` (a
process holds the lock only between acquiring it and its end) and, for the
operators, `FindingHolds` (what they found stays true until they record it).
`StartsClean` says that work begins with no dirty row; `CallShape` ties calls to
their steps. `Exclusive`, `Truthful` and `NilHeld` follow.

`OneExecutionHolds` does not rely on the lock at all. `RunsApart` says that a version whose SQL is
executed is dirty, and dirty for one runner; a second one would have to find it
clean or absent, and only an operator makes it so. `RepairsApart` says that what an
operator is about to record is dirty and nobody works on it, as long as operators record one at
a time (`orderly`). `InOrder` and `UpNil` need to know where a call is in its work: what
`Up` is done with is applied and older than what is left (`UpPlan`), what `Down` takes
next is the newest applied (`DownPlan`), and who works has work left (`WorkLeft`).
`InOrder` has a hypothesis, `Prefixed`: a deployment brings along the migrations older than
those it has (section 3.4). The least and the greatest version of a set come
from well-founded induction over the numbers, by a lemma of the library about
non-empty subsets.

**`AgentTasksProofs`.** `Invariant` shows `Spec => []IInv` for any number of tasks and workers, any
budget, reservation and usage. Everything a worker decides, it decides from a
row that it read before; so for each kind of pending write a part says what the
draft is, provided the version it carries is still the row's (`Current`):
`IntentDrafts`, `CompleteDrafts`, `CancelDraft`. Versions only grow (`VersionsSeen`), so
a draft that has become outdated never becomes current again. `EffectsUnderIntent`
says that an execution was allowed by an intent that stays in the row until the
operator asks for a new approval. `BudgetHolds`, `EffectKept` and the action property
`SettledHolds` rest on these alone. `OnceHolds` has `PromptReadBack` as its
hypothesis, as finding 1 requires: then a worker whose version is the row's own holds the
claim (`ClaimHolds`), nobody is about to record a second intent (`IntentIsNew`), and one
worker at a time may start (`StartIsNew`).

**`ApplicationProofs`.** `Invariant` shows `Spec => []IInv` for any number of goroutines, each with
any call, and of handlers. That no handler loses its resources depends on the whole
sequence of each call. At most one `Serve` is under way and one ever gets as far as its
listeners (`OneServe`); one attempt of `ApplyAll` runs, and nil means that it succeeded
(`OneAttempt`); one operation on the lifecycle runs, and its state says what is open
(`OneOperation`). From these: the resources of an application that was applied are
open until a `Shutdown` or the end of `Serve` closes them (`OpenUntilWithdrawn`); a `Shutdown`
that stops the lifecycle has sealed the application first (`SealedFirst`); and whoever
stops it after handlers may have run has closed the trackers and waited for the handlers, or does not get
that far (`NoHandlerLeft`). `SweepIsLast` orders the flag that registration looks at
and the sweep, and `ServeOutcome` says what a nil from `Serve` is worth, on which
the nil of a waiting `Shutdown` rests. `HandlersServed`, `NoneEscapes` and `Released` follow;
`BoundOnce` is an action property: `Launch` is the one step that binds the listeners,
and the `Serve` that takes it is the only one and nobody has withdrawn the application.

**`BuildProofs`, `ServiceProofs`, `SharedStateProofs` and `ComponentsProofs`.** Each of the
seventeen components has an inductive invariant (`BuildIInv`, `CronIInv`, ...); the first three modules
prove for each that it holds at Init and is kept by the component's steps.
`ItsOwnSteps` in the last one says that a step of `Components` is a component's own or leaves its
variables alone, from which `ComponentsKept` (that is `ComponentsIInv`, the conjunction of them)
and the theorems about the run's other properties follow (`SealedWhole`, `ContainerAgrees`,
`HandlerReached`, `HealthTold`, `AccessWithdrawn`, `RunsCounted`, `ProjectKept`, `SharedStateGuarded`). What each invariant adds to the property:

| Component | Strengthening |
|---|---|
| `Build` | the barrier keeps loads and the build apart (`LoadsBeforeBuild`); the module being loaded has an entry, the newest of its module, that the load alone builds (`LoadHasEntry`); entries are built in order, each once, but for those of loads (`BuiltInOrder`); a container not made smaller shows by its size that nothing entered it since the injection, and what the count has shown holds at the seal but for what came late (`CountTells`) |
| `Container` | an instance has at most one entry that is not of `Add`'s making, before any that is, with exactly the keys it is registered by, and is active while it has one (`EntriesMatch`); a key with a bean has its place in the order, and a type without a conflict one instance (`TypesKnown`) |
| `LifecycleCompat` | one caller at a time initialises or shuts down, in the state that says so (`OneCallerActs`); what is left to shut down was registered before all that was shut down (`ShutdownsInOrder`) |
| `Facade` | superseded facades lie in the order of publication (`StackInOrder`), and a live runtime is the facade's or among them (`LiveAreKept`) |
| `GinMode` | a live strict runtime owns the reservation of its mode (`ReservationIsOwned`); one engine at a time is under construction (`ConstructionIsAlone`) |
| `CronLock` | tokens are drawn once (`OwnersAreDrawnOnce`) |
| `Limiter` | since the Redis key was set only its count admits, apart from errors (`RedisWindows`); since the last tick the map was replaced once at most, since the tick before it twice (`MemoryWindows`) |
| `WebSockets` | the heartbeat and the controller's callbacks go with how far the handler has come (`DefersPending`) |
| `Records` | a copy stems from the version it has unless its update was rolled back (`CopiesStem`); the updates of the open transaction lead from the committed version to its own (`VersionsAreUpdates`) |
| `Fairings` | where the request is decides what has happened to it (`OnItsWay`); the stages it has passed showed it all their fairings (`StagesEntered`), the global ones first (`GlobalsFirst`), and those to come have none that it has met (`EnteredOnce`) |
| `PluginRoutes` | every route is in the list that is scanned (`RoutesAreListed`), and no two routes have one shape (`ShapesAreOwned`) |
| `Readiness` | the attempt in flight is the last and the only one that runs (`InFlightRuns`); who joined an attempt did so before it was over (`JoinsAreFresh`) |
| `HealthWatch` | a watch whose channel is still in use is about to send the status that holds (`LooksAreCurrent`) |
| `Authorization` | a revoked token is on the blacklist until it has expired (`RevokedTillExpired`); who has refreshed an authorizer holds its lock (`DecidedUnderLock`) |
| `AgentRuns` | every delta is received, in the channel or being sent (`DeltasAccounted`); a turn has a round left and a tool call was proposed (`WithinBudget`) |
| `Generation` | the lock says which command generates an API, and a package has one command that may still remove it (`CommandShape`); the registry lists no more than the manifest, the manifest no more than the packages on disk and those stranded, and what the plan under the lock has read of it is current (`ManifestOnDisk`); a planned version exceeds those of all migrations until its own files are there (`VersionsAreFresh`) |
| `Configuration` | once production is declared, strictness is not switched off along the chain, but for what the last file hid (`ProductionIsStrict`) |

Two of these rest on what a recursive function computes for every input: `SetEntries`
(`Container`), which sets the entries of a batch one after the other, and `Scan` (`PluginRoutes`), which keeps
the best route of those looked at so far. The library's induction rules take an operator
as a parameter, which the prover cannot instantiate, so the induction is by the
smallest counterexample: the numbers for which a statement fails would have a least one
(`SomeLeast`, from the well-founded order on the naturals), it is not 0, and its predecessor
refutes it. The same argument shows first that the function exists (`SetEntriesSteps`, `ScanSteps`).
That the scan finds the route of highest rank (`ScanFinds`) then needs ranks to be an order on
what can match one path: two routes that match it and have different shapes differ in
a segment's rank (`RanksDiffer`, `MatchingApart`), and `Outranks` is transitive among routes
(`OutranksOn`). For `Container`, `RetireMatches`, `BindMatches` and `SetEntryMatches` say what each change of the
list does to its agreement with the beans; for `Fairings`, `JoinedOnce` and `PrefixOnce` say when joined
lists have no fairing twice.

**Model-checked only.** All liveness, which is out of the prover's reach:
`StartReturns`, `StopReturns`, `RunningEnds`, `ServeReturns`, `ShutdownReturns`,
`ApplyAllReturns`, `StreamsEnd`.

## 6. Findings

1. **A stalled claim duplicates a write** (`agent_stale_claim`, `tasks.go:499`). `claimCAS`
   takes the version it reads back as its own. If its lease expires before that
   and another worker takes over and records its intent, the stalled worker
   reads that worker's version and executes the write under the same approval,
   although `tasks.go:947-949` says that a lost heartbeat can "never duplicate" one.
2. **One overdrawn task stops the queue** (`agent_queue_starves`, `tasks.go:468`). A
   retryable failure that reports more usage than the budget leaves the task
   queued with a negative budget. From then on every `Claim` selects it first and fails.
3. **A nil Shutdown that released nothing** (`application_nil_shutdown`, `bear.go:432`).
   A Shutdown that cancels a Serve before it has begun to initialise returns
   Serve's nil without having stopped the lifecycle; a resource opened before
   Serve stays open, against `bear.go:667`. A second Shutdown releases it.
4. **A nil Stop that left components up** (`compat_stop_nil`, `lifecycle.go:778`). In
   compatibility mode a shutdown that succeeds as the deadline passes ends the loop
   without an error; `Stop` returns and caches nil although the components before it
   were never shut down, against `docs/production.md:1016-1020`.

## 7. What is not modelled

* `Application` takes a build to be one step that may fail; `Build` has its inside.
* The compatibility mode of `ApplyAll`.
* Agent operations, audit and routing (`taskops.go`, `audit.go`, `router.go`): request
  decoding and look-ups over the store of `AgentTasks`. The model client: I/O.
* Memory, goroutine leaks, panics in user code other than as an error of the call.
* The loading of migration files, SQL dialects and the upgrade of the runner's own
  tables (`migration.go` 103-187, 463-604): they prepare data before the runner works.
* Signatures and claims of a token, scopes and subjects of a permission, single
  values of a configuration, the text of generated files: one possible refusal, or
  what the properties tell apart of them. A `mode: ""` given explicitly is not told apart from an absent one,
  nor are spellings of a mode's value.
* Connection set-up of databases and Redis, OpenAPI, binding, redaction, logging,
  metrics, tracing, the doctor and the MCP server: transformations of data by one
  actor, or I/O.
