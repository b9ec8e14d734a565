# Damascus: TLA+ specifications and proofs

Damascus runs load experiments against a service: a control plane (one Go
process, PostgreSQL behind it) starts traffic, polls Prometheus, stops the
traffic when a safety policy is breached, observes the recovery, analyses the
observations and stores a report. This directory holds TLA+ specifications of
that control plane, TLC configurations that check them on small instances, and
proofs checked by TLAPS.

## The system

| component | state it keeps | operations | interacts with |
|---|---|---|---|
| experiment manager (`internal/experiment`) | `activeRuns` under `mu`, `stateMu`, the shutdown context; per run two contexts, an error channel, two `sync.Once` | Create, Start, Stop, GetStatus, Shutdown; the background `finishExperiment` | drives everything below; called by the REST handlers |
| watcher engine (`watcher/evaluator.go`) | `running`, `cancel`, the snapshot handler, the consecutive failure counter | Start, Stop, SetSnapshotHandler, poll loop | one instance shared by all experiments; calls the manager's handler |
| stress engine (`stress/engine.go`) | `running`, `cancel`, a wait group | Start (blocks), Stop | one instance shared by all experiments |
| Prometheus client (`watcher/prometheus.go`) | none | QuerySnapshot | asked by both watchers |
| safety controller (`safety`) | an audit log; a `sync.Once` per `EvaluatingController` | Evaluate, MakeSnapshotHandler | called by the snapshot handler; the evaluating one is not wired by `main` |
| storage (`storage/postgres.go`) | experiments, observations, reports, scores | one statement or one transaction per method | called by manager and handlers |
| metric watcher (`watcher/watcher.go`) | a run, its cancel function, a failure counter, a bounded channel of snapshots | Start, Stop, poll loop | Prometheus; not wired by `main` |
| worker pool (`stress/worker.go`) | a bounded queue, a wait group, a context and a ticker | Start, Submit, Stop, workers | not wired by `main` |
| load plan, ramp controller, HTTP client (`stress`) | none outside a call | Validate, CalculateSteps, Run; send | not wired by `main` |
| event bus (`events`) | the client's buffer; the broker's log and offsets; the reader | Publish, Close; the consumer's Start loop; ensure topics | Kafka; not wired by `main` |
| capacity analyzer, dependency graph analysis | none (a graph while it is built) | Analyze, CalculateRTO; BuildGraph, ScoreCriticality | called by the manager; Jaeger |
| report generator | none | Generate | called by the manager |
| REST API (`api`) | none that outlives a request | create, start, stop, get, list, status, report, dependencies, services, health | calls the manager and the repository |
| observability checker, dashboard | none that outlives a request | probes, rendering | HTTP |

What is hard here: the manager, with four goroutines per run plus the request
goroutines, engines shared across experiments, a context tree, channels read by
a `select` with several ready branches, and database statements that may fail
between any two of these; the watcher engine, whose handler, failure counter and
running flag serve loops that overlap; the watcher and the pool, which can be
started again while an earlier run is still leaving; the event bus, whose
consumers crash, lose partitions and fail to commit; the REST handlers, which
are several statements each and whose answers a client compares. The
computations are sequential, and what is hard there is numeric: integers that
wrap, averages, cycles in a graph, rates that are zero or equal, and orders.
`PROJECT.json` lists the hazards, each with its line and the properties that
answer it.

What makes each part correct:

* manager: the status column moves along the transition matrix whatever races
  and fails; one run per experiment; no traffic once the row says it is being
  analysed; a row that goes on has a run behind it, or failed statements, and
  a single one leaves it where a stop request ends it; every cancelled run ends;
  an accepted stop ends the experiment.
* watcher engine and safety policy: an outage of Prometheus that lasts stops the
  traffic of its run, and no traffic is stopped for an outage that was not seen;
  one loop that is not cancelled polls at a time; the recovery window is observed
  by the run's own loop and handler. Stress engine: cancelled traffic ends.
* metric watcher: loops of two runs never overlap, Stop waits, a cancelled run
  frees the watcher, a synthetic breach is earned by the run it is sent to.
* worker pool: Stop leaves no worker, a task is executed at most once, an
  accepted task is not forgotten by a pool that goes on.
* event bus: a committed record was audited; an experiment's events are audited
  in order; a published event is audited or reported.
* load plan: the ramp climbs to the maximum in the machine's arithmetic.
* graph: depths are distances; a service counts as isolated only if it could be
  reached; scores are fractions.
* capacity: the limits agree with every row they summarise; the two recovery
  times agree.
* report: its recommendations hide no breach of the policy.
* REST API and storage: of several start requests one is told RUNNING; what a
  client is told of an experiment continues what it was told before.

## Modules

| module | models | TLC instance | proofs |
|---|---|---|---|
| `ExperimentState` | the eight states, the transition matrix | | |
| `ExperimentLifecycle` | abstract specification: what the experiments table promises to a client that only reads it | | |
| `ExperimentManager` | `manager.go` with the two engines as it sees them | `MCExperimentManager` | `ExperimentManagerProofs` |
| `ExperimentManagerClaims` | statements of documents and comments that the manager does not keep | `MCExperimentManager` | |
| `PollSlot` | abstract specification: what a poller of Prometheus promises to whoever starts and stops it | | |
| `SafetyPolicy` | `watcher/prometheus.go`, `internal/safety`, the sentinel and the thresholds of a request | `MCWatcherEngine` | |
| `WatcherEngine` | `watcher/evaluator.go`, with the handlers of the manager and of `EvaluatingController` | `MCWatcherEngine` | `WatcherEngineProofs` |
| `MetricWatcher` | `watcher/watcher.go` | `MCMetricWatcher` | `MetricWatcherProofs` |
| `WorkerPool` | `stress/worker.go` | `MCWorkerPool` | `WorkerPoolProofs` |
| `EventBus` | `events/producer.go`, `events/consumer.go`; the broker and both client libraries as they are used | `MCEventBus` | `EventBusProofs` |
| `LoadRamp` | `stress/load_plan.go`, the arithmetic of `stress/ramp.go` | `MCAnalyses` | `AnalysesProofs` |
| `ServiceGraph` | `internal/graph` | `MCAnalyses` | `AnalysesProofs` |
| `CapacityAnalysis` | `internal/capacity` | `MCAnalyses` | `AnalysesProofs` |
| `CapacityReport` | the verdicts of `report/generator.go` | `MCAnalyses` | `AnalysesProofs` |
| `Analyses` | the last four on the inputs that come in step by step, and `StepController.Run` | `MCAnalyses` | `AnalysesProofs` |
| `ExperimentRepository` | what the statements of `storage/postgres.go` do to a row | `MCRestApi` | |
| `RestApi` | `api/handler.go` as its clients see it, on the manager's requests and the abstract runs | `MCRestApi` | `RestApiProofs` |
| `InductionLemmas` | no code: least numbers, induction, recursive functions and folds, for the proofs | | itself |

Operators named as mutants stand before the definition they change. No
specification uses them; they are the bugs that show a property can fail.

### ExperimentManager

A run is named by the start request that creates it, so every per-run object of
the code (contexts, error channel, `sync.Once`, goroutine) is a function or a
set over `Requests`. `startPc`, `stopPc`, `finishPc`, `stressPc`, `watchPc` and
`loopPc` are the program counters of the goroutines. One action is one critical
section, one database statement, one context cancellation or one channel
operation; everything between two of them is local. `state`, `stopReason` and
`report` are the rows and survive `Restart`; everything else is reset by it.

* `transitionState` is one action: it holds `stateMu` from its read to its
  update, and no other code updates the status. It can fail before or after the
  update was committed (`TransitionErr`), as a lost connection does.
* `signalFailure` is two actions (`Signal`, `SignalCancel`): the goroutine can
  be preempted between sending the error and cancelling the contexts.
* `finishExperiment`'s inner `select` takes any ready branch.
* The watcher's poll copies the handler under the lock and calls it after the
  unlock: `Poll`, `SaveObservation`, `Evaluate` and `LoopSignalled` are separate
  steps and the handler may be replaced, or the run may end, between them.
* The stress goroutine's `Start` fails when the plan's rate is out of range
  (`Overrated`) or the engine is sending for another run.
* What a snapshot contains, and hence whether it is a breach, is a free choice;
  so is the outcome of `BuildGraph` and of every statement, within `MaxFaults`.

`ExperimentLifecycle` sees the three columns only: the status, the stop reason,
which changes with the status only and tells what ended the experiment
(`Causes`), and the report. The refinement mapping is the identity on them, so
`LifecycleImplemented` is its specification as a property.

### SafetyPolicy, WatcherEngine, PollSlot

`SafetyPolicy` has the data: thresholds a request may set and the policy made of
them, the six queries of a snapshot with an answer that fails, is empty or is a
value, the sentinel of an outage, and the verdict. Ratios are fractions.

`WatcherEngine` looks at the engine for itself where `ExperimentManager` only has
what its runs see. A run is named by the call of `Start` made for it; the manager
is reduced to `SetSnapshotHandler`, the goroutine that calls `Start`,
`StopTraffic`, `Stop` and the deferred `CancelExp`. A loop ticks, queries, copies
the handler (`Deliver`) and calls it; the manager's handler stores the
observation (`SaveFails` when it cannot) and evaluates, the one of
`EvaluatingController` only evaluates, and `wiring` chooses between them in
`Init`. `consecutiveFailures` is the engine's; `streak` counts the failures of a
loop in a row, and `disturbed` has the loops whose count another loop or a late
`Start` touched, or whose snapshot another run's handler got: two history
variables that let the properties say what a run may rely on.

`PollSlot` has three steps per run: enter, retire, leave. Both watchers implement
it by `phase <- [r |-> Phase(r)]`: the engine the slot in which a cancelled loop
may overlap the next, with the fairness of `Leave`, the metric watcher the
exclusive one.

### MetricWatcher

A run is a call of `Start`. `Start` checks, unlocks to make its channel and locks
again, so it is `StartCheck` and `StartLock`. `loopPc` follows a poll loop:
`Tick`, a query that succeeds or fails (`QueryOk`, `QueryFail`), `Send`, and on
the way out `LoopLeave`, `CloseOut`, `Release` and `SignalDone`, the order of the
deferred functions. `consecutiveFailures` belongs to the watcher as in the code;
`streak` is a history variable that counts per run. `dropOnFull` is chosen in
`Init` and both branches of the full channel are modelled. `Stop` is `StopLock`,
`StopCancel` and `StopWait`.

### WorkerPool

Contexts and tickers belong to a start, the queue `workCh` and the wait group
(`Live`) to the pool. A worker whose context is done may still take a task, since
its `select` picks any ready branch, and then drops it before it runs. `Submit`
reads the context under the lock (`SubmitRead`) and sends after it
(`SubmitSend`). `StopWait` and `StopWake` are the two ends of `wg.Wait`; a waiter
that wakes while the group is in use again panics, as `sync.WaitGroup` does.

### EventBus

A partition is a sequence of records. `Publish` puts a record into the client's
buffer of the partition of its key, or finds it full and reports it through the
callback only. `Deliver` appends the head of a buffer to the log or fails it.
The consumer loop is `Fetch`, then `Skip` for a malformed record or `Write`, then
`Commit`; `Write` may fail and end the loop, `Commit` may fail before or after it
took effect, `Crash` and `Rebalance` may come between any two. `position` is what
a reader has handed out, `committed` what the group has committed: after a
rebalance or a new reader the position begins at the committed offset.
`RestartAfterWriteError` says whether `Start` is called again on a consumer whose
last write failed, on a reader that has already handed the record out.

### LoadRamp, ServiceGraph, CapacityAnalysis, CapacityReport, Analyses

All but the last are operators named like the functions of the code. Integers of
a plan wrap at `MaxInt`. A graph is its services and, for each pair, the number
of edges: every edge `BuildGraph` adds has a count and a frequency of one. The
breadth-first queue is modelled level by level. Ratios, averages and scores are
kept as fractions and compared by cross-multiplying.

`Analyses` makes behaviours of them: `subject` chooses what a behaviour is about;
a plan is chosen in `Init` and run by `RunStep`, `RunTimer` and `RunCancelled`, with
a handler that may fail; `QueryService` is one round of `BuildGraph`'s loop,
with any traces of the service as the answer, and `QueryFails` ends it without a
graph; `SaveObservation` adds a row. The properties are then asked of every
run, of every reachable graph and of every history, and `RedundancyIsolatesNobody` compares
the results before and after a step.

### ExperimentRepository, RestApi

A request is a client's `pc` and target; a handler is one action per statement,
and each statement may fail, before or after its commit, within `MaxFaults`.
`Verify` is the look at the row that four handlers begin with. `answer` is the
status code the last step sent; `told`, `shown` and `won` are history variables:
the row and the newest observation a reader was last shown, and the start
requests answered with RUNNING. A failure is told from its text by
`handleServiceError`, so one whose text contains "invalid" becomes a 400.

The requests are the manager's, statement by statement. Of the runs this module
has what `ExperimentLifecycle` allows them: a registered run moves its row along
the matrix, stores observations and the report, and ends. Snapshots are stored
with any timestamp up to now, because loops of the shared watcher overlap.

## Runs

| run | instance | shows |
|---|---|---|
| `manager` | 1 start with 1 stop, 2 faults and 1 shutdown or restart in any order; 2 starts of 1 experiment (one with a refused plan), with 2 faults, or with 1 stop and 1 shutdown or restart; or 1 start of each of 2 experiments | `TypeOK`, `OneRunPerExperiment`, `TrafficStoppedBeforeAnalysis`, `StrandedRowCanBeStopped`, `WatcherServesRecovery`, `LifecycleImplemented` |
| `manager_liveness` | 1 run, 1 stop, 2 faults, fair | `CancelledRunFinishes`, `CancelledTrafficEnds`, and `AcceptedStopTerminates`: an accepted stop ends the experiment unless a database operation failed |
| `engine` | 2 runs, threshold 2, 3 answers, 1 storage fault, both wirings, fair | `TypeOK`, `FailSafe`, `BreachIsEarned`, `EngineImplementsSlot`, `OutageEndsTraffic` |
| `stream` | 2 runs, 2 stoppers, a channel of 1, threshold 2, fair | `StopWaitsForTheLoop`, `BreachNeedsOwnErrors`, `StreamImplementsSlot`, `StopReturns`, `SlotIsFreed` |
| `pool` | 2 starts, 2 stops, 2 tasks, 1 worker per start, fair | `StopLeavesNoWorker`, `WorkersBelongToThePool`, `TaskInOnePlace`, `StopReturns`, `AcceptedTaskRuns` |
| `bus` | 3 events (one malformed), 2 partitions, 2 consumers, 2 faults, fair | `CommittedIsAudited`, `NoOvertaking`, `PublishedIsAudited` |
| `analyses` | 4-bit plans, 6 traces over 4 services, 4 observations | the properties of `Analyses` |
| `api` | 1 experiment, 3 clients, 2 ticks of the clock, 2 observations, 1 fault, restarts | `StartWinsOnce`, `AnswersNeverContradict`, `StatusGoesForward` |
| `claim_monitored`, `claim_aborted`, `claim_audit`, `claim_badge` | small instances | each ends in a counterexample to a documented statement (see Findings) |

Bounds.

* Manager. Two start requests are the smallest race for one `activeRuns` entry
  and the smallest sharing of the engines; a third would repeat a role one of
  the two already plays. Two faults are needed for the deepest failure found (a
  failing statement that ends a run and another that lets a second run overtake
  it): with one fault `TrafficStoppedBeforeAnalysis` would hold without its
  exception. One restart suffices because a restart resets everything but the
  rows. Everything at once is too much for a run of minutes, so the constraint
  `Scenarios` of `MCExperimentManager` keeps to three kinds of behaviour. One
  start request may meet failing statements, the stop request and the restart in
  any combination. Two start requests of one experiment meet failing statements
  while nothing stops or restarts, or the stop request and the restart while
  nothing fails. A start request of another experiment, with nothing else, meets
  the first run on its way out: stopping the shared engines, recovering, or
  failing. The proofs have no such bound.
* Engine. Two runs are an old loop and a new one. With two failures to the
  threshold a count can be reset, or completed, in the middle. The policies
  differ in the one limit that catches the sentinel; the answers are a healthy
  or empty target, a breach that only the second queries see, and a failure.
* Watcher. Two runs are a predecessor and a successor, two stoppers the race for
  one run. Two failures reach the threshold. One place makes the channel full
  after one snapshot. `ImmediatePoll` is off, since the loop with it is the one
  without it, begun with a tick.
* Pool. As above; one worker per start leaves two workers of two starts at once,
  and the queue full after one task. Only the first start's caller may cancel.
* Bus. Two valid events are an order, the malformed one exercises `Skip`. They
  have one key, so that order matters, and a partition more than the key needs
  lets a mutated `Publish` scatter them. A buffer of one overflows. Two faults
  put, for instance, a crash behind a failed commit.
* API. Two clients race for one start, one of them also creates and stops, and a
  third reads. Two times and two observations can be stored in the wrong order.
  One fault lets a statement commit and answer with an error. The `VIEW` leaves
  out `answer`, which no guard reads.
* Analyses. In four bits the largest plans wrap as they do in 64, and every plan
  with fields from -1 to the largest integer is tried. The traces build a
  diamond, a cycle, an orphan, an unnamed service and duplicated calls. Two
  policies, one with two of its limits off. The rows hold rates 0 to 3 and one
  that rounds to zero while it is not, with values on both sides of each limit
  and exactly at it. Four rows suffice for three at a limit whose average is
  rounded up, in latency (`SomeRounding`) or in errors.

Deadlock checking is off everywhere: a system in which every request has been
answered and every run has finished stops, and so does a computation.

Fairness. `FairSpec` assumes weak fairness of every goroutine that has been
started, since the Go scheduler runs whatever can run, and nothing of clients,
metrics, consumers of a channel, or the process staying up: nobody need call
Start, Submit, Stop or Publish. Three refinements of this:

* `LoopLeave` of the metric watcher is strongly fair. The loop selects between a
  tick and its cancelled context again and again, and `select` picks uniformly
  among ready branches, so it does not miss the context forever. A query in
  between disables the step, which is why weak fairness would not do.
* The loop of the watcher engine likewise. A query of it is fair only when its
  context is cancelled: it has no deadline, and `OutageEndsTraffic` says what
  holds if Prometheus answers at all.
* A `select` of the manager and of a pool's worker gets no such assumption: each
  worker as a whole is weakly fair, and its properties hold whichever branch it
  takes, for there are finitely many tasks.

The client library delivers what it has buffered (`Deliver` is weakly fair and may
deliver or report a failure).

The exception in `TrafficStoppedBeforeAnalysis`: a goroutine that failed and was
preempted between `startErrs <- err` and `cancelStress()` leaves its contexts
live while `finishExperiment`, woken by the error, stops the engines, aborts and
releases the experiment. If the abort's update fails as well, a second start
request that was already past its check can run the experiment to ANALYZING
before the goroutine is scheduled again.

What `StrandedRowCanBeStopped` allows also happens. With the database failing
once at the abort behind a failed engine, the row stays RUNNING, and a stop
request then takes it for an orphan and aborts it. With the update to REPORTING
and the abort behind it both failing, the row says ANALYZING for good: no
request moves it, the process would have to. A process that exits leaves any
row; of those only RUNNING and STOPPING ones can be stopped in the next one.

## Findings

Four statements of documents or comments do not hold of the code. Each has a run
that ends in a counterexample, and `PROJECT.json` quotes the statement.

* `claim_monitored`: a run started in another experiment's recovery window gets
  no poll loop of its own and ends up unmonitored when the other run stops the
  shared watcher.
* `claim_aborted`: a stop request that looked up `activeRuns` before a start
  request registered takes its RUNNING row for an orphan and aborts it while the
  traffic goes on.
* `claim_audit`: a consumer started again after a failed write reads on behind
  the lost record, and the next commit covers it. The `bus` run therefore sets
  `RestartAfterWriteError` to FALSE: its promises are those of a consumer that is
  thrown away after a failed write.
* `claim_badge`: without a breach the safety boundary is the sustainable rate, and
  the table of the report marks the rows at that rate as an SLA breach.

Other statements were seen to differ from the code by reading, or on the way to a
property that holds, and have no run:

* Watcher engine. Its `Stop` cancels and does not wait for its loop, whatever
  `evaluator.go:139` says. The comment at `evaluator.go:226` speaks of a huge
  latency in the sentinel; the code leaves it zero (`evaluator.go:248`). So a
  run whose limits on errors is 0 or 100 percent and whose limit on availability
  is 0, all of which `Validate` accepts, is not stopped by lost observability,
  against `evaluator.go:72` and `docs/LLD.md:837`. `CatchesLoss` names the other
  configurations, and `FailSafe` is about those.
* Manager. A failed engine start may be taken for a cancellation by the `select`
  at `manager.go:368`; `StopExperiment` refuses a PLANNED experiment, and cancels
  the traffic before the transition that may still refuse; `docs/LLD.md:795`
  wants the reason of a breach recorded, `docs/LLD.md:539` speaks of a plan that
  completes, and the stress engine never ends one by itself. `main` returns
  without waiting for the runs that `Shutdown` cancelled.
* Worker pool. A pool started again while a call of `Stop` waits can wake that
  call to a wait group in use, which panics (`docs/LLD.md:357` promises a graceful
  shutdown). `StopWake` has the panic.
* REST API. The status of an experiment shows a healthy baseline when its
  observations cannot be read; a failure of the database or of Jaeger whose text
  contains "invalid" is answered with 400; stopping an unknown experiment is a
  409; stopping an orphan answers STOPPING for a row that is ABORTED; a second
  stop loses its reason; a start whose first update fails after its commit leaves
  the experiment PLANNED for good; a create that is sent again because its
  answer was lost makes a second experiment. `Config.Validate` accepts a step
  duration that `LoadPlan.Validate` refuses later.
* Report. An availability below its limit in rows without load leads to no
  recommendation. `ReportHidesNoBreach` says that this is all a report can hide.

## Proofs

All theorems hold for any number of requests, runs, consumers, records and
faults, from the assumptions named in the modules alone.

`ExperimentManagerProofs`, from `RequestAssumption` and `BoundAssumption`:

* `TypeCorrect`. The inductive `TypeInv` adds `HandlerInv`: whoever can start or
  be a poll loop finds a handler set.
* `RunsAreExclusive`, by `RunInv`: inductive only with the fact that a run whose
  `finishExperiment` exists has returned from `StartExperiment`, so one goroutine
  at most can remove its entry.
* `ManagerImplementsLifecycle`, by `RowInv`, which ties the row to the program
  counters of the run that drives it: initial states map to initial states, and
  each step to a step of the lifecycle or a stutter.
  The stop reason is part of it: an update carries a reason that fits its target.
* `StrandedRowsCanBeStopped`, by `StageInv` and `DriveInv`. That a row without a run
  has failures behind it is not inductive: it has to be known that a row which
  goes on has a run that still drives it (`DriveInv`), and that a run gives up
  its row only by completing or aborting it. For the latter, `StageInv` ties
  each point of `finishExperiment` to the states its row may have there, so that
  without a failing statement a run comes to its abort only behind an abort by
  somebody else.
* `AnalysedRowHasNoTraffic`, by `SilenceInv`: a run past its second `select` has a
  closed `stressDone`, a cancelled context or a failure, and traffic needs a live
  context.
* `RecoveryIsObserved`, by `SpawnInv` and `ServeInv`. That the loop is alive in the
  recovery window is not inductive: it has to hold from the start of the watcher
  on, and its handler must be the run's own. `ServeInv` says so of a run that is
  `Alone`, the only one its process has had; `SpawnInv`, that nobody knows a run
  whose goroutines do not exist. Without `Alone` it is false (`claim_monitored`).

`WatcherEngineProofs`, from `EngineAssumption`:

* `TypeCorrect`, with `HandlerInv`: a loop exists only once a handler is wired,
  and a running engine has a current run.
* `EngineIsASlot`, by `SlotInv`: a loop that is not cancelled is the current one
  of a running engine. Steps map to steps of `PollSlot` or stutters.
* `BreachesAreEarned`, by `CountInv`: the shared counter equals the streak of
  every loop that is not disturbed. The invariant itself is about what a loop
  holds, and is not inductive without that.
* `OutageIsFailSafe`, by `AlarmInv`, which follows an outage through the steps of
  the loop: a full streak means that the loop holds the sentinel, that its run's
  own handler has it, or that the traffic is stopped. `SentinelStops` shows the
  verdict on the sentinel for every policy that `CatchesLoss`.

`MetricWatcherProofs`, from `WatcherAssumption`: `StreamIsASlot` (`SlotInv`: a
polling loop belongs to `currentRun`; `LeavingInv`: a
loop on its way out has its context cancelled), `StopReallyWaits` (`StopInv`, with the
fact that a loop that is done stays done), `BreachesAreOwn` (while a run goes on,
the shared counter equals its own streak).

`WorkerPoolProofs`, from `PoolAssumption`: `TypeCorrect`, `StopWaitsForWorkers`
and `NoStrayWorkers`, by `PoolInv`: a live worker belongs to the current start or
to one that a call of Stop is still busy with. `NoTaskTwice`, by `TaskInv`: the queue,
the hands of the workers and the executed tasks are disjoint (`Apart`), and
nothing gets into them that was not accepted. `NoTaskLost` is the other half, an
action property: a task leaves the pool executed or dropped by a worker whose
context is done. `TypeCorrect` here and in
`EventBusProofs` proves the type invariant, which the runs need not check again.

`EventBusProofs`, from `BusAssumption`, the last two under
`RestartAfterWriteError = FALSE`:

* `TypeCorrect`.
* `CommitsFollowTheAudit`, by `AuditInv`. What is committed is ready (audited or
  malformed) is not inductive: a reader's position is ahead of it. The invariant
  adds that everything an intact reader handed out is ready, except the record
  its loop has in hand, and that the audit log has no gaps.
* `AuditKeepsTheOrder`, by `QueueInv`: the log of a partition and the buffer
  behind it are one queue, whose records appear in the order of `published`.

`RestApiProofs`, from `BoundAssumption`, for any number of clients, experiments and
faults. `BaseInv` holds the types, `ExistInv` (a handler past its look at the row
is about an experiment that exists) and `TablesInv` (rows are coherent, no time
is ahead of the clock).

* `OneStartWins`, by `HoldInv` and `WinInv`. "At most one winner" is not inductive: a
  second request may be past its look at the row. It is the registration that
  stops it: as long as no statement failed, the run of a RUNNING experiment is
  registered while any start request that began before it is pending.
* `AnswersAreConsistent`, by `PastInv`: every row a client was told is a past of the
  row stored now. "Past of" is transitive along the matrix, so two answers in a
  row agree.
* `StatusIsForward`, by `ShownInv`: what was shown is at most the newest
  observation stored.

`AnalysesProofs`, from `WidthAssumption`, `ServiceAssumption`, `RoundingAssumption` (the
average of one or two equal numbers is exact) and `InputAssumption` (the shape of
the inputs; traces and their spans are finite), proves all ten properties of
`Analyses`:

* `NextRateClimbs` and `DurationFits`: the arithmetic of an accepted plan does not
  wrap, whatever the width of an integer. `RampClimbs`: by induction over the
  steps the recursive function `StepRates` stays between the initial rate and the
  maximum and climbs until it is there, within `maxRate` steps; `RampInv` ties the
  run to it.
* `SustainableIsClean`, `BoundaryIsLowest`, `ReportIsHonest`: `CompliantIsClean` is the
  heart of each. A tier compares its averages and its minimum. A compliant one has
  clean rows only; one whose rows are all clean is compliant unless an average is
  rounded above a limit. A sum of numbers that are at most a limit is at most that
  limit times their count (`SumBound`, an induction over finite sets), with
  equality only if each of them is the limit (`SumAtBound`), so that exception
  needs at least three rows exactly at a limit (`AtLimit`). `NormalAdvice` then
  goes through the recommendations.
* `RecoveryIsObjective`: scaled to the baseline's unit, a row breaches the policy
  exactly if it is above the threshold, so both functions take the distance
  between the same two timestamps.
* `DegradationIsInside`: `TiersAreSorted` shows that the tiers are those of all
  rates in rising order, `SlopeOfTiers` that every slope has a positive denominator.
* `DepthsAreShortest`, `IsolationNests`, `RedundancyIsolatesNone`, by `GraphInv`. `LevelsProperties`
  is an induction over the levels of the search: a service is in one level at
  most, behind a caller in the level before, and the last level is empty, since
  each level before it adds a service. Hence `ReachableIsLeast`: what is reached is
  the least set that contains the roots and is closed under calls. The theorems
  about removals argue about that set only. `RedundancyIsolatesNone` needs
  also that adding traces never removes a call, in whatever order a query's
  traces are folded in (`QueryGrows`).
* `ScoresAreBounded`: no metric exceeds the largest one, and products grow with
  their factors.

`InductionLemmas` states induction as a fact about sets, because the library's
theorems about predicates cannot be instantiated by the provers: the natural
numbers are well-founded, so a set of them has a least element, and so is the
strict subset relation on the subsets of a finite set. From that follow
induction, the existence of the recursive functions the models define, and what
the library's folds and sums compute.

All safety invariants and safety action properties of the passing runs are thus
proved. Only TLC checks what the provers cannot state: the liveness properties,
which rest on fairness and ENABLED, among them the fairness of `Leave` in the
engine's refinement of `PollSlot` (`EngineIsASlot` proves its safety part). The four claims are refuted by runs.

## Abstractions

Observations have distinct timestamps, since the code's sort leaves the order of
equal ones open. Floats are fractions, with one exception. The analyzer compares
float64 averages with limits (`analyzer.go:101`, `analyzer.go:168`), and an average
of equal numbers may come out above them: three error rates of 0.1 average to
0.10000000000000002, and a tier of three clean rows at a limit of 0.1 is not
compliant. `RoundedUp` says for which number of rows at which limit that happens;
it is a constant, so the theorems hold whatever the rounding does there. Values
that differ at all are taken to differ by far more than a rounding error, so that
nothing else is rounded across a limit. So "highest rate meeting all SLA criteria" (`docs/LLD.md:421`)
may be missed for a rate that stands exactly at a limit, and
`SustainableRateIsClean`, `BoundaryIsLowestBreach` and the marker of
`ReportHidesNoBreach` name this case; it is a false alarm, never a hidden breach.
The slopes of the knee are computed from the same averages and compared exactly
here, so that a flat latency may look like a rise in the code is left out, and so
are the rounding of a threshold to nine digits and of a score to two. Strings (names, reasons, messages, SQL) are left
out or model values. `Services` contains `Unnamed`, the empty name `BuildGraph`
gives to a span without a process: the single-point-of-failure search excludes it
by its use of the empty string for "no exclusion".

## Not modelled, and the plan

See the components of `PROJECT.json` for each reason. Next, in this order:

1. `Topics`: `EnsureTopics` racing another process, with the errors per topic.
2. `GetDependencies` and `GetServices` of the REST API, on the graph's model.
3. The service scores, if a caller for them is added.

The dashboard, the probes of the observability checker, migrations and the
offline simulation script stay outside: rendering, I/O and data.
