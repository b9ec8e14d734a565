-------------------------- MODULE ExperimentManager --------------------------
(***************************************************************************)
(* The experiment manager (internal/experiment/manager.go), the core of    *)
(* the control plane, with the two engines it drives as it sees them: the  *)
(* one stress engine and the one watcher engine of the process, shared by  *)
(* every experiment.                                                       *)
(*                                                                         *)
(* A run is named by the start request that creates it.  Each run has a    *)
(* request goroutine (StartExperiment), a stress goroutine, a goroutine    *)
(* that calls watcher.Start, possibly a poll loop, and a finishExperiment  *)
(* goroutine.  One action is one critical section, one database statement, *)
(* one context cancellation or one channel operation of one goroutine.     *)
(***************************************************************************)
EXTENDS ExperimentState, Naturals

CONSTANTS
  Experiments,   \* experiment ids, all created with POST /api/experiments
  Requests,      \* start requests, hence possible runs
  Target,        \* the experiment each start request names
  Overrated,     \* the requests whose plan has InitialRate > 1e9
  Stops,         \* stop requests
  StopTarget,    \* the experiment each stop request names
  Recovering,    \* the experiments with RecoveryWindowSec > 0
  NoRun,
  MaxFaults,     \* bound: failing database or reporting operations
  MaxRestarts    \* bound: process exits, each followed by a new process

ASSUME RequestAssumption ==
  /\ Target \in [Requests -> Experiments]
  /\ StopTarget \in [Stops -> Experiments]
  /\ NoRun \notin Requests
  /\ Overrated \subseteq Requests
  /\ Recovering \subseteq Experiments

ASSUME BoundAssumption == MaxFaults \in Nat /\ MaxRestarts \in Nat

VARIABLES
  \* PostgreSQL: survives a restart
  state, stopReason, report,
  \* Manager
  activeRuns, process,
  \* StartExperiment and the contexts, channel and sync.Onces it creates
  startPc, expCancelled, stressCancelled, failure, startErrs, stopOnce,
  \* stress goroutine and stress engine
  stressPc, engineRun, engineStopped,
  \* watcher goroutine, watcher engine, poll loops
  watchPc, watcherLoop, handlerRun,
  loopPc, loopStopped, loopHandler,
  \* finishExperiment, StopExperiment
  finishPc, stopPc,
  \* how much of the bounds is used
  faults, restarts

rowVars     == << state, stopReason, report >>
contextVars == << expCancelled, stressCancelled, failure, startErrs, stopOnce >>
stressVars  == << stressPc, engineRun, engineStopped >>
engineVars  == << watcherLoop, handlerRun, loopStopped >>
watchVars   == << watchPc, loopPc, loopHandler, engineVars >>
managerVars == << activeRuns, process >>
vars == << rowVars, managerVars, startPc, contextVars, stressVars, watchVars,
           finishPc, stopPc, faults, restarts >>

StartPcs == { "idle", "plan", "graph", "register", "run", "unregister",
              "spawn", "returned" }
FinishPcs == { "none", "outer", "inner",
               "failWatcher", "failStress", "failAbort",
               "stopStress", "check", "toStopping", "recover",
               "shutdownAbort", "shutdownWatcher",
               "stopWatcher", "toAnalyzing", "observe", "toReporting",
               "generate", "saveReport", "toCompleted", "abort",
               "unregister", "cancel", "done" }
StopPcs == { "idle", "transition", "orphan", "abort", "ok", "err" }
Reasons == { "", "user", "failure", "shutdown" }

(***************************************************************************)
(* Contexts.  stressCtx is a child of expCtx, a child of shutdownCtx.      *)
(***************************************************************************)
ExpDone(r)    == process = "shutdown" \/ r \in expCancelled
StressDone(r) == ExpDone(r) \/ r \in stressCancelled

\* The stress goroutine closed stressDone: after a cancelled or a failed Start.
StressClosed(r) == stressPc[r] \in { "closed", "failed" }

\* The engine is sending requests to the target for run r.
Traffic(r) == engineRun = r /\ r \notin engineStopped /\ ~StressDone(r)

(***************************************************************************)
(* Database statements.  A failing statement uses one of MaxFaults: a lost *)
(* connection, a time-out, or the request context of a client that hung    *)
(* up.  The statement may have committed before its answer was lost.       *)
(***************************************************************************)
Fault == faults < MaxFaults /\ faults' = faults + 1

UpdateState(e, target, reason) ==
  /\ state' = [state EXCEPT ![e] = target]
  /\ stopReason' = IF reason = "" THEN stopReason
                                  ELSE [stopReason EXCEPT ![e] = reason]

\* Mutant of TransitionOk: the update is stored without ValidateTransition.
TransitionUnchecked(e, target, reason) ==
  UpdateState(e, target, reason) /\ UNCHANGED << report, faults >>

\* transitionState returns nil: already there, or a legal and stored update.
TransitionOk(e, target, reason) ==
  /\ \/ state[e] = target /\ UNCHANGED << state, stopReason >>
     \/ CanTransition(state[e], target) /\ UpdateState(e, target, reason)
  /\ UNCHANGED << report, faults >>

\* transitionState returns an error: an illegal move, or a failing statement.
TransitionErr(e, target, reason) ==
  /\ \/ /\ state[e] # target
        /\ ~CanTransition(state[e], target)
        /\ UNCHANGED << state, stopReason, faults >>
     \/ Fault /\ UNCHANGED << state, stopReason >>
     \/ Fault /\ CanTransition(state[e], target) /\ UpdateState(e, target, reason)
  /\ UNCHANGED report

\* `_ = m.transitionState(ctx, id, StateAborted, reason)`: any error is dropped.
abortExperiment(e, reason) ==
  TransitionOk(e, "ABORTED", reason) \/ TransitionErr(e, "ABORTED", reason)

Read    == UNCHANGED << rowVars, faults >>
ReadErr == Fault /\ UNCHANGED rowVars

(***************************************************************************)
(* signalFailure: failureOnce keeps the first failure, whose signaller     *)
(* sends it to the buffered channel and then cancels both contexts.  A     *)
(* second caller waits in Once.Do while the first is between the two.      *)
(***************************************************************************)
Signal(r) ==
  /\ failure[r] # "sent"
  /\ IF failure[r] = "none"
     THEN /\ failure' = [failure EXCEPT ![r] = "sent"]
          /\ startErrs' = startErrs \union {r}
     ELSE UNCHANGED << failure, startErrs >>

SignalCancel(r) ==
  /\ failure[r] = "sent"
  /\ failure' = [failure EXCEPT ![r] = "done"]
  /\ stressCancelled' = stressCancelled \union {r}
  /\ expCancelled' = expCancelled \union {r}
  /\ UNCHANGED << rowVars, managerVars, startPc, startErrs, stopOnce, stressVars,
                  watchVars, finishPc, stopPc, faults, restarts >>

(***************************************************************************)
(* StartExperiment: the goroutine of the request.                          *)
(***************************************************************************)
StartStep(r, from, to) ==
  /\ startPc[r] = from
  /\ startPc' = [startPc EXCEPT ![r] = to]
  /\ UNCHANGED << process, failure, startErrs, stopOnce, stressCancelled, engineRun,
                  engineStopped, loopPc, loopHandler, watcherLoop,
                  loopStopped, stopPc, restarts >>

NoSpawn == UNCHANGED << stressPc, watchPc, handlerRun, finishPc >>

\* GetByID and the check for CREATED; the handler's own check is the same.
StartRead(r) ==
  /\ \/ state[Target[r]] = "CREATED" /\ StartStep(r, "idle", "plan") /\ Read
     \/ state[Target[r]] # "CREATED" /\ StartStep(r, "idle", "returned") /\ Read
     \/ StartStep(r, "idle", "returned") /\ ReadErr
  /\ NoSpawn /\ UNCHANGED << activeRuns, expCancelled >>

StartPlan(r) ==
  /\ \/ StartStep(r, "plan", "graph") /\ TransitionOk(Target[r], "PLANNED", "")
     \/ StartStep(r, "plan", "returned") /\ TransitionErr(Target[r], "PLANNED", "")
  /\ NoSpawn /\ UNCHANGED << activeRuns, expCancelled >>

\* BuildGraph asks Jaeger and may fail, which aborts whatever the state is now.
StartGraph(r) ==
  /\ \/ StartStep(r, "graph", "register") /\ Read
     \/ StartStep(r, "graph", "returned") /\ abortExperiment(Target[r], "failure")
  /\ NoSpawn /\ UNCHANGED << activeRuns, expCancelled >>

\* Mutant of StartRegister: no look at the entry that is already there.
StartRegisterUnchecked(r) ==
  /\ StartStep(r, "register", "run")
  /\ activeRuns' = [activeRuns EXCEPT ![Target[r]] = r]
  /\ Read /\ NoSpawn /\ UNCHANGED expCancelled

StartRegister(r) ==
  /\ IF activeRuns[Target[r]] = NoRun
     THEN /\ StartStep(r, "register", "run")
          /\ activeRuns' = [activeRuns EXCEPT ![Target[r]] = r]
          /\ UNCHANGED expCancelled
     ELSE /\ StartStep(r, "register", "returned")
          /\ expCancelled' = expCancelled \union {r}
          /\ UNCHANGED activeRuns
  /\ Read /\ NoSpawn

StartRun(r) ==
  /\ \/ /\ StartStep(r, "run", "spawn")
        /\ TransitionOk(Target[r], "RUNNING", "")
        /\ UNCHANGED expCancelled
     \/ /\ StartStep(r, "run", "unregister")
        /\ TransitionErr(Target[r], "RUNNING", "")
        /\ expCancelled' = expCancelled \union {r}
  /\ NoSpawn /\ UNCHANGED activeRuns

StartUnregister(r) ==
  /\ StartStep(r, "unregister", "returned")
  /\ activeRuns' = [activeRuns EXCEPT ![Target[r]] = NoRun]
  /\ Read /\ NoSpawn /\ UNCHANGED expCancelled

\* SetSnapshotHandler replaces the handler of the shared watcher; then the
\* three goroutines of the run are created and the request returns.
StartSpawn(r) ==
  /\ StartStep(r, "spawn", "returned")
  /\ handlerRun' = r
  /\ watchPc' = [watchPc EXCEPT ![r] = "spawned"]
  /\ stressPc' = [stressPc EXCEPT ![r] = "spawned"]
  /\ finishPc' = [finishPc EXCEPT ![r] = "outer"]
  /\ Read /\ UNCHANGED << activeRuns, expCancelled >>

Start(r) ==
  \/ StartRead(r) \/ StartPlan(r) \/ StartGraph(r) \/ StartRegister(r)
  \/ StartRun(r) \/ StartUnregister(r) \/ StartSpawn(r)

(***************************************************************************)
(* The stress goroutine around stressEngine.Start.                         *)
(***************************************************************************)
StressFrame ==
  UNCHANGED << rowVars, managerVars, startPc, expCancelled, stressCancelled,
               stopOnce, watchVars, finishPc, stopPc, faults, restarts >>

StressStart(r) ==
  /\ stressPc[r] = "spawned"
  /\ IF r \notin Overrated /\ engineRun = NoRun
     THEN /\ engineRun' = r
          /\ stressPc' = [stressPc EXCEPT ![r] = "running"]
          /\ UNCHANGED << failure, startErrs >>
     ELSE /\ Signal(r)
          /\ stressPc' = [stressPc EXCEPT ![r] = "failing"]
          /\ UNCHANGED engineRun
  /\ UNCHANGED engineStopped /\ StressFrame

\* Mutants of StressExit: stressDone is not closed; ctx.Done is not selected.
StressExitOpen(r) ==
  /\ stressPc[r] = "running" /\ (StressDone(r) \/ r \in engineStopped)
  /\ engineRun' = NoRun
  /\ UNCHANGED << stressPc, engineStopped, failure, startErrs >> /\ StressFrame

StressExitOnStop(r) ==
  /\ stressPc[r] = "running" /\ r \in engineStopped
  /\ engineRun' = NoRun
  /\ stressPc' = [stressPc EXCEPT ![r] = "closed"]
  /\ UNCHANGED << engineStopped, failure, startErrs >> /\ StressFrame

\* The dispatch loop has no end of its own: it leaves only when cancelled, by
\* its context or by Stop, and Start returns context.Canceled.
StressExit(r) ==
  /\ stressPc[r] = "running"
  /\ StressDone(r) \/ r \in engineStopped
  /\ engineRun' = NoRun
  /\ stressPc' = [stressPc EXCEPT ![r] = "closed"]
  /\ UNCHANGED << engineStopped, failure, startErrs >>
  /\ StressFrame

\* signalFailure has returned to the goroutine, which closes stressDone.
StressFail(r) ==
  /\ stressPc[r] = "failing"
  /\ failure[r] = "done"
  /\ stressPc' = [stressPc EXCEPT ![r] = "failed"]
  /\ UNCHANGED << engineRun, engineStopped, failure, startErrs >>
  /\ StressFrame

\* stressEngine.Stop cancels whichever run the engine is executing.
StressStop ==
  /\ engineStopped' = engineStopped \union ({engineRun} \ {NoRun})
  /\ UNCHANGED << stressPc, engineRun >>

(***************************************************************************)
(* The watcher goroutine, the watcher engine and its poll loops.           *)
(***************************************************************************)
\* Start is a no-op on a running engine.  watcherLoop is the loop that e.cancel
\* ends, NoRun while `running` is false; Stop alone resets it.
WatchStart(r) ==
  /\ watchPc[r] = "spawned"
  /\ watchPc' = [watchPc EXCEPT ![r] = "returned"]
  /\ IF watcherLoop # NoRun
     THEN UNCHANGED << watcherLoop, loopPc >>
     ELSE /\ watcherLoop' = r
          /\ loopPc' = [loopPc EXCEPT ![r] = "wait"]
  /\ UNCHANGED << rowVars, managerVars, startPc, contextVars, stressVars, handlerRun,
                  loopStopped, loopHandler, finishPc, stopPc, faults, restarts >>

LoopFrame ==
  UNCHANGED << state, stopReason, report, managerVars, startPc, expCancelled,
               stressVars, watchPc, engineVars, finishPc, stopPc, restarts >>

\* A tick that produces a snapshot, real or synthetic: the loop copies the
\* handler under the lock and calls it after the unlock.
Poll(r) ==
  /\ loopPc[r] = "wait"
  /\ loopPc' = [loopPc EXCEPT ![r] = "save"]
  /\ loopHandler' = [loopHandler EXCEPT ![r] = handlerRun]
  /\ LoopFrame /\ UNCHANGED << stressCancelled, failure, startErrs, stopOnce, faults >>

SaveObservation(r) ==
  /\ loopPc[r] = "save"
  /\ \/ /\ ~ExpDone(loopHandler[r])
        /\ loopPc' = [loopPc EXCEPT ![r] = "evaluate"]
        /\ UNCHANGED << failure, startErrs, faults >>
     \/ /\ Fault \/ (ExpDone(loopHandler[r]) /\ UNCHANGED faults)
        /\ Signal(loopHandler[r])
        /\ loopPc' = [loopPc EXCEPT ![r] = "signal"]
  /\ LoopFrame /\ UNCHANGED << loopHandler, stressCancelled, stopOnce >>

\* The snapshot is evaluated only while the run's traffic context is live; a
\* breach cancels it once.
Evaluate(r) ==
  /\ loopPc[r] = "evaluate"
  /\ loopPc' = [loopPc EXCEPT ![r] = "wait"]
  /\ \/ UNCHANGED << stressCancelled, stopOnce >>
     \/ /\ ~StressDone(loopHandler[r])
        /\ stopOnce' = stopOnce \union { loopHandler[r] }
        /\ stressCancelled' = stressCancelled \union
             (IF loopHandler[r] \in stopOnce THEN {} ELSE { loopHandler[r] })
  /\ LoopFrame /\ UNCHANGED << loopHandler, failure, startErrs, faults >>

LoopSignalled(r) ==
  /\ loopPc[r] = "signal"
  /\ failure[loopHandler[r]] = "done"
  /\ loopPc' = [loopPc EXCEPT ![r] = "wait"]
  /\ LoopFrame
  /\ UNCHANGED << loopHandler, stressCancelled, failure, startErrs, stopOnce, faults >>

LoopExit(r) ==
  /\ loopPc[r] = "wait"
  /\ r \in loopStopped \/ ExpDone(r)
  /\ loopPc' = [loopPc EXCEPT ![r] = "exited"]
  /\ LoopFrame
  /\ UNCHANGED << loopHandler, stressCancelled, failure, startErrs, stopOnce, faults >>

Loop(r) ==
  Poll(r) \/ SaveObservation(r) \/ Evaluate(r) \/ LoopSignalled(r) \/ LoopExit(r)

\* Mutant of WatcherStop: e.cancel is called without the test of running.
WatcherStopUnchecked ==
  /\ watcherLoop' = NoRun
  /\ loopStopped' = loopStopped \union { watcherLoop }
  /\ UNCHANGED handlerRun

\* watcher.Stop cancels the loop the engine started last, without waiting.
WatcherStop ==
  /\ watcherLoop' = NoRun
  /\ loopStopped' = loopStopped \union ({watcherLoop} \ {NoRun})
  /\ UNCHANGED handlerRun

(***************************************************************************)
(* finishExperiment.                                                       *)
(***************************************************************************)
FinishStep(r, from, to) ==
  /\ finishPc[r] = from
  /\ finishPc' = [finishPc EXCEPT ![r] = to]
  /\ UNCHANGED << process, startPc, failure, stressCancelled, stopOnce, stopPc,
                  watchPc, loopPc, loopHandler, restarts >>

NoEngine == UNCHANGED << stressVars, engineVars >>
Local    == UNCHANGED << activeRuns, expCancelled, startErrs >>

TakeErr(r) == r \in startErrs /\ startErrs' = startErrs \ {r}

\* The first select does not wait.
FinishOuter(r) ==
  /\ \/ FinishStep(r, "outer", "failWatcher") /\ TakeErr(r)
     \/ FinishStep(r, "outer", "inner") /\ r \notin startErrs /\ UNCHANGED startErrs
  /\ Read /\ NoEngine /\ UNCHANGED << activeRuns, expCancelled >>

\* Mutant of FinishInner: the second select has a default branch as well.
FinishInnerPolls(r) ==
  /\ \/ FinishStep(r, "inner", "failWatcher") /\ TakeErr(r)
     \/ FinishStep(r, "inner", "stopStress") /\ UNCHANGED startErrs
  /\ Read /\ NoEngine /\ UNCHANGED << activeRuns, expCancelled >>

\* The second one waits, and takes any ready branch.
FinishInner(r) ==
  /\ \/ FinishStep(r, "inner", "failWatcher") /\ TakeErr(r)
     \/ /\ FinishStep(r, "inner", "stopStress")
        /\ StressClosed(r) \/ ExpDone(r)
        /\ UNCHANGED startErrs
  /\ Read /\ NoEngine /\ UNCHANGED << activeRuns, expCancelled >>

\* Mutant of FinishEngines: both engines are stopped before the recovery window.
FinishEnginesEarly(r) ==
  /\ \/ FinishStep(r, "failWatcher", "failStress") /\ WatcherStop /\ UNCHANGED stressVars
     \/ FinishStep(r, "failStress", "failAbort") /\ StressStop /\ UNCHANGED engineVars
     \/ FinishStep(r, "stopStress", "check") /\ StressStop /\ WatcherStop
     \/ FinishStep(r, "stopWatcher", "toAnalyzing") /\ NoEngine
     \/ FinishStep(r, "shutdownWatcher", "unregister") /\ NoEngine
  /\ Read /\ Local

FinishEngines(r) ==
  /\ \/ FinishStep(r, "failWatcher", "failStress") /\ WatcherStop /\ UNCHANGED stressVars
     \/ FinishStep(r, "failStress", "failAbort") /\ StressStop /\ UNCHANGED engineVars
     \/ FinishStep(r, "stopStress", "check") /\ StressStop /\ UNCHANGED engineVars
     \/ FinishStep(r, "stopWatcher", "toAnalyzing") /\ WatcherStop /\ UNCHANGED stressVars
     \/ FinishStep(r, "shutdownWatcher", "unregister") /\ WatcherStop /\ UNCHANGED stressVars
  /\ Read /\ Local

FinishCheck(r) ==
  /\ \/ FinishStep(r, "check", "recover") /\ state[Target[r]] = "STOPPING" /\ Read
     \/ FinishStep(r, "check", "toStopping") /\ state[Target[r]] # "STOPPING" /\ Read
     \/ FinishStep(r, "check", "abort") /\ ReadErr
  /\ Local /\ NoEngine

\* The timer races with the shutdown of the manager; without a recovery
\* window neither is looked at.
FinishRecover(r) ==
  /\ \/ FinishStep(r, "recover", "stopWatcher")
     \/ /\ FinishStep(r, "recover", "shutdownAbort")
        /\ Target[r] \in Recovering /\ process = "shutdown"
  /\ Read /\ Local /\ NoEngine

\* Mutant of FinishTransition: the failed update is returned without the abort.
FinishTransitionReturns(r, from, target, to) ==
  \/ FinishStep(r, from, to) /\ TransitionOk(Target[r], target, "")
  \/ FinishStep(r, from, "unregister") /\ TransitionErr(Target[r], target, "")

FinishTransition(r, from, target, to) ==
  \/ FinishStep(r, from, to) /\ TransitionOk(Target[r], target, "")
  \/ FinishStep(r, from, "abort") /\ TransitionErr(Target[r], target, "")

FinishMove(r) ==
  /\ \/ FinishTransition(r, "toStopping", "STOPPING", "recover")
     \/ FinishTransition(r, "toAnalyzing", "ANALYZING", "observe")
     \/ FinishTransition(r, "toReporting", "REPORTING", "generate")
     \/ FinishTransition(r, "toCompleted", "COMPLETED", "unregister")
  /\ Local /\ NoEngine

\* GetObservations and the analysis, then Generate, then the report upsert.
FinishReport(r) ==
  /\ \/ FinishStep(r, "observe", "toReporting") /\ Read
     \/ FinishStep(r, "generate", "saveReport") /\ Read
     \/ /\ FinishStep(r, "saveReport", "toCompleted")
        /\ report' = report \union { Target[r] }
        /\ UNCHANGED << state, stopReason, faults >>
     \/ /\ \E from \in { "observe", "generate", "saveReport" } :
             FinishStep(r, from, "abort")
        /\ ReadErr
     \/ /\ FinishStep(r, "saveReport", "abort")
        /\ report' = report \union { Target[r] }
        /\ Fault /\ UNCHANGED << state, stopReason >>
  /\ Local /\ NoEngine

FinishAbort(r) ==
  /\ \/ /\ \E from \in { "failAbort", "abort" } : FinishStep(r, from, "unregister")
        /\ abortExperiment(Target[r], "failure")
     \/ /\ FinishStep(r, "shutdownAbort", "shutdownWatcher")
        /\ abortExperiment(Target[r], "shutdown")
  /\ Local /\ NoEngine

\* The deferred calls: removeActiveRun, then cancelExp.
FinishUnregister(r) ==
  /\ FinishStep(r, "unregister", "cancel")
  /\ activeRuns' = [activeRuns EXCEPT ![Target[r]] = NoRun]
  /\ Read /\ NoEngine /\ UNCHANGED << expCancelled, startErrs >>

FinishCancel(r) ==
  /\ FinishStep(r, "cancel", "done")
  /\ expCancelled' = expCancelled \union {r}
  /\ Read /\ NoEngine /\ UNCHANGED << activeRuns, startErrs >>

Finish(r) ==
  \/ FinishOuter(r) \/ FinishInner(r) \/ FinishEngines(r) \/ FinishCheck(r)
  \/ FinishRecover(r) \/ FinishMove(r) \/ FinishReport(r) \/ FinishAbort(r)
  \/ FinishUnregister(r) \/ FinishCancel(r)

(***************************************************************************)
(* StopExperiment: the goroutine of the request.                           *)
(***************************************************************************)
StopStep(s, from, to) ==
  /\ stopPc[s] = from
  /\ stopPc' = [stopPc EXCEPT ![s] = to]
  /\ UNCHANGED << managerVars, startPc, expCancelled, failure, startErrs, stopOnce,
                  stressVars, watchVars, finishPc, restarts >>

\* Mutant of StopLookup: the traffic of the run is not cancelled.
StopLookupOnly(s) ==
  /\ IF activeRuns[StopTarget[s]] # NoRun THEN StopStep(s, "idle", "transition")
                                         ELSE StopStep(s, "idle", "orphan")
  /\ Read /\ UNCHANGED stressCancelled

StopLookup(s) ==
  LET run == activeRuns[StopTarget[s]] IN
  /\ \/ /\ run # NoRun
        /\ StopStep(s, "idle", "transition")
        /\ stressCancelled' = stressCancelled \union {run}
     \/ /\ run = NoRun
        /\ StopStep(s, "idle", "orphan")
        /\ UNCHANGED stressCancelled
  /\ Read

StopActive(s) ==
  /\ \/ StopStep(s, "transition", "ok") /\ TransitionOk(StopTarget[s], "STOPPING", "user")
     \/ StopStep(s, "transition", "err") /\ TransitionErr(StopTarget[s], "STOPPING", "user")
  /\ UNCHANGED stressCancelled

StopOrphan(s) ==
  LET orphaned == state[StopTarget[s]] \in { "RUNNING", "STOPPING" } IN
  /\ \/ StopStep(s, "orphan", "abort") /\ orphaned /\ Read
     \/ StopStep(s, "orphan", "err") /\ ~orphaned /\ Read
     \/ StopStep(s, "orphan", "err") /\ ReadErr
  /\ UNCHANGED stressCancelled

StopAbort(s) ==
  /\ \/ StopStep(s, "abort", "ok") /\ TransitionOk(StopTarget[s], "ABORTED", "user")
     \/ StopStep(s, "abort", "err") /\ TransitionErr(StopTarget[s], "ABORTED", "user")
  /\ UNCHANGED stressCancelled

Stop(s) == StopLookup(s) \/ StopActive(s) \/ StopOrphan(s) \/ StopAbort(s)

(***************************************************************************)
(* The process: main calls Shutdown on SIGTERM and then returns without    *)
(* waiting for the goroutines; it may also be killed at any moment.  The   *)
(* next process finds the rows and nothing else.                           *)
(***************************************************************************)
Shutdown ==
  /\ process = "serving" /\ restarts < MaxRestarts
  /\ process' = "shutdown"
  /\ UNCHANGED << rowVars, activeRuns, startPc, contextVars, stressVars, watchVars,
                  finishPc, stopPc, faults, restarts >>

Init ==
  /\ state = [e \in Experiments |-> "CREATED"]
  /\ stopReason = [e \in Experiments |-> ""]
  /\ report = {}
  /\ activeRuns = [e \in Experiments |-> NoRun]
  /\ process = "serving"
  /\ expCancelled = {} /\ stressCancelled = {} /\ startErrs = {} /\ stopOnce = {}
  /\ failure = [r \in Requests |-> "none"]
  /\ stressPc = [r \in Requests |-> "none"]
  /\ engineRun = NoRun /\ engineStopped = {}
  /\ watchPc = [r \in Requests |-> "none"]
  /\ watcherLoop = NoRun /\ handlerRun = NoRun
  /\ loopPc = [r \in Requests |-> "none"]
  /\ loopStopped = {}
  /\ loopHandler = [r \in Requests |-> NoRun]
  /\ finishPc = [r \in Requests |-> "none"]
  /\ startPc = [r \in Requests |-> "idle"]
  /\ stopPc = [s \in Stops |-> "idle"]
  /\ faults = 0 /\ restarts = 0

Restart ==
  /\ restarts < MaxRestarts
  /\ restarts' = restarts + 1
  /\ activeRuns' = [e \in Experiments |-> NoRun]
  /\ process' = "serving"
  /\ expCancelled' = {} /\ stressCancelled' = {} /\ startErrs' = {} /\ stopOnce' = {}
  /\ failure' = [r \in Requests |-> "none"]
  /\ stressPc' = [r \in Requests |-> "none"]
  /\ engineRun' = NoRun /\ engineStopped' = {}
  /\ watchPc' = [r \in Requests |-> "none"]
  /\ watcherLoop' = NoRun /\ handlerRun' = NoRun
  /\ loopPc' = [r \in Requests |-> "none"]
  /\ loopStopped' = {}
  /\ loopHandler' = [r \in Requests |-> NoRun]
  /\ finishPc' = [r \in Requests |-> "none"]
  /\ startPc' = [r \in Requests |-> IF startPc[r] = "idle" THEN "idle" ELSE "returned"]
  /\ stopPc' = [s \in Stops |-> IF stopPc[s] \in { "idle", "ok" } THEN stopPc[s] ELSE "err"]
  /\ UNCHANGED << rowVars, faults >>

Next ==
  \/ \E r \in Requests :
       \/ Start(r) \/ SignalCancel(r)
       \/ StressStart(r) \/ StressExit(r) \/ StressFail(r)
       \/ WatchStart(r) \/ Loop(r) \/ Finish(r)
  \/ \E s \in Stops : Stop(s)
  \/ Shutdown \/ Restart

Spec == Init /\ [][Next]_vars

\* The Go scheduler runs every goroutine that can run.  Nothing is assumed of
\* the users, of the metrics, or of the process staying up.
Fairness ==
  /\ \A r \in Requests :
       /\ WF_vars(startPc[r] # "idle" /\ Start(r))
       /\ WF_vars(SignalCancel(r))
       /\ WF_vars(StressStart(r) \/ StressExit(r) \/ StressFail(r))
       /\ WF_vars(WatchStart(r))
       /\ WF_vars(Loop(r))
       /\ WF_vars(Finish(r))
  /\ \A s \in Stops : WF_vars(stopPc[s] # "idle" /\ Stop(s))

FairSpec == Spec /\ Fairness


-----------------------------------------------------------------------------
(***************************************************************************)
(* Properties.                                                             *)
(***************************************************************************)

RowType ==
  /\ state \in [Experiments -> ExperimentStates]
  /\ stopReason \in [Experiments -> Reasons]
  /\ report \subseteq Experiments

RequestType ==
  /\ activeRuns \in [Experiments -> Requests \union {NoRun}]
  /\ process \in { "serving", "shutdown" }
  /\ startPc \in [Requests -> StartPcs]
  /\ finishPc \in [Requests -> FinishPcs]
  /\ stopPc \in [Stops -> StopPcs]

ContextType ==
  /\ expCancelled \subseteq Requests
  /\ stressCancelled \subseteq Requests
  /\ startErrs \subseteq Requests
  /\ stopOnce \subseteq Requests
  /\ failure \in [Requests -> { "none", "sent", "done" }]

EngineType ==
  /\ stressPc \in [Requests -> { "none", "spawned", "running", "failing", "failed", "closed" }]
  /\ engineRun \in Requests \union {NoRun}
  /\ engineStopped \subseteq Requests
  /\ watchPc \in [Requests -> { "none", "spawned", "returned" }]
  /\ watcherLoop \in Requests \union {NoRun}
  /\ handlerRun \in Requests \union {NoRun}
  /\ loopPc \in [Requests -> { "none", "wait", "save", "evaluate", "signal", "exited" }]
  /\ loopStopped \subseteq Requests
  /\ loopHandler \in [Requests -> Requests \union {NoRun}]

FaultType   == faults \in 0 .. MaxFaults
RestartType == restarts \in 0 .. MaxRestarts

\* Every variable has its type.
TypeOK ==
  RowType /\ RequestType /\ ContextType /\ EngineType /\ FaultType /\ RestartType

\* Request r registered its run and has not removed it yet.
Registered(r) ==
  \/ startPc[r] \in { "run", "unregister", "spawn" }
  \/ finishPc[r] \notin { "none", "cancel", "done" }

\* At most one run of an experiment is between its registration in activeRuns
\* and its removal, and the entry a stop request will find is its own: two
\* concurrent start requests never both drive one experiment.
OneRunPerExperiment ==
  \A r \in Requests : Registered(r) => activeRuns[Target[r]] = r

\* "STOPPING -> ANALYZING: traffic stopped (0 req/s)" (docs/LLD.md:500): once
\* the row of an experiment says its observations are being analysed, no run
\* of it is sending requests, whoever stopped the run and however it failed.
\* One moment is excepted: a failing goroutine preempted between sending its
\* failure and cancelling the contexts, whose run is over in the meantime.
TrafficStoppedBeforeAnalysis ==
  \A r \in Requests :
    state[Target[r]] \in PostTraffic /\ Traffic(r) => failure[r] = "sent"

\* A row that says an experiment goes on has a run that moves it on, although
\* abortExperiment drops its error (internal/experiment/manager.go:458).  One
\* failing statement may strand a row, but only where a stop request still ends
\* it; being analysed or reported it stays for good, and that takes the failure
\* of a step and of its abort, or the exit of the process.
StrandedRowCanBeStopped ==
  \A e \in Experiments :
    activeRuns[e] = NoRun /\ restarts = 0 =>
      /\ state[e] \in { "RUNNING", "STOPPING" } => faults > 0
      /\ state[e] \in { "ANALYZING", "REPORTING" } => faults > 1

\* The table keeps the promises of ExperimentLifecycle at every step.
Lifecycle == INSTANCE ExperimentLifecycle
LifecycleImplemented == Lifecycle!Spec

\* The process has started the goroutines of no other run.
Alone(r) == \A q \in Requests \ {r} : watchPc[q] = "none"

\* During the recovery window the watcher stays active (docs/LLD.md:539): its
\* engine is running, its loop belongs to this run and calls this run's
\* handler.  The exceptions are a failed run, a manager that is shutting down,
\* a watcher goroutine that has not been scheduled yet, and a process that has
\* had another run, of any experiment: there is one watcher for all of them.
WatcherServesRecovery ==
  \A r \in Requests :
    finishPc[r] = "recover" /\ watchPc[r] = "returned" /\ Alone(r)
      /\ failure[r] = "none" /\ process = "serving"
      => /\ watcherLoop = r /\ handlerRun = r
         /\ loopPc[r] \notin { "none", "exited" } /\ r \notin loopStopped

\* Once traffic of a run was cancelled, by a breach, a stop request or a
\* failure, its finishExperiment comes to its end and releases the run, even
\* if the database fails: no goroutine waits for another one forever.
CancelledRunFinishes ==
  \A r \in Requests :
    (finishPc[r] # "none" /\ StressDone(r)) ~> finishPc[r] \in { "none", "done" }

\* Without restarts, a stop request that was accepted takes the experiment to a
\* terminal state, unless a database operation fails.
AcceptedStopTerminates ==
  \A s \in Stops : stopPc[s] = "ok" ~> IsTerminal(state[StopTarget[s]]) \/ faults > 0

\* Cancelled traffic really ends: the engine leaves the run.
CancelledTrafficEnds ==
  \A r \in Requests : (engineRun = r /\ StressDone(r)) ~> engineRun # r
=============================================================================
