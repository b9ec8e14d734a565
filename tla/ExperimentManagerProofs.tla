------------------------ MODULE ExperimentManagerProofs ------------------------
(***************************************************************************)
(* Theorems about ExperimentManager, for any number of experiments,        *)
(* requests, failures and restarts.  The inductive invariant is built from *)
(* five parts, each proved on top of the ones it needs: the types, the     *)
(* ownership of an activeRuns entry, the report behind a COMPLETED row,    *)
(* the run behind a row that goes on and the silence of a run whose        *)
(* traffic ended.                                                          *)
(***************************************************************************)
EXTENDS ExperimentManager, TLAPS

-----------------------------------------------------------------------------
(* Types.                                                                  *)

\* A poll loop never calls a nil handler: the handler is set before any
\* goroutine that can start a loop exists.
HandlerInv ==
  \A r \in Requests :
    /\ watchPc[r] # "none" => handlerRun \in Requests
    /\ loopPc[r] # "none" => handlerRun \in Requests
    /\ loopPc[r] \in { "save", "evaluate", "signal" } => loopHandler[r] \in Requests

TypeInv == TypeOK /\ HandlerInv

LEMMA TypeInit == Init => TypeInv
<1> SUFFICES ASSUME Init PROVE TypeInv OBVIOUS
<1>1. RowType BY DEF Init, RowType, ExperimentStates, Reasons
<1>2. RequestType BY DEF Init, RequestType, StartPcs, FinishPcs, StopPcs
<1>3. ContextType BY DEF Init, ContextType
<1>4. EngineType BY DEF Init, EngineType
<1>5. FaultType /\ RestartType
  <2>1. faults = 0 /\ restarts = 0 BY DEF Init
  <2> QED BY <2>1, BoundAssumption DEF FaultType, RestartType
<1>6. HandlerInv BY DEF Init, HandlerInv
<1> QED BY <1>1, <1>2, <1>3, <1>4, <1>5, <1>6 DEF TypeInv, TypeOK

LEMMA FaultStep == ASSUME FaultType, Fault PROVE FaultType'
BY BoundAssumption DEF Fault, FaultType

LEMMA UpdateStep ==
  ASSUME RowType, NEW e \in Experiments, NEW target \in ExperimentStates,
         NEW reason \in Reasons, UpdateState(e, target, reason)
  PROVE  /\ state' \in [Experiments -> ExperimentStates]
         /\ stopReason' \in [Experiments -> Reasons]
BY DEF RowType, UpdateState

LEMMA TransitionStep ==
  ASSUME RowType, FaultType,
         NEW e \in Experiments, NEW target \in ExperimentStates, NEW reason \in Reasons,
         TransitionOk(e, target, reason) \/ TransitionErr(e, target, reason)
  PROVE  RowType' /\ FaultType'
BY UpdateStep, FaultStep DEF RowType, FaultType, TransitionOk, TransitionErr

LEMMA ReadStep ==
  ASSUME RowType, FaultType, Read \/ ReadErr
  PROVE  RowType' /\ FaultType'
BY FaultStep DEF RowType, FaultType, Read, ReadErr, rowVars

\* The four things a step of the program can do to the database.
LEMMA RowKinds ==
  ASSUME RequestType, Next
  PROVE  \/ Read \/ ReadErr
         \/ \E e \in Experiments, target \in ExperimentStates, reason \in Reasons :
              TransitionOk(e, target, reason) \/ TransitionErr(e, target, reason)
         \/ /\ \E r \in Requests :
                 /\ finishPc[r] = "saveReport"
                 /\ report' = report \union { Target[r] }
            /\ UNCHANGED << state, stopReason >>
            /\ UNCHANGED faults \/ Fault
<1> DEFINE Move(e, t, why) == TransitionOk(e, t, why) \/ TransitionErr(e, t, why)
<1>0. /\ { "PLANNED", "RUNNING", "STOPPING", "ANALYZING", "REPORTING", "COMPLETED",
           "ABORTED" } \subseteq ExperimentStates
      /\ { "", "failure", "shutdown", "user" } \subseteq Reasons
  BY DEF ExperimentStates, Reasons
<1>1. ASSUME NEW r \in Requests, Start(r)
      PROVE  \/ Read \/ ReadErr
             \/ \E e \in Experiments, t \in ExperimentStates, why \in Reasons : Move(e, t, why)
  <2>1. Target[r] \in Experiments BY RequestAssumption
  <2> QED
    BY <1>0, <1>1, <2>1 DEF Start, StartRead, StartPlan, StartGraph, StartRegister,
       StartRun, StartUnregister, StartSpawn, abortExperiment
<1>2. ASSUME NEW r \in Requests,
             SignalCancel(r) \/ StressStart(r) \/ StressExit(r) \/ StressFail(r)
               \/ WatchStart(r)
      PROVE  Read
  BY <1>2 DEF SignalCancel, StressStart, StressExit, StressFail, StressFrame, WatchStart, Read
<1>3. ASSUME NEW r \in Requests, Loop(r) PROVE Read \/ ReadErr
  BY <1>3 DEF Loop, Poll, SaveObservation, Evaluate, LoopSignalled, LoopExit, LoopFrame,
       Read, ReadErr, Fault, rowVars
<1>4. ASSUME NEW r \in Requests, FinishMove(r) \/ FinishAbort(r)
      PROVE  \E e \in Experiments, t \in ExperimentStates, why \in Reasons : Move(e, t, why)
  <2>1. Target[r] \in Experiments BY RequestAssumption
  <2> QED BY <1>0, <1>4, <2>1 DEF FinishMove, FinishAbort, FinishTransition, abortExperiment
<1>5. ASSUME NEW r \in Requests, FinishReport(r)
      PROVE  \/ Read \/ ReadErr
             \/ /\ finishPc[r] = "saveReport"
                /\ report' = report \union { Target[r] }
                /\ UNCHANGED << state, stopReason >>
                /\ UNCHANGED faults \/ Fault
  BY <1>5 DEF FinishReport, FinishStep
<1>6. ASSUME NEW r \in Requests,
             \/ FinishOuter(r) \/ FinishInner(r) \/ FinishEngines(r) \/ FinishCheck(r)
             \/ FinishRecover(r) \/ FinishUnregister(r) \/ FinishCancel(r)
      PROVE  Read \/ ReadErr
  BY <1>6 DEF FinishOuter, FinishInner, FinishEngines, FinishCheck, FinishRecover,
       FinishUnregister, FinishCancel
<1>7. ASSUME NEW s \in Stops, Stop(s)
      PROVE  \/ Read \/ ReadErr
             \/ \E e \in Experiments, t \in ExperimentStates, why \in Reasons : Move(e, t, why)
  <2>1. StopTarget[s] \in Experiments BY RequestAssumption
  <2> QED BY <1>0, <1>7, <2>1 DEF Stop, StopLookup, StopActive, StopOrphan, StopAbort
<1>8. CASE Shutdown \/ Restart BY <1>8 DEF Shutdown, Restart, Read
<1> QED
  BY <1>1, <1>2, <1>3, <1>4, <1>5, <1>6, <1>7, <1>8 DEF Next, Finish

LEMMA RowStep ==
  ASSUME RowType, FaultType, RequestType, Next PROVE RowType' /\ FaultType'
<1>1. CASE Read \/ ReadErr BY <1>1, ReadStep
<1>2. CASE \E e \in Experiments, target \in ExperimentStates, reason \in Reasons :
             TransitionOk(e, target, reason) \/ TransitionErr(e, target, reason)
  BY <1>2, TransitionStep
<1>3. ASSUME NEW r \in Requests, report' = report \union { Target[r] },
             UNCHANGED << state, stopReason >>, UNCHANGED faults \/ Fault
      PROVE  RowType' /\ FaultType'
  BY <1>3, RequestAssumption, FaultStep DEF RowType, FaultType
<1> QED BY <1>1, <1>2, <1>3, RowKinds

LEMMA RequestStep == ASSUME RequestType, Next PROVE RequestType'
<1>1. ASSUME NEW r \in Requests, Start(r) PROVE RequestType'
  <2>0. Target[r] \in Experiments BY RequestAssumption
  <2>1. startPc' \in [Requests -> StartPcs]
    BY <1>1 DEF Start, StartRead, StartPlan, StartGraph, StartRegister, StartRun,
       StartUnregister, StartSpawn, StartStep, RequestType, StartPcs
  <2>2. activeRuns' \in [Experiments -> Requests \union {NoRun}]
    BY <1>1, <2>0 DEF Start, StartRead, StartPlan, StartGraph, StartRegister, StartRun,
       StartUnregister, StartSpawn, RequestType
  <2>3. finishPc' \in [Requests -> FinishPcs]
    BY <1>1 DEF Start, StartRead, StartPlan, StartGraph, StartRegister, StartRun,
       StartUnregister, StartSpawn, NoSpawn, RequestType, FinishPcs
  <2>4. UNCHANGED << process, stopPc >>
    BY <1>1 DEF Start, StartRead, StartPlan, StartGraph, StartRegister, StartRun,
       StartUnregister, StartSpawn, StartStep
  <2> QED BY <2>1, <2>2, <2>3, <2>4 DEF RequestType
<1>2. ASSUME NEW r \in Requests, Finish(r) PROVE RequestType'
  <2>0. Target[r] \in Experiments BY RequestAssumption
  <2>1. finishPc' \in [Requests -> FinishPcs]
    BY <1>2 DEF Finish, FinishOuter, FinishInner, FinishEngines, FinishCheck, FinishRecover,
       FinishMove, FinishTransition, FinishReport, FinishAbort, FinishUnregister,
       FinishCancel, FinishStep, RequestType, FinishPcs
  <2>2. activeRuns' \in [Experiments -> Requests \union {NoRun}]
    BY <1>2, <2>0 DEF Finish, FinishOuter, FinishInner, FinishEngines, FinishCheck,
       FinishRecover, FinishMove, FinishReport, FinishAbort, FinishUnregister,
       FinishCancel, Local, RequestType
  <2>3. UNCHANGED << process, startPc, stopPc >>
    BY <1>2 DEF Finish, FinishOuter, FinishInner, FinishEngines, FinishCheck, FinishRecover,
       FinishMove, FinishTransition, FinishReport, FinishAbort, FinishUnregister,
       FinishCancel, FinishStep
  <2> QED BY <2>1, <2>2, <2>3 DEF RequestType
<1>3. ASSUME NEW r \in Requests,
             SignalCancel(r) \/ StressStart(r) \/ StressExit(r) \/ StressFail(r)
               \/ WatchStart(r) \/ Loop(r)
      PROVE  UNCHANGED << activeRuns, process, startPc, finishPc, stopPc >>
  BY <1>3 DEF SignalCancel, StressStart, StressExit, StressFail, StressFrame, WatchStart, Loop,
     Poll, SaveObservation, Evaluate, LoopSignalled, LoopExit, LoopFrame, managerVars
<1>4. ASSUME NEW s \in Stops, Stop(s) PROVE RequestType'
  BY <1>4 DEF Stop, StopLookup, StopActive, StopOrphan, StopAbort, StopStep, managerVars,
     RequestType, StopPcs
<1>5. CASE Shutdown BY <1>5 DEF Shutdown, RequestType
<1>6. CASE Restart BY <1>6 DEF Restart, RequestType, StartPcs, FinishPcs, StopPcs
<1> QED BY <1>1, <1>2, <1>3, <1>4, <1>5, <1>6 DEF Next, RequestType

LEMMA RestartKinds == ASSUME Next PROVE UNCHANGED restarts \/ Restart
<1>1. ASSUME NEW r \in Requests, Start(r) PROVE UNCHANGED restarts
  BY <1>1 DEF Start, StartRead, StartPlan, StartGraph, StartRegister, StartRun,
     StartUnregister, StartSpawn, StartStep
<1>2. ASSUME NEW r \in Requests, Finish(r) PROVE UNCHANGED restarts
  BY <1>2 DEF Finish, FinishOuter, FinishInner, FinishEngines, FinishCheck, FinishRecover,
     FinishMove, FinishTransition, FinishReport, FinishAbort, FinishUnregister,
     FinishCancel, FinishStep
<1>3. ASSUME NEW r \in Requests,
             SignalCancel(r) \/ StressStart(r) \/ StressExit(r) \/ StressFail(r)
               \/ WatchStart(r) \/ Loop(r)
      PROVE  UNCHANGED restarts
  BY <1>3 DEF SignalCancel, StressStart, StressExit, StressFail, StressFrame, WatchStart, Loop,
     Poll, SaveObservation, Evaluate, LoopSignalled, LoopExit, LoopFrame
<1>4. ASSUME NEW s \in Stops, Stop(s) PROVE UNCHANGED restarts
  BY <1>4 DEF Stop, StopLookup, StopActive, StopOrphan, StopAbort, StopStep
<1>5. CASE Shutdown BY <1>5 DEF Shutdown
<1> QED BY <1>1, <1>2, <1>3, <1>4, <1>5 DEF Next

LEMMA RestartStep ==
  ASSUME RestartType, Next PROVE RestartType' /\ (restarts' = 0 => restarts = 0 /\ ~Restart)
<1>1. CASE ~Restart BY <1>1, RestartKinds DEF RestartType
<1>2. CASE Restart
  <2>1. restarts < MaxRestarts /\ restarts' = restarts + 1 BY <1>2 DEF Restart
  <2> QED BY <2>1, BoundAssumption DEF RestartType
<1> QED BY <1>1, <1>2

LEMMA ContextStep ==
  ASSUME ContextType, RequestType, HandlerInv, Next PROVE ContextType'
<1>1. ASSUME NEW r \in Requests, Start(r) PROVE ContextType'
  BY <1>1 DEF Start, StartRead, StartPlan, StartGraph, StartRegister, StartRun,
     StartUnregister, StartSpawn, StartStep, ContextType
<1>2. ASSUME NEW r \in Requests, Finish(r) PROVE ContextType'
  BY <1>2 DEF Finish, FinishOuter, FinishInner, FinishEngines, FinishCheck, FinishRecover,
     FinishMove, FinishTransition, FinishReport, FinishAbort, FinishUnregister,
     FinishCancel, FinishStep, Local, TakeErr, ContextType
<1>3. ASSUME NEW r \in Requests,
             SignalCancel(r) \/ StressStart(r) \/ StressExit(r) \/ StressFail(r)
               \/ WatchStart(r)
      PROVE  ContextType'
  BY <1>3 DEF SignalCancel, StressStart, StressExit, StressFail, StressFrame, WatchStart,
     Signal, contextVars, ContextType
<1>4. ASSUME NEW r \in Requests, Loop(r) PROVE ContextType'
  <2>1. loopPc[r] \in { "save", "evaluate", "signal" } => loopHandler[r] \in Requests
    BY DEF HandlerInv
  <2>2. CASE Poll(r) \/ LoopSignalled(r) \/ LoopExit(r)
    BY <2>2 DEF Poll, LoopSignalled, LoopExit, LoopFrame, ContextType
  <2>3. CASE SaveObservation(r)
    <3>1. loopHandler[r] \in Requests BY <2>1, <2>3 DEF SaveObservation
    <3>2. \/ UNCHANGED << failure, startErrs >>
          \/ /\ failure' = [failure EXCEPT ![loopHandler[r]] = "sent"]
             /\ startErrs' = startErrs \union { loopHandler[r] }
      BY <2>3 DEF SaveObservation, Signal
    <3>3. UNCHANGED << expCancelled, stressCancelled, stopOnce >>
      BY <2>3 DEF SaveObservation, LoopFrame
    <3> QED BY <3>1, <3>2, <3>3 DEF ContextType
  <2>4. CASE Evaluate(r) BY <2>1, <2>4 DEF Evaluate, LoopFrame, ContextType
  <2> QED BY <1>4, <2>2, <2>3, <2>4 DEF Loop
<1>5. ASSUME NEW s \in Stops, Stop(s) PROVE ContextType'
  <2>1. activeRuns[StopTarget[s]] \in Requests \union {NoRun}
    BY RequestAssumption DEF RequestType
  <2> QED
    BY <1>5, <2>1 DEF Stop, StopLookup, StopActive, StopOrphan, StopAbort, StopStep, ContextType
<1>6. CASE Shutdown BY <1>6 DEF Shutdown, contextVars, ContextType
<1>7. CASE Restart BY <1>7 DEF Restart, ContextType
<1> QED BY <1>1, <1>2, <1>3, <1>4, <1>5, <1>6, <1>7 DEF Next

LEMMA EngineStep == ASSUME EngineType, Next PROVE EngineType'
<1>1. ASSUME NEW r \in Requests, Start(r) PROVE EngineType'
  <2>1. UNCHANGED << engineRun, engineStopped, loopPc, loopHandler, watcherLoop, loopStopped >>
    BY <1>1 DEF Start, StartRead, StartPlan, StartGraph, StartRegister, StartRun,
       StartUnregister, StartSpawn, StartStep
  <2>2. \/ UNCHANGED << stressPc, watchPc, handlerRun >>
        \/ /\ handlerRun' = r
           /\ watchPc' = [watchPc EXCEPT ![r] = "spawned"]
           /\ stressPc' = [stressPc EXCEPT ![r] = "spawned"]
    BY <1>1 DEF Start, StartRead, StartPlan, StartGraph, StartRegister, StartRun,
       StartUnregister, StartSpawn, NoSpawn
  <2> QED BY <2>1, <2>2 DEF EngineType
<1>2. ASSUME NEW r \in Requests, Finish(r) PROVE EngineType'
  <2>1. UNCHANGED << stressPc, engineRun, watchPc, handlerRun, loopPc, loopHandler >>
    BY <1>2 DEF Finish, FinishOuter, FinishInner, FinishEngines, FinishCheck, FinishRecover,
       FinishMove, FinishTransition, FinishReport, FinishAbort, FinishUnregister,
       FinishCancel, FinishStep, NoEngine, stressVars, engineVars, WatcherStop, StressStop
  <2>2. /\ engineStopped' \in { engineStopped, engineStopped \union ({engineRun} \ {NoRun}) }
        /\ loopStopped' \in { loopStopped, loopStopped \union ({watcherLoop} \ {NoRun}) }
        /\ watcherLoop' \in { watcherLoop, NoRun }
    BY <1>2 DEF Finish, FinishOuter, FinishInner, FinishEngines, FinishCheck, FinishRecover,
       FinishMove, FinishTransition, FinishReport, FinishAbort, FinishUnregister,
       FinishCancel, NoEngine, stressVars, engineVars, WatcherStop, StressStop
  <2> QED BY <2>1, <2>2 DEF EngineType
<1>3. ASSUME NEW r \in Requests,
             SignalCancel(r) \/ StressStart(r) \/ StressExit(r) \/ StressFail(r)
      PROVE  EngineType'
  BY <1>3 DEF SignalCancel, StressStart, StressExit, StressFail, StressFrame, stressVars,
     watchVars, engineVars, EngineType
<1>4. ASSUME NEW r \in Requests, WatchStart(r) PROVE EngineType'
  BY <1>4 DEF WatchStart, stressVars, EngineType
<1>5. ASSUME NEW r \in Requests, Loop(r) PROVE EngineType'
  BY <1>5 DEF Loop, Poll, SaveObservation, Evaluate, LoopSignalled, LoopExit, LoopFrame,
     stressVars, engineVars, EngineType
<1>6. ASSUME NEW s \in Stops, Stop(s) PROVE EngineType'
  BY <1>6 DEF Stop, StopLookup, StopActive, StopOrphan, StopAbort, StopStep, stressVars,
     watchVars, engineVars, EngineType
<1>7. CASE Shutdown BY <1>7 DEF Shutdown, stressVars, watchVars, engineVars, EngineType
<1>8. CASE Restart BY <1>8 DEF Restart, EngineType
<1> QED BY <1>1, <1>2, <1>3, <1>4, <1>5, <1>6, <1>7, <1>8 DEF Next

LEMMA HandlerStep == ASSUME HandlerInv, EngineType, Next PROVE HandlerInv'
<1>1. ASSUME NEW r \in Requests, Start(r) PROVE HandlerInv'
  <2>1. UNCHANGED << loopPc, loopHandler >>
    BY <1>1 DEF Start, StartRead, StartPlan, StartGraph, StartRegister, StartRun,
       StartUnregister, StartSpawn, StartStep
  <2>2. UNCHANGED << watchPc, handlerRun >> \/ handlerRun' = r
    BY <1>1 DEF Start, StartRead, StartPlan, StartGraph, StartRegister, StartRun,
       StartUnregister, StartSpawn, NoSpawn
  <2> QED BY <2>1, <2>2 DEF HandlerInv
<1>2. ASSUME NEW r \in Requests, Finish(r)
      PROVE  UNCHANGED << watchPc, handlerRun, loopPc, loopHandler >>
  BY <1>2 DEF Finish, FinishOuter, FinishInner, FinishEngines, FinishCheck, FinishRecover,
     FinishMove, FinishTransition, FinishReport, FinishAbort, FinishUnregister,
     FinishCancel, FinishStep, NoEngine, engineVars, WatcherStop
<1>3. ASSUME NEW r \in Requests,
             SignalCancel(r) \/ StressStart(r) \/ StressExit(r) \/ StressFail(r)
      PROVE  UNCHANGED << watchPc, handlerRun, loopPc, loopHandler >>
  BY <1>3 DEF SignalCancel, StressStart, StressExit, StressFail, StressFrame, watchVars,
     engineVars
<1>4. ASSUME NEW r \in Requests, WatchStart(r) PROVE HandlerInv'
  BY <1>4 DEF WatchStart, EngineType, HandlerInv
<1>5. ASSUME NEW r \in Requests, Loop(r) PROVE HandlerInv'
  <2>1. loopPc[r] # "none" => handlerRun \in Requests BY DEF HandlerInv
  <2> QED
    BY <1>5, <2>1 DEF Loop, Poll, SaveObservation, Evaluate, LoopSignalled, LoopExit,
       LoopFrame, engineVars, EngineType, HandlerInv
<1>6. ASSUME NEW s \in Stops, Stop(s)
      PROVE  UNCHANGED << watchPc, handlerRun, loopPc, loopHandler >>
  BY <1>6 DEF Stop, StopLookup, StopActive, StopOrphan, StopAbort, StopStep, watchVars,
     engineVars
<1>7. CASE Shutdown BY <1>7 DEF Shutdown, watchVars, engineVars, HandlerInv
<1>8. CASE Restart BY <1>8 DEF Restart, HandlerInv
<1> QED
  BY <1>1, <1>2, <1>3, <1>4, <1>5, <1>6, <1>7, <1>8 DEF Next, HandlerInv

LEMMA TypeStep == TypeInv /\ [Next]_vars => TypeInv'
<1> SUFFICES ASSUME TypeInv, [Next]_vars PROVE TypeInv' OBVIOUS
<1>1. CASE Next
  BY <1>1, RowStep, RequestStep, RestartStep, ContextStep, EngineStep, HandlerStep
     DEF TypeInv, TypeOK
<1>2. CASE UNCHANGED vars
  BY <1>2 DEF vars, rowVars, managerVars, contextVars, stressVars, watchVars, engineVars,
     TypeInv, TypeOK, HandlerInv, RowType, RequestType, ContextType, EngineType, FaultType,
     RestartType
<1> QED BY <1>1, <1>2

LEMMA TypeInvariant == Spec => []TypeInv
BY TypeInit, TypeStep, PTL DEF Spec

\* Every variable keeps its type, whatever the schedule, failures and restarts:
\* in particular a context, a handler or an engine slot never belongs to
\* anything but a run.
THEOREM TypeCorrect == Spec => []TypeOK
<1>1. TypeInv => TypeOK BY DEF TypeInv
<1> QED BY <1>1, TypeInvariant, PTL

-----------------------------------------------------------------------------
(* One run per experiment.                                                 *)

\* OneRunPerExperiment is not inductive alone: it also needs that a run is
\* either still being started or already being finished, so that only one of
\* the two goroutines can remove its entry.
RunInv ==
  /\ \A r \in Requests : finishPc[r] # "none" => startPc[r] = "returned"
  /\ OneRunPerExperiment

\* What a step does to the registration of runs.
LEMMA RunKinds ==
  ASSUME Next
  PROVE  \/ UNCHANGED << activeRuns, startPc, finishPc >>
         \/ \E r \in Requests : Start(r) \/ Finish(r)
         \/ Restart
<1>1. ASSUME NEW r \in Requests,
             SignalCancel(r) \/ StressStart(r) \/ StressExit(r) \/ StressFail(r)
               \/ WatchStart(r) \/ Loop(r)
      PROVE  UNCHANGED << activeRuns, startPc, finishPc >>
  BY <1>1 DEF SignalCancel, StressStart, StressExit, StressFail, StressFrame, WatchStart, Loop,
     Poll, SaveObservation, Evaluate, LoopSignalled, LoopExit, LoopFrame, managerVars
<1>2. ASSUME NEW s \in Stops, Stop(s) PROVE UNCHANGED << activeRuns, startPc, finishPc >>
  BY <1>2 DEF Stop, StopLookup, StopActive, StopOrphan, StopAbort, StopStep, managerVars
<1>3. CASE Shutdown BY <1>3 DEF Shutdown
<1> QED BY <1>1, <1>2, <1>3 DEF Next

LEMMA StartRun1 ==
  ASSUME RequestType, RunInv, NEW r \in Requests, Start(r) PROVE RunInv'
<1>0. Target \in [Requests -> Experiments] /\ NoRun \notin Requests BY RequestAssumption
<1>1. CASE StartRead(r) \/ StartPlan(r) \/ StartGraph(r)
  <2>1. /\ startPc[r] \in { "idle", "plan", "graph" }
        /\ \E to \in { "plan", "graph", "register", "returned" } :
             startPc' = [startPc EXCEPT ![r] = to]
        /\ UNCHANGED << activeRuns, finishPc >>
    BY <1>1 DEF StartRead, StartPlan, StartGraph, StartStep, NoSpawn
  <2> QED BY <2>1 DEF RequestType, RunInv, OneRunPerExperiment, Registered
<1>2. CASE StartRegister(r)
  <2>1. /\ startPc[r] = "register" /\ UNCHANGED finishPc
        /\ \/ /\ activeRuns[Target[r]] = NoRun
              /\ activeRuns' = [activeRuns EXCEPT ![Target[r]] = r]
              /\ startPc' = [startPc EXCEPT ![r] = "run"]
           \/ /\ startPc' = [startPc EXCEPT ![r] = "returned"]
              /\ UNCHANGED activeRuns
    BY <1>2 DEF StartRegister, StartStep, NoSpawn
  <2> QED BY <1>0, <2>1 DEF RequestType, RunInv, OneRunPerExperiment, Registered
<1>3. CASE StartRun(r)
  <2>1. /\ startPc[r] = "run" /\ UNCHANGED << activeRuns, finishPc >>
        /\ \E to \in { "spawn", "unregister" } : startPc' = [startPc EXCEPT ![r] = to]
    BY <1>3 DEF StartRun, StartStep, NoSpawn
  <2> QED BY <2>1 DEF RequestType, RunInv, OneRunPerExperiment, Registered
<1>4. CASE StartUnregister(r)
  <2>1. /\ startPc[r] = "unregister" /\ UNCHANGED finishPc
        /\ startPc' = [startPc EXCEPT ![r] = "returned"]
        /\ activeRuns' = [activeRuns EXCEPT ![Target[r]] = NoRun]
    BY <1>4 DEF StartUnregister, StartStep, NoSpawn
  <2> QED BY <1>0, <2>1 DEF RequestType, RunInv, OneRunPerExperiment, Registered
<1>5. CASE StartSpawn(r)
  <2>1. /\ startPc[r] = "spawn" /\ UNCHANGED activeRuns
        /\ startPc' = [startPc EXCEPT ![r] = "returned"]
        /\ finishPc' = [finishPc EXCEPT ![r] = "outer"]
    BY <1>5 DEF StartSpawn, StartStep
  <2> QED BY <2>1 DEF RequestType, RunInv, OneRunPerExperiment, Registered
<1> QED BY <1>1, <1>2, <1>3, <1>4, <1>5 DEF Start

LEMMA FinishRun1 ==
  ASSUME RequestType, RunInv, NEW r \in Requests, Finish(r) PROVE RunInv'
<1>0. Target \in [Requests -> Experiments] /\ NoRun \notin Requests BY RequestAssumption
<1>1. finishPc[r] # "none" /\ UNCHANGED startPc
  BY DEF Finish, FinishOuter, FinishInner, FinishEngines, FinishCheck, FinishRecover,
     FinishMove, FinishTransition, FinishReport, FinishAbort, FinishUnregister,
     FinishCancel, FinishStep
<1>2. CASE FinishUnregister(r)
  <2>1. /\ finishPc[r] = "unregister"
        /\ finishPc' = [finishPc EXCEPT ![r] = "cancel"]
        /\ activeRuns' = [activeRuns EXCEPT ![Target[r]] = NoRun]
    BY <1>2 DEF FinishUnregister, FinishStep
  <2> QED BY <1>0, <1>1, <2>1 DEF RequestType, RunInv, OneRunPerExperiment, Registered
<1>3. CASE FinishCancel(r)
  <2>1. finishPc' = [finishPc EXCEPT ![r] = "done"] /\ UNCHANGED activeRuns
    BY <1>3 DEF FinishCancel, FinishStep
  <2> QED BY <1>1, <2>1 DEF RequestType, RunInv, OneRunPerExperiment, Registered
<1>4. CASE \/ FinishOuter(r) \/ FinishInner(r) \/ FinishEngines(r) \/ FinishCheck(r)
           \/ FinishRecover(r) \/ FinishMove(r) \/ FinishReport(r) \/ FinishAbort(r)
  <2>1. /\ finishPc[r] \notin { "cancel", "done" } /\ UNCHANGED activeRuns
        /\ \E to \in FinishPcs : finishPc' = [finishPc EXCEPT ![r] = to]
    BY <1>4 DEF FinishOuter, FinishInner, FinishEngines, FinishCheck, FinishRecover,
       FinishMove, FinishTransition, FinishReport, FinishAbort, FinishStep, Local, FinishPcs
  <2> QED BY <1>1, <2>1 DEF RequestType, RunInv, OneRunPerExperiment, Registered
<1> QED BY <1>2, <1>3, <1>4 DEF Finish

LEMMA RunStep == TypeInv /\ RunInv /\ [Next]_vars => RunInv'
<1> SUFFICES ASSUME TypeInv, RunInv, [Next]_vars PROVE RunInv' OBVIOUS
<1>0. RequestType BY DEF TypeInv, TypeOK
<1>1. CASE UNCHANGED << activeRuns, startPc, finishPc >>
  BY <1>1 DEF RunInv, OneRunPerExperiment, Registered
<1>2. CASE \E r \in Requests : Start(r) \/ Finish(r)
  BY <1>0, <1>2, StartRun1, FinishRun1
<1>3. CASE Restart
  BY <1>0, <1>3 DEF Restart, RequestType, RunInv, OneRunPerExperiment, Registered
<1> QED BY <1>1, <1>2, <1>3, RunKinds DEF vars, managerVars

LEMMA RunInvariant == Spec => []RunInv
<1>1. Init => RunInv
  BY DEF Init, RunInv, OneRunPerExperiment, Registered
<1> QED BY <1>1, RunStep, TypeInvariant, PTL DEF Spec

\* However many start requests race for an experiment, at most one run of it
\* is registered at any time, and activeRuns names that run.
THEOREM RunsAreExclusive == Spec => []OneRunPerExperiment
<1>1. RunInv => OneRunPerExperiment BY DEF RunInv
<1> QED BY <1>1, RunInvariant, PTL

-----------------------------------------------------------------------------
(* The row of an experiment.                                               *)

Moving == { << "toAnalyzing", "ANALYZING" >>, << "toReporting", "REPORTING" >>,
            << "toCompleted", "COMPLETED" >> }

\* One database update, seen from the table: at most one status moves, along
\* the matrix and with a reason that fits; only a finishExperiment at the right
\* point moves it to ANALYZING, REPORTING or COMPLETED, and only one at
\* saveReport adds a report.
LEMMA RowMoves ==
  ASSUME RowType, RequestType, Next
  PROVE  \/ UNCHANGED rowVars
         \/ /\ UNCHANGED report
            /\ \E e \in Experiments, t \in ExperimentStates :
                 /\ CanTransition(state[e], t)
                 /\ state' = [state EXCEPT ![e] = t]
                 /\ \E why \in Lifecycle!Causes(t) : UpdateState(e, t, why)
                 /\ \/ t \notin PostTraffic
                    \/ \E r \in Requests :
                         /\ Target[r] = e /\ << finishPc[r], t >> \in Moving
                         /\ FinishMove(r)
         \/ /\ UNCHANGED << state, stopReason >>
            /\ \E r \in Requests :
                 finishPc[r] = "saveReport" /\ report' = report \union { Target[r] }
<1> DEFINE Same == UNCHANGED << state, stopReason, report >>
           Step(e, t) == /\ UNCHANGED report
                         /\ CanTransition(state[e], t)
                         /\ state' = [state EXCEPT ![e] = t]
                         /\ \E why \in Lifecycle!Causes(t) : UpdateState(e, t, why)
<1>0. /\ { "PLANNED", "RUNNING", "STOPPING", "ANALYZING", "REPORTING", "COMPLETED",
           "ABORTED" } \subseteq ExperimentStates
      /\ { "PLANNED", "RUNNING", "STOPPING", "ABORTED" } \intersect PostTraffic = {}
  BY DEF ExperimentStates, PostTraffic
<1>c. /\ \A t \in { "PLANNED", "RUNNING", "STOPPING", "ANALYZING", "REPORTING", "COMPLETED" } :
           "" \in Lifecycle!Causes(t)
      /\ \A t \in { "STOPPING", "ABORTED" } : "user" \in Lifecycle!Causes(t)
      /\ { "failure", "shutdown" } \subseteq Lifecycle!Causes("ABORTED")
  BY DEF Lifecycle!Causes
<1>a. ASSUME NEW e \in Experiments, NEW t, NEW why \in Lifecycle!Causes(t),
             TransitionOk(e, t, why) \/ TransitionErr(e, t, why)
      PROVE  Same \/ Step(e, t)
  <2>1. Same \/ (UNCHANGED report /\ CanTransition(state[e], t) /\ UpdateState(e, t, why))
    BY <1>a DEF TransitionOk, TransitionErr
  <2> QED BY <2>1 DEF UpdateState
<1>b. ASSUME Read \/ ReadErr PROVE Same BY <1>b DEF Read, ReadErr, rowVars
<1>1. ASSUME NEW r \in Requests, Start(r)
      PROVE  Same \/ \E t \in { "PLANNED", "RUNNING", "ABORTED" } : Step(Target[r], t)
  <2>1. Target[r] \in Experiments BY RequestAssumption
  <2>2. \/ Read \/ ReadErr
        \/ \E t \in { "PLANNED", "RUNNING" } :
             TransitionOk(Target[r], t, "") \/ TransitionErr(Target[r], t, "")
        \/ TransitionOk(Target[r], "ABORTED", "failure")
        \/ TransitionErr(Target[r], "ABORTED", "failure")
    BY <1>1 DEF Start, StartRead, StartPlan, StartGraph, StartRegister, StartRun,
       StartUnregister, StartSpawn, abortExperiment
  <2> HIDE DEF Same, Step
  <2> QED BY <2>1, <2>2, <1>a, <1>b, <1>c
<1>2. ASSUME NEW r \in Requests,
             SignalCancel(r) \/ StressStart(r) \/ StressExit(r) \/ StressFail(r)
               \/ WatchStart(r) \/ Loop(r)
      PROVE  Same
  BY <1>2 DEF SignalCancel, StressStart, StressExit, StressFail, StressFrame, WatchStart, Loop,
     Poll, SaveObservation, Evaluate, LoopSignalled, LoopExit, LoopFrame, rowVars
<1>3. ASSUME NEW r \in Requests, FinishMove(r)
      PROVE  \/ Same \/ Step(Target[r], "STOPPING")
             \/ \E t \in PostTraffic : Step(Target[r], t) /\ << finishPc[r], t >> \in Moving
  <2>1. Target[r] \in Experiments BY RequestAssumption
  <2>2. PICK from \in { "toStopping", "toAnalyzing", "toReporting", "toCompleted" },
             t \in { "STOPPING", "ANALYZING", "REPORTING", "COMPLETED" },
             to \in FinishPcs :
               FinishTransition(r, from, t, to) /\ << from, t >> \in Moving \union { << "toStopping", "STOPPING" >> }
    BY <1>3 DEF FinishMove, Moving, FinishPcs
  <2>3. finishPc[r] = from /\ (Same \/ Step(Target[r], t))
    <3>1. /\ finishPc[r] = from
          /\ TransitionOk(Target[r], t, "") \/ TransitionErr(Target[r], t, "")
      BY <2>2 DEF FinishTransition, FinishStep
    <3>2. "" \in Lifecycle!Causes(t) BY <1>c
    <3> HIDE DEF Same, Step
    <3> QED BY <2>1, <3>1, <3>2, <1>a
  <2> QED BY <2>2, <2>3 DEF Moving, PostTraffic
<1>4. ASSUME NEW r \in Requests, FinishReport(r)
      PROVE  \/ Same
             \/ /\ UNCHANGED << state, stopReason >> /\ finishPc[r] = "saveReport"
                /\ report' = report \union { Target[r] }
  BY <1>4 DEF FinishReport, FinishStep, Read, ReadErr, rowVars
<1>5. ASSUME NEW r \in Requests, FinishAbort(r) PROVE Same \/ Step(Target[r], "ABORTED")
  <2>1. Target[r] \in Experiments BY RequestAssumption
  <2>2. \E why \in { "failure", "shutdown" } :
          TransitionOk(Target[r], "ABORTED", why) \/ TransitionErr(Target[r], "ABORTED", why)
    BY <1>5 DEF FinishAbort, abortExperiment
  <2> HIDE DEF Same, Step
  <2> QED BY <2>1, <2>2, <1>a, <1>c
<1>6. ASSUME NEW r \in Requests,
             \/ FinishOuter(r) \/ FinishInner(r) \/ FinishEngines(r) \/ FinishCheck(r)
             \/ FinishRecover(r) \/ FinishUnregister(r) \/ FinishCancel(r)
      PROVE  Same
  BY <1>6, <1>b DEF FinishOuter, FinishInner, FinishEngines, FinishCheck, FinishRecover,
     FinishUnregister, FinishCancel
<1>7. ASSUME NEW s \in Stops, Stop(s)
      PROVE  Same \/ \E t \in { "STOPPING", "ABORTED" } : Step(StopTarget[s], t)
  <2>1. StopTarget[s] \in Experiments BY RequestAssumption
  <2>2. \/ Read \/ ReadErr
        \/ \E t \in { "STOPPING", "ABORTED" } :
             TransitionOk(StopTarget[s], t, "user") \/ TransitionErr(StopTarget[s], t, "user")
    BY <1>7 DEF Stop, StopLookup, StopActive, StopOrphan, StopAbort
  <2> HIDE DEF Same, Step
  <2> QED BY <2>1, <2>2, <1>a, <1>b, <1>c
<1>8. CASE Shutdown \/ Restart BY <1>8 DEF Shutdown, Restart, rowVars
<1> HIDE DEF Same, Step
<1>9. Target \in [Requests -> Experiments] /\ StopTarget \in [Stops -> Experiments]
  BY RequestAssumption
<1>10. CASE Same BY <1>10 DEF Same, rowVars
<1>11. ASSUME NEW e \in Experiments, NEW t \in { "PLANNED", "RUNNING", "STOPPING", "ABORTED" },
              Step(e, t)
       PROVE  \E f \in Experiments, u \in ExperimentStates :
                /\ UNCHANGED report /\ CanTransition(state[f], u)
                /\ state' = [state EXCEPT ![f] = u] /\ u \notin PostTraffic
                /\ \E why \in Lifecycle!Causes(u) : UpdateState(f, u, why)
  BY <1>0, <1>11 DEF Step
<1>12. ASSUME NEW r \in Requests, NEW t \in PostTraffic, Step(Target[r], t),
              << finishPc[r], t >> \in Moving, FinishMove(r)
       PROVE  \E e \in Experiments, u \in ExperimentStates :
                /\ UNCHANGED report /\ CanTransition(state[e], u)
                /\ state' = [state EXCEPT ![e] = u]
                /\ \E why \in Lifecycle!Causes(u) : UpdateState(e, u, why)
                /\ \E q \in Requests :
                     Target[q] = e /\ << finishPc[q], u >> \in Moving /\ FinishMove(q)
  <2>1. Target[r] \in Experiments /\ t \in ExperimentStates
    BY <1>0, <1>9 DEF PostTraffic
  <2> QED BY <1>12, <2>1 DEF Step
<1>13. CASE \E r \in Requests : Start(r) BY <1>1, <1>9, <1>10, <1>11, <1>13
<1>14. CASE \E r \in Requests : FinishMove(r) BY <1>3, <1>9, <1>10, <1>11, <1>12, <1>14
<1>15. CASE \E r \in Requests : FinishAbort(r) BY <1>5, <1>9, <1>10, <1>11, <1>15
<1>16. CASE \E s \in Stops : Stop(s) BY <1>7, <1>9, <1>10, <1>11, <1>16
<1>17. CASE \E r \in Requests : FinishReport(r) BY <1>4, <1>10, <1>17
<1> QED
  BY <1>2, <1>6, <1>8, <1>10, <1>13, <1>14, <1>15, <1>16, <1>17 DEF Next, Finish, Same

\* How a run comes to the points where its row matters.
LEMMA PcMoves ==
  ASSUME RowType, RequestType, Next, NEW r \in Requests
  PROVE  /\ startPc'[r] = "spawn" => startPc[r] = "spawn" \/ state'[Target[r]] = "RUNNING"
         /\ finishPc'[r] \in { "outer", "inner" } =>
              \/ finishPc[r] \in { "outer", "inner" }
              \/ startPc[r] = "spawn"
         /\ finishPc'[r] = "generate" =>
              finishPc[r] = "generate" \/ state'[Target[r]] = "REPORTING"
         /\ finishPc'[r] = "saveReport" => finishPc[r] \in { "generate", "saveReport" }
         /\ finishPc'[r] = "toCompleted" =>
              \/ finishPc[r] = "toCompleted"
              \/ finishPc[r] = "saveReport" /\ Target[r] \in report'
<1>0. Target[r] \in Experiments BY RequestAssumption
<1>1. ASSUME NEW t \in ExperimentStates, NEW why, TransitionOk(Target[r], t, why)
      PROVE  state'[Target[r]] = t
  BY <1>0, <1>1 DEF TransitionOk, UpdateState, RowType
<1>2. { "RUNNING", "REPORTING" } \subseteq ExperimentStates BY DEF ExperimentStates
<1>3. CASE UNCHANGED << startPc, finishPc >> BY <1>3
<1>4. ASSUME NEW q \in Requests, Start(q) PROVE
        /\ startPc'[r] = "spawn" => startPc[r] = "spawn" \/ state'[Target[r]] = "RUNNING"
        /\ finishPc'[r] = finishPc[r] \/ (startPc[r] = "spawn" /\ finishPc'[r] = "outer")
  <2>1. CASE StartRun(q)
    <3>1. /\ UNCHANGED finishPc
          /\ \/ /\ startPc' = [startPc EXCEPT ![q] = "spawn"]
                /\ TransitionOk(Target[q], "RUNNING", "")
             \/ startPc' = [startPc EXCEPT ![q] = "unregister"]
      BY <2>1 DEF StartRun, StartStep, NoSpawn
    <3> QED BY <3>1, <1>1, <1>2 DEF RequestType
  <2>2. CASE StartSpawn(q)
    <3>1. /\ startPc[q] = "spawn"
          /\ startPc' = [startPc EXCEPT ![q] = "returned"]
          /\ finishPc' = [finishPc EXCEPT ![q] = "outer"]
      BY <2>2 DEF StartSpawn, StartStep
    <3> QED BY <3>1 DEF RequestType
  <2>3. CASE \/ StartRead(q) \/ StartPlan(q) \/ StartGraph(q) \/ StartRegister(q)
             \/ StartUnregister(q)
    <3>1. /\ UNCHANGED finishPc
          /\ \E to \in StartPcs \ { "spawn" } : startPc' = [startPc EXCEPT ![q] = to]
      BY <2>3 DEF StartRead, StartPlan, StartGraph, StartRegister, StartUnregister, StartStep,
         NoSpawn, StartPcs
    <3> QED BY <3>1 DEF RequestType
  <2> QED BY <1>4, <2>1, <2>2, <2>3 DEF Start
<1>5. ASSUME NEW q \in Requests, Finish(q), r # q PROVE finishPc'[r] = finishPc[r]
  <2>1. \E to : finishPc' = [finishPc EXCEPT ![q] = to]
    BY <1>5 DEF Finish, FinishOuter, FinishInner, FinishEngines, FinishCheck, FinishRecover,
       FinishMove, FinishTransition, FinishReport, FinishAbort, FinishUnregister,
       FinishCancel, FinishStep
  <2> QED BY <1>5, <2>1 DEF RequestType
<1>6. ASSUME NEW q \in Requests, Finish(q) PROVE UNCHANGED startPc
  BY <1>6 DEF Finish, FinishOuter, FinishInner, FinishEngines, FinishCheck, FinishRecover,
     FinishMove, FinishTransition, FinishReport, FinishAbort, FinishUnregister,
     FinishCancel, FinishStep
<1>7. ASSUME Finish(r)
      PROVE  /\ finishPc'[r] # "outer"
             /\ finishPc'[r] = "inner" => finishPc[r] = "outer"
             /\ finishPc'[r] = "generate" => state'[Target[r]] = "REPORTING"
             /\ finishPc'[r] = "saveReport" => finishPc[r] = "generate"
             /\ finishPc'[r] = "toCompleted" => finishPc[r] = "saveReport" /\ Target[r] \in report'
  <2>1. CASE FinishMove(r)
    <3>1. \/ finishPc' = [finishPc EXCEPT ![r] = "recover"]
          \/ finishPc' = [finishPc EXCEPT ![r] = "observe"]
          \/ /\ finishPc' = [finishPc EXCEPT ![r] = "generate"]
             /\ TransitionOk(Target[r], "REPORTING", "")
          \/ finishPc' = [finishPc EXCEPT ![r] = "unregister"]
          \/ finishPc' = [finishPc EXCEPT ![r] = "abort"]
      BY <2>1 DEF FinishMove, FinishTransition, FinishStep
    <3> QED BY <3>1, <1>1, <1>2 DEF RequestType
  <2>2. CASE FinishReport(r)
    <3>1. \/ finishPc' = [finishPc EXCEPT ![r] = "toReporting"]
          \/ finishPc[r] = "generate" /\ finishPc' = [finishPc EXCEPT ![r] = "saveReport"]
          \/ /\ finishPc[r] = "saveReport" /\ finishPc' = [finishPc EXCEPT ![r] = "toCompleted"]
             /\ report' = report \union { Target[r] }
          \/ finishPc' = [finishPc EXCEPT ![r] = "abort"]
      BY <2>2 DEF FinishReport, FinishStep
    <3> QED BY <3>1 DEF RequestType
  <2>3. CASE FinishOuter(r) \/ FinishInner(r)
    BY <2>3 DEF FinishOuter, FinishInner, FinishStep, RequestType
  <2>4. CASE \/ FinishEngines(r) \/ FinishCheck(r) \/ FinishRecover(r)
             \/ FinishAbort(r) \/ FinishUnregister(r) \/ FinishCancel(r)
    BY <2>4 DEF FinishEngines, FinishCheck, FinishRecover, FinishAbort, FinishUnregister,
       FinishCancel, FinishStep, RequestType
  <2> QED BY <1>7, <2>1, <2>2, <2>3, <2>4 DEF Finish
<1>8. CASE Restart BY <1>8 DEF Restart
<1> QED BY <1>3, <1>4, <1>5, <1>6, <1>7, <1>8, RunKinds

\* While a run may still have to send, its row is not past the traffic; from
\* the REPORTING update to the end, only this run or an abort moves the row;
\* and the report is stored before the row is COMPLETED.
RowInv ==
  /\ \A r \in Requests :
       /\ startPc[r] = "spawn" \/ finishPc[r] \in { "outer", "inner" } =>
            state[Target[r]] \notin PostTraffic
       /\ finishPc[r] \in { "generate", "saveReport", "toCompleted" } =>
            state[Target[r]] \in { "REPORTING", "ABORTED" }
       /\ finishPc[r] = "toCompleted" => Target[r] \in report
  /\ \A e \in Experiments : state[e] = "COMPLETED" => e \in report

LEMMA RowInvStep == TypeInv /\ RunInv /\ RowInv /\ [Next]_vars => RowInv'
<1> SUFFICES ASSUME TypeInv, RunInv, RowInv, [Next]_vars PROVE RowInv' OBVIOUS
<1>0. RowType /\ RequestType BY DEF TypeInv, TypeOK
<1>1. CASE UNCHANGED vars BY <1>1 DEF vars, rowVars, RowInv
<1>2. CASE Next
  <2>1. report \subseteq report' BY <1>0, <1>2, RowMoves DEF rowVars
  <2>2. ASSUME NEW e \in Experiments, state'[e] # state[e]
        PROVE  /\ CanTransition(state[e], state'[e])
               /\ state'[e] \in PostTraffic =>
                    \E q \in Requests :
                      /\ Target[q] = e /\ FinishMove(q)
                      /\ << finishPc[q], state'[e] >> \in Moving
    <3>1. PICK f \in Experiments, t \in ExperimentStates :
            /\ CanTransition(state[f], t)
            /\ state' = [state EXCEPT ![f] = t]
            /\ \/ t \notin PostTraffic
               \/ \E q \in Requests :
                    /\ Target[q] = f /\ << finishPc[q], t >> \in Moving
                    /\ FinishMove(q)
      BY <1>0, <1>2, <2>2, RowMoves DEF rowVars
    <3>2. e = f /\ state'[e] = t BY <1>0, <2>2, <3>1 DEF RowType
    <3> QED BY <3>1, <3>2
  <2>3. ASSUME NEW q \in Requests, FinishMove(q)
        PROVE  /\ Registered(q) /\ startPc[q] # "spawn"
               /\ finishPc[q] \in { "toStopping", "toAnalyzing", "toReporting", "toCompleted" }
               /\ finishPc'[q] \notin { "saveReport", "toCompleted" }
               /\ finishPc[q] = "toCompleted" => finishPc'[q] # "generate"
    <3>1. \/ finishPc[q] = "toReporting" /\ finishPc'[q] = "generate"
          \/ /\ finishPc[q] \in { "toStopping", "toAnalyzing", "toReporting", "toCompleted" }
             /\ finishPc'[q] \in { "recover", "observe", "unregister", "abort" }
      BY <1>0, <2>3 DEF FinishMove, FinishTransition, FinishStep, RequestType
    <3> QED BY <3>1 DEF RunInv, Registered
  <2>4. ASSUME NEW q \in Requests, NEW r \in Requests, Target[q] = Target[r],
               Registered(q), Registered(r)
        PROVE  q = r
    BY <2>4 DEF RunInv, OneRunPerExperiment
  <2>5. ASSUME NEW r \in Requests
        PROVE  /\ startPc'[r] = "spawn" \/ finishPc'[r] \in { "outer", "inner" } =>
                    state'[Target[r]] \notin PostTraffic
               /\ finishPc'[r] \in { "generate", "saveReport", "toCompleted" } =>
                    state'[Target[r]] \in { "REPORTING", "ABORTED" }
               /\ finishPc'[r] = "toCompleted" => Target[r] \in report'
    <3>0. Target[r] \in Experiments /\ state[Target[r]] \in ExperimentStates
      BY <1>0, RequestAssumption DEF RowType
    <3>1. ASSUME startPc[r] = "spawn" \/ finishPc[r] \in { "outer", "inner" }
          PROVE  state'[Target[r]] \notin PostTraffic
      <4>1. state[Target[r]] \notin PostTraffic BY <3>1 DEF RowInv
      <4>2. Registered(r) BY <3>1 DEF Registered
      <4>3. SUFFICES ASSUME state'[Target[r]] \in PostTraffic PROVE FALSE OBVIOUS
      <4>4. PICK q \in Requests : Target[q] = Target[r] /\ FinishMove(q)
        BY <3>0, <4>1, <4>3, <2>2
      <4>5. q = r BY <4>2, <4>4, <2>3, <2>4
      <4> QED BY <3>1, <4>4, <4>5, <2>3
    <3>2. ASSUME startPc'[r] = "spawn" \/ finishPc'[r] \in { "outer", "inner" }
          PROVE  state'[Target[r]] \notin PostTraffic
      <4>1. CASE state'[Target[r]] = "RUNNING" BY <4>1 DEF PostTraffic
      <4> QED BY <1>0, <1>2, <3>1, <3>2, <4>1, PcMoves
    <3>3. ASSUME finishPc'[r] \in { "generate", "saveReport", "toCompleted" }
          PROVE  state'[Target[r]] \in { "REPORTING", "ABORTED" }
      <4>1. SUFFICES ASSUME state'[Target[r]] # "REPORTING"
                     PROVE  state'[Target[r]] = "ABORTED"
        OBVIOUS
      <4>2. finishPc[r] \in { "generate", "saveReport", "toCompleted" }
        BY <1>0, <1>2, <3>3, <4>1, PcMoves
      <4>3. state[Target[r]] \in { "REPORTING", "ABORTED" } BY <4>2 DEF RowInv
      <4>4. SUFFICES ASSUME state'[Target[r]] # state[Target[r]]
                     PROVE  state'[Target[r]] = "ABORTED"
        BY <4>1, <4>3
      <4>5. state'[Target[r]] \in { "COMPLETED", "ABORTED" }
        BY <3>0, <4>3, <4>4, <2>2 DEF CanTransition, validTransitions
      <4>6. SUFFICES ASSUME state'[Target[r]] = "COMPLETED" PROVE FALSE BY <4>5
      <4>7. PICK q \in Requests :
              /\ Target[q] = Target[r] /\ FinishMove(q)
              /\ << finishPc[q], "COMPLETED" >> \in Moving
        BY <3>0, <4>4, <4>6, <2>2 DEF PostTraffic
      <4>8. finishPc[q] = "toCompleted" BY <4>7 DEF Moving
      <4>9. Registered(r) BY <4>2 DEF Registered
      <4>10. q = r BY <4>7, <4>9, <2>3, <2>4
      <4> QED BY <3>3, <4>7, <4>8, <4>10, <2>3
    <3>4. ASSUME finishPc'[r] = "toCompleted" PROVE Target[r] \in report'
      BY <1>0, <1>2, <2>1, <3>4, PcMoves DEF RowInv
    <3> QED BY <3>2, <3>3, <3>4
  <2>6. ASSUME NEW e \in Experiments, state'[e] = "COMPLETED" PROVE e \in report'
    <3>1. CASE state[e] = "COMPLETED" BY <3>1, <2>1 DEF RowInv
    <3>2. CASE state[e] # "COMPLETED"
      <4>1. PICK q \in Requests : Target[q] = e /\ << finishPc[q], "COMPLETED" >> \in Moving
        BY <2>6, <3>2, <2>2 DEF PostTraffic
      <4>2. finishPc[q] = "toCompleted" BY <4>1 DEF Moving
      <4> QED BY <4>1, <4>2, <2>1 DEF RowInv
    <3> QED BY <3>1, <3>2
  <2> QED BY <2>5, <2>6 DEF RowInv
<1> QED BY <1>1, <1>2

LEMMA RowInvariant == Spec => []RowInv
<1>1. Init => RowInv
  BY RequestAssumption DEF Init, RowInv, PostTraffic
<1> QED BY <1>1, RowInvStep, RunInvariant, TypeInvariant, PTL DEF Spec

\* The experiments table keeps the lifecycle contract at every step of every
\* instance: what a reader of the row sees moves along the transition matrix,
\* and a COMPLETED row has a report.
THEOREM ManagerImplementsLifecycle == Spec => LifecycleImplemented
<1>1. Init => Lifecycle!Init BY DEF Init, Lifecycle!Init
<1>2. ASSUME TypeInv, RunInv, RowInv, [Next]_vars
      PROVE  [Lifecycle!Next]_(Lifecycle!lifecycleVars)
  <2>0. RowType /\ RequestType BY <1>2 DEF TypeInv, TypeOK
  <2>1. CASE UNCHANGED rowVars BY <2>1 DEF Lifecycle!lifecycleVars, rowVars
  <2>2. ASSUME NEW e \in Experiments, NEW t \in ExperimentStates,
               NEW why \in Lifecycle!Causes(t),
               UNCHANGED report, CanTransition(state[e], t), UpdateState(e, t, why),
               t = "COMPLETED" => e \in report
        PROVE  Lifecycle!Next
    <3>1. Lifecycle!Move(e, t, why)
      BY <2>2 DEF Lifecycle!Move, UpdateState, CanTransition, Lifecycle!CanTransition,
         validTransitions, Lifecycle!validTransitions
    <3> QED BY <3>1 DEF Lifecycle!Next, ExperimentStates, Lifecycle!ExperimentStates
  <2>3. ASSUME NEW r \in Requests, UNCHANGED << state, stopReason >>, finishPc[r] = "saveReport",
               report' = report \union { Target[r] }
        PROVE  Lifecycle!Next
    <3>1. Target[r] \in Experiments BY RequestAssumption
    <3>2. state[Target[r]] \in { "REPORTING", "ABORTED" } BY <1>2, <2>3 DEF RowInv
    <3> QED BY <2>3, <3>1, <3>2 DEF Lifecycle!Next, Lifecycle!Publish
  <2>4. ASSUME NEW r \in Requests, << finishPc[r], "COMPLETED" >> \in Moving
        PROVE  Target[r] \in report
    BY <1>2, <2>4 DEF RowInv, Moving
  <2>5. CASE UNCHANGED vars BY <2>1, <2>5 DEF vars
  <2>6. CASE Next
    <3>1. CASE \E r \in Requests :
                 finishPc[r] = "saveReport" /\ UNCHANGED << state, stopReason >>
                   /\ report' = report \union { Target[r] }
      BY <2>3, <3>1
    <3>2. ASSUME NEW e \in Experiments, NEW t \in ExperimentStates,
                 NEW why \in Lifecycle!Causes(t),
                 UNCHANGED report, CanTransition(state[e], t), UpdateState(e, t, why),
                 \/ t \notin PostTraffic
                 \/ \E r \in Requests : Target[r] = e /\ << finishPc[r], t >> \in Moving
          PROVE  Lifecycle!Next
      <4>1. t = "COMPLETED" => e \in report BY <3>2, <2>4 DEF PostTraffic
      <4> QED BY <3>2, <4>1, <2>2
    <3> QED BY <2>0, <2>1, <2>6, <3>1, <3>2, RowMoves
  <2> QED BY <1>2, <2>5, <2>6
<1> QED
  BY <1>1, <1>2, TypeInvariant, RunInvariant, RowInvariant, PTL
  DEF Spec, LifecycleImplemented, Lifecycle!Spec

-----------------------------------------------------------------------------
(* Stranded rows.                                                          *)

\* How far a run has come, and the states its row may then have: an abort may
\* come at any time, a stop request may come before finishExperiment's own.
BeforeStopping == { "outer", "inner", "failWatcher", "failStress", "failAbort",
                    "stopStress", "check", "toStopping" }
WhileStopping  == { "recover", "shutdownAbort", "stopWatcher", "toAnalyzing" }

\* A run that failed no statement comes to its abort only behind another one's.
StageInv ==
  \A r \in Requests :
    /\ startPc[r] = "spawn" \/ finishPc[r] \in BeforeStopping =>
         state[Target[r]] \in { "RUNNING", "STOPPING", "ABORTED" }
    /\ finishPc[r] \in WhileStopping => state[Target[r]] \in { "STOPPING", "ABORTED" }
    /\ finishPc[r] \in { "observe", "toReporting" } =>
         state[Target[r]] \in { "ANALYZING", "ABORTED" }
    /\ finishPc[r] \in { "generate", "saveReport", "toCompleted" } =>
         state[Target[r]] \in { "REPORTING", "ABORTED" }
    /\ finishPc[r] = "abort" /\ faults = 0 => state[Target[r]] = "ABORTED"

\* Run r will still move the row of its experiment.
Drives(r) ==
  \/ startPc[r] = "spawn"
  \/ finishPc[r] \notin { "none", "shutdownWatcher", "unregister", "cancel", "done" }

\* The row says that the experiment goes on, and too little has failed to
\* strand it.
Going(e) ==
  \/ state[e] \in { "RUNNING", "STOPPING" } /\ faults = 0
  \/ state[e] \in { "ANALYZING", "REPORTING" } /\ faults < 2

DriveInv ==
  restarts = 0 => \A e \in Experiments :
    Going(e) => \E r \in Requests : Target[r] = e /\ Drives(r)

LEMMA FaultMoves ==
  ASSUME FaultType, RequestType, Next
  PROVE  faults \in Nat /\ faults' \in { faults, faults + 1 }
<1>1. faults \in Nat BY BoundAssumption DEF FaultType
<1>2. faults' = faults \/ Fault
  BY RowKinds DEF Read, ReadErr, TransitionOk, TransitionErr
<1> QED BY <1>1, <1>2 DEF Fault

\* Only its own finishExperiment takes the row of a registered run further than
\* to STOPPING.
LEMMA StageKept ==
  ASSUME RowType, RequestType, RunInv, Next,
         NEW r \in Requests, Registered(r), ~FinishMove(r),
         state[Target[r]] \notin { "CREATED", "PLANNED" }
  PROVE  \/ state'[Target[r]] \in { state[Target[r]], "ABORTED" }
         \/ state[Target[r]] = "RUNNING" /\ state'[Target[r]] = "STOPPING"
<1>0. Target[r] \in Experiments BY RequestAssumption
<1>1. state[Target[r]] \in ExperimentStates BY <1>0 DEF RowType
<1>2. SUFFICES ASSUME state'[Target[r]] # state[Target[r]]
               PROVE  \/ state'[Target[r]] = "ABORTED"
                      \/ state[Target[r]] = "RUNNING" /\ state'[Target[r]] = "STOPPING"
  OBVIOUS
<1>3. PICK e \in Experiments, t \in ExperimentStates :
        /\ CanTransition(state[e], t)
        /\ state' = [state EXCEPT ![e] = t]
        /\ \/ t \notin PostTraffic
           \/ \E q \in Requests :
                /\ Target[q] = e /\ << finishPc[q], t >> \in Moving
                /\ FinishMove(q)
  BY <1>2, RowMoves DEF rowVars
<1>4. e = Target[r] /\ state'[e] = t BY <1>0, <1>2, <1>3 DEF RowType
<1>5. t \notin PostTraffic
  <2> SUFFICES ASSUME NEW q \in Requests, Target[q] = e, << finishPc[q], t >> \in Moving,
                      FinishMove(q)
               PROVE  FALSE
    BY <1>3
  <2>1. Registered(q) BY DEF Registered, Moving
  <2>2. q = r BY <1>4, <2>1 DEF RunInv, OneRunPerExperiment
  <2> QED BY <2>2
<1> QED BY <1>1, <1>3, <1>4, <1>5 DEF CanTransition, validTransitions, PostTraffic, ExperimentStates

\* What an update does to the row it names.
LEMMA UpdateMoves ==
  ASSUME RowType, FaultType, NEW e \in Experiments, NEW target, NEW why,
         TransitionOk(e, target, why) \/ TransitionErr(e, target, why)
  PROVE  /\ state'[e] \in { state[e], target }
         /\ TransitionOk(e, target, why) => state'[e] = target
         /\ faults' = faults /\ state'[e] # target => ~CanTransition(state[e], target)
<1>1. faults \in Nat BY BoundAssumption DEF FaultType
<1>2. Fault => faults' # faults BY <1>1 DEF Fault
<1> QED BY <1>2 DEF TransitionOk, TransitionErr, UpdateState, RowType

\* Only its own StartExperiment brings a row to RUNNING.
LEMMA RunningMoves ==
  ASSUME RowType, RequestType, Next, NEW e \in Experiments,
         state[e] # "RUNNING", state'[e] = "RUNNING"
  PROVE  \E q \in Requests : Target[q] = e /\ StartRun(q)
<1>0. Target \in [Requests -> Experiments] /\ StopTarget \in [Stops -> Experiments]
  BY RequestAssumption
<1>1. ASSUME NEW f \in Experiments, NEW t, NEW why, t # "RUNNING" \/ f # e
      PROVE  ~TransitionOk(f, t, why) /\ ~TransitionErr(f, t, why)
  BY <1>1 DEF TransitionOk, TransitionErr, UpdateState, RowType
<1>2. ~Read /\ ~ReadErr BY DEF Read, ReadErr, rowVars
<1>3. ASSUME NEW r \in Requests, Start(r) PROVE Target[r] = e /\ StartRun(r)
  <2>1. \A t \in { "PLANNED", "ABORTED" }, why \in { "", "failure" } :
          ~TransitionOk(Target[r], t, why) /\ ~TransitionErr(Target[r], t, why)
    BY <1>0, <1>1
  <2>2. StartRun(r)
    BY <1>2, <1>3, <2>1 DEF Start, StartRead, StartPlan, StartGraph, StartRegister,
       StartUnregister, StartSpawn, abortExperiment
  <2>3. TransitionOk(Target[r], "RUNNING", "") \/ TransitionErr(Target[r], "RUNNING", "")
    BY <2>2 DEF StartRun
  <2> QED BY <1>0, <1>1, <2>2, <2>3
<1>4. ASSUME NEW r \in Requests PROVE ~FinishMove(r) /\ ~FinishAbort(r)
  <2>1. \A t \in { "STOPPING", "ANALYZING", "REPORTING", "COMPLETED", "ABORTED" },
           why \in { "", "failure", "shutdown" } :
          ~TransitionOk(Target[r], t, why) /\ ~TransitionErr(Target[r], t, why)
    BY <1>0, <1>1
  <2> QED BY <2>1 DEF FinishMove, FinishTransition, FinishAbort, abortExperiment
<1>5. ASSUME NEW r \in Requests PROVE ~FinishReport(r)
  BY <1>2 DEF FinishReport
<1>6. ASSUME NEW r \in Requests
      PROVE  /\ ~FinishOuter(r) /\ ~FinishInner(r) /\ ~FinishEngines(r) /\ ~FinishCheck(r)
             /\ ~FinishRecover(r) /\ ~FinishUnregister(r) /\ ~FinishCancel(r)
  BY <1>2 DEF FinishOuter, FinishInner, FinishEngines, FinishCheck, FinishRecover,
     FinishUnregister, FinishCancel
<1>7. ASSUME NEW s \in Stops PROVE ~Stop(s)
  <2>1. \A t \in { "STOPPING", "ABORTED" } :
          ~TransitionOk(StopTarget[s], t, "user") /\ ~TransitionErr(StopTarget[s], t, "user")
    BY <1>0, <1>1
  <2> QED BY <1>2, <2>1 DEF Stop, StopLookup, StopActive, StopOrphan, StopAbort
<1>8. ASSUME NEW r \in Requests,
             SignalCancel(r) \/ StressStart(r) \/ StressExit(r) \/ StressFail(r)
               \/ WatchStart(r) \/ Loop(r)
      PROVE  FALSE
  BY <1>8 DEF SignalCancel, StressStart, StressExit, StressFail, StressFrame, WatchStart, Loop,
     Poll, SaveObservation, Evaluate, LoopSignalled, LoopExit, LoopFrame, rowVars
<1>9. ~Shutdown /\ ~Restart BY DEF Shutdown, Restart, rowVars
<1> QED BY <1>3, <1>4, <1>5, <1>6, <1>7, <1>8, <1>9 DEF Next, Finish

\* The program counters of one run: they stand still, or one of its own two
\* goroutines moves, or the process ends.
LEMMA OwnMoves ==
  ASSUME RequestType, Next, NEW r \in Requests
  PROVE  \/ startPc'[r] = startPc[r] /\ finishPc'[r] = finishPc[r] /\ ~FinishMove(r)
         \/ Start(r) \/ Finish(r) \/ Restart
<1>1. ASSUME NEW q \in Requests, Start(q), q # r
      PROVE  startPc'[r] = startPc[r] /\ finishPc'[r] = finishPc[r]
  <2>1. \E to : startPc' = [startPc EXCEPT ![q] = to]
    BY <1>1 DEF Start, StartRead, StartPlan, StartGraph, StartRegister, StartRun,
       StartUnregister, StartSpawn, StartStep
  <2>2. UNCHANGED finishPc \/ finishPc' = [finishPc EXCEPT ![q] = "outer"]
    BY <1>1 DEF Start, StartRead, StartPlan, StartGraph, StartRegister, StartRun,
       StartUnregister, StartSpawn, NoSpawn
  <2> QED BY <1>1, <2>1, <2>2 DEF RequestType
<1>2. ASSUME NEW q \in Requests, Finish(q), q # r
      PROVE  startPc'[r] = startPc[r] /\ finishPc'[r] = finishPc[r]
  <2>1. UNCHANGED startPc /\ \E to : finishPc' = [finishPc EXCEPT ![q] = to]
    BY <1>2 DEF Finish, FinishOuter, FinishInner, FinishEngines, FinishCheck, FinishRecover,
       FinishMove, FinishTransition, FinishReport, FinishAbort, FinishUnregister,
       FinishCancel, FinishStep
  <2> QED BY <1>2, <2>1 DEF RequestType
<1>3. FinishMove(r) => Finish(r) BY DEF Finish
<1> QED BY <1>1, <1>2, <1>3, RunKinds

LEMMA StageStep == TypeInv /\ RunInv /\ StageInv /\ [Next]_vars => StageInv'
<1> SUFFICES ASSUME TypeInv, RunInv, StageInv, [Next]_vars PROVE StageInv' OBVIOUS
<1>0. RowType /\ RequestType /\ FaultType BY DEF TypeInv, TypeOK
<1>1. CASE UNCHANGED vars BY <1>1 DEF vars, rowVars, StageInv
<1>2. CASE Next
  <2>0. faults \in Nat /\ faults' \in { faults, faults + 1 } BY <1>0, <1>2, FaultMoves
  <2> SUFFICES ASSUME NEW r \in Requests
               PROVE  /\ startPc'[r] = "spawn" \/ finishPc'[r] \in BeforeStopping =>
                           state'[Target[r]] \in { "RUNNING", "STOPPING", "ABORTED" }
                      /\ finishPc'[r] \in WhileStopping =>
                           state'[Target[r]] \in { "STOPPING", "ABORTED" }
                      /\ finishPc'[r] \in { "observe", "toReporting" } =>
                           state'[Target[r]] \in { "ANALYZING", "ABORTED" }
                      /\ finishPc'[r] \in { "generate", "saveReport", "toCompleted" } =>
                           state'[Target[r]] \in { "REPORTING", "ABORTED" }
                      /\ finishPc'[r] = "abort" /\ faults' = 0 => state'[Target[r]] = "ABORTED"
    BY DEF StageInv
  <2>1. Target[r] \in Experiments BY RequestAssumption
  <2>2. /\ startPc[r] = "spawn" \/ finishPc[r] \in BeforeStopping =>
             state[Target[r]] \in { "RUNNING", "STOPPING", "ABORTED" }
        /\ finishPc[r] \in WhileStopping => state[Target[r]] \in { "STOPPING", "ABORTED" }
        /\ finishPc[r] \in { "observe", "toReporting" } =>
             state[Target[r]] \in { "ANALYZING", "ABORTED" }
        /\ finishPc[r] \in { "generate", "saveReport", "toCompleted" } =>
             state[Target[r]] \in { "REPORTING", "ABORTED" }
        /\ finishPc[r] = "abort" /\ faults = 0 => state[Target[r]] = "ABORTED"
    BY DEF StageInv
  <2>3. CASE startPc'[r] = startPc[r] /\ finishPc'[r] = finishPc[r] /\ ~FinishMove(r)
    <3>1. ASSUME Registered(r), state[Target[r]] \notin { "CREATED", "PLANNED" }
          PROVE  \/ state'[Target[r]] \in { state[Target[r]], "ABORTED" }
                 \/ state[Target[r]] = "RUNNING" /\ state'[Target[r]] = "STOPPING"
      BY <1>0, <1>2, <2>3, <3>1, StageKept
    <3>2. /\ startPc[r] = "spawn" => Registered(r)
          /\ finishPc[r] \in BeforeStopping \union WhileStopping
               \union { "observe", "toReporting", "generate", "saveReport", "toCompleted", "abort" }
               => Registered(r)
      BY DEF Registered, BeforeStopping, WhileStopping
    <3>3. faults' = 0 => faults = 0 BY <2>0
    <3> QED BY <2>2, <2>3, <3>1, <3>2, <3>3
  <2>4. CASE Start(r)
    <3>1. startPc[r] # "returned"
      BY <2>4 DEF Start, StartRead, StartPlan, StartGraph, StartRegister, StartRun,
         StartUnregister, StartSpawn, StartStep
    <3>2. finishPc[r] = "none" BY <3>1 DEF RunInv
    <3>3. CASE StartRun(r)
      <4>1. /\ UNCHANGED finishPc
            /\ \/ TransitionOk(Target[r], "RUNNING", "")
               \/ startPc' = [startPc EXCEPT ![r] = "unregister"]
        BY <3>3 DEF StartRun, StartStep, NoSpawn
      <4>2. TransitionOk(Target[r], "RUNNING", "") => state'[Target[r]] = "RUNNING"
        BY <1>0, <2>1, UpdateMoves
      <4> QED BY <1>0, <3>2, <4>1, <4>2 DEF RequestType, BeforeStopping, WhileStopping
    <3>4. CASE StartSpawn(r)
      <4>1. /\ startPc[r] = "spawn" /\ startPc' = [startPc EXCEPT ![r] = "returned"]
            /\ finishPc' = [finishPc EXCEPT ![r] = "outer"]
            /\ UNCHANGED state
        BY <3>4 DEF StartSpawn, StartStep, Read, rowVars
      <4> QED BY <1>0, <2>2, <4>1 DEF RequestType, BeforeStopping, WhileStopping
    <3>5. CASE \/ StartRead(r) \/ StartPlan(r) \/ StartGraph(r) \/ StartRegister(r)
               \/ StartUnregister(r)
      <4>1. /\ UNCHANGED finishPc
            /\ \E to \in StartPcs \ { "spawn" } : startPc' = [startPc EXCEPT ![r] = to]
        BY <3>5 DEF StartRead, StartPlan, StartGraph, StartRegister, StartUnregister,
           StartStep, NoSpawn, StartPcs
      <4> QED BY <1>0, <3>2, <4>1 DEF RequestType, BeforeStopping, WhileStopping
    <3> QED BY <2>4, <3>3, <3>4, <3>5 DEF Start
  <2>5. CASE Finish(r)
    <3>1. finishPc[r] # "none" /\ UNCHANGED startPc
      BY <2>5 DEF Finish, FinishOuter, FinishInner, FinishEngines, FinishCheck, FinishRecover,
         FinishMove, FinishTransition, FinishReport, FinishAbort, FinishUnregister,
         FinishCancel, FinishStep
    <3>2. startPc'[r] # "spawn" BY <3>1 DEF RunInv
    <3>3. Fault => faults' # 0 BY <2>0 DEF Fault
    <3>4. CASE FinishOuter(r) \/ FinishInner(r) \/ FinishEngines(r)
      <4>1. /\ UNCHANGED state
            /\ \/ /\ finishPc[r] \in BeforeStopping
                  /\ finishPc'[r] \in BeforeStopping
               \/ finishPc[r] \in WhileStopping /\ finishPc'[r] \in WhileStopping
               \/ finishPc'[r] = "unregister"
        BY <1>0, <3>4 DEF FinishOuter, FinishInner, FinishEngines, FinishStep, Read, rowVars,
           RequestType, BeforeStopping, WhileStopping
      <4> QED BY <2>2, <3>2, <4>1 DEF BeforeStopping, WhileStopping
    <3>5. CASE FinishCheck(r) \/ FinishRecover(r)
      <4>1. /\ UNCHANGED state
            /\ \/ finishPc'[r] = "recover" /\ state[Target[r]] = "STOPPING"
               \/ finishPc[r] = "check" /\ finishPc'[r] = "toStopping"
               \/ finishPc[r] = "recover" /\ finishPc'[r] \in { "stopWatcher", "shutdownAbort" }
               \/ finishPc'[r] = "abort" /\ Fault
        BY <1>0, <3>5 DEF FinishCheck, FinishRecover, FinishStep, Read, ReadErr, rowVars,
           RequestType
      <4> QED BY <2>2, <3>2, <3>3, <4>1 DEF BeforeStopping, WhileStopping
    <3>6. CASE FinishMove(r)
      <4>1. PICK m \in { << "toStopping", "STOPPING", "recover" >>,
                         << "toAnalyzing", "ANALYZING", "observe" >>,
                         << "toReporting", "REPORTING", "generate" >>,
                         << "toCompleted", "COMPLETED", "unregister" >> } :
              FinishTransition(r, m[1], m[2], m[3])
        BY <3>6 DEF FinishMove
      <4>m. \/ m[1] = "toStopping" /\ m[2] = "STOPPING" /\ m[3] = "recover"
            \/ m[1] = "toAnalyzing" /\ m[2] = "ANALYZING" /\ m[3] = "observe"
            \/ m[1] = "toReporting" /\ m[2] = "REPORTING" /\ m[3] = "generate"
            \/ m[1] = "toCompleted" /\ m[2] = "COMPLETED" /\ m[3] = "unregister"
        BY <4>1
      <4>2. CASE finishPc'[r] = m[3] /\ TransitionOk(Target[r], m[2], "")
        <5>1. state'[Target[r]] = m[2] BY <1>0, <2>1, <4>2, UpdateMoves
        <5> QED BY <3>2, <4>m, <4>2, <5>1 DEF BeforeStopping, WhileStopping
      <4>3. CASE /\ finishPc[r] = m[1] /\ finishPc'[r] = "abort"
                 /\ TransitionErr(Target[r], m[2], "")
        <5>1. SUFFICES ASSUME faults' = 0 PROVE state'[Target[r]] = "ABORTED"
          BY <3>2, <4>3 DEF BeforeStopping, WhileStopping
        <5>2. UNCHANGED state /\ state[Target[r]] # m[2] /\ ~CanTransition(state[Target[r]], m[2])
          BY <3>3, <4>3, <5>1 DEF TransitionErr
        <5>3. /\ CanTransition("RUNNING", "STOPPING") /\ CanTransition("STOPPING", "ANALYZING")
              /\ CanTransition("ANALYZING", "REPORTING") /\ CanTransition("REPORTING", "COMPLETED")
          BY DEF CanTransition, validTransitions
        <5> QED BY <2>2, <4>m, <4>3, <5>2, <5>3 DEF BeforeStopping, WhileStopping
      <4> QED BY <1>0, <4>1, <4>2, <4>3 DEF FinishTransition, FinishStep, RequestType
    <3>7. CASE FinishReport(r)
      <4>1. /\ UNCHANGED state
            /\ \/ finishPc[r] = "observe" /\ finishPc'[r] = "toReporting"
               \/ finishPc[r] = "generate" /\ finishPc'[r] = "saveReport"
               \/ finishPc[r] = "saveReport" /\ finishPc'[r] = "toCompleted"
               \/ finishPc'[r] = "abort" /\ Fault
        BY <1>0, <3>7 DEF FinishReport, FinishStep, Read, ReadErr, rowVars, RequestType
      <4> QED BY <2>2, <3>2, <3>3, <4>1 DEF BeforeStopping, WhileStopping
    <3>8. CASE FinishAbort(r) \/ FinishUnregister(r) \/ FinishCancel(r)
      <4>1. finishPc'[r] \in { "unregister", "shutdownWatcher", "cancel", "done" }
        BY <1>0, <3>8 DEF FinishAbort, FinishUnregister, FinishCancel, FinishStep, RequestType
      <4> QED BY <3>2, <4>1 DEF BeforeStopping, WhileStopping
    <3> QED BY <2>5, <3>4, <3>5, <3>6, <3>7, <3>8 DEF Finish
  <2>6. CASE Restart
    <3>1. startPc'[r] # "spawn" /\ finishPc'[r] = "none" BY <2>6 DEF Restart
    <3> QED BY <3>1 DEF BeforeStopping, WhileStopping
  <2> QED BY <1>0, <1>2, <2>3, <2>4, <2>5, <2>6, OwnMoves
<1> QED BY <1>1, <1>2

LEMMA StageInvariant == Spec => []StageInv
<1>1. Init => StageInv
  BY DEF Init, StageInv, BeforeStopping, WhileStopping
<1> QED BY <1>1, StageStep, RunInvariant, TypeInvariant, PTL DEF Spec

\* A run that drives a row goes on doing so until it completes it or has tried
\* to abort it.
LEMMA DriverMoves ==
  ASSUME RequestType, RunInv, Next, ~Restart, NEW r \in Requests, Drives(r), ~Drives(r)'
  PROVE  TransitionOk(Target[r], "COMPLETED", "") \/ FinishAbort(r)
<1>1. startPc'[r] # "spawn"
      /\ finishPc'[r] \in { "none", "shutdownWatcher", "unregister", "cancel", "done" }
  BY DEF Drives
<1>2. ~(startPc'[r] = startPc[r] /\ finishPc'[r] = finishPc[r])
  BY <1>1 DEF Drives
<1>3. CASE Start(r)
  <2>1. startPc[r] # "returned"
    BY <1>3 DEF Start, StartRead, StartPlan, StartGraph, StartRegister, StartRun,
       StartUnregister, StartSpawn, StartStep
  <2>2. startPc[r] = "spawn" BY <2>1 DEF RunInv, Drives
  <2>3. StartSpawn(r)
    BY <1>3, <2>2 DEF Start, StartRead, StartPlan, StartGraph, StartRegister, StartRun,
       StartUnregister, StartStep
  <2>4. finishPc'[r] = "outer" BY <2>3 DEF StartSpawn, RequestType
  <2> QED BY <1>1, <2>4
<1>4. CASE Finish(r)
  <2>1. finishPc[r] # "none"
    BY <1>4 DEF Finish, FinishOuter, FinishInner, FinishEngines, FinishCheck, FinishRecover,
       FinishMove, FinishTransition, FinishReport, FinishAbort, FinishUnregister,
       FinishCancel, FinishStep
  <2>2. finishPc[r] \notin { "none", "shutdownWatcher", "unregister", "cancel", "done" }
    BY <2>1 DEF RunInv, Drives
  <2>3. CASE FinishMove(r)
    BY <1>1, <2>3 DEF FinishMove, FinishTransition, FinishStep, RequestType
  <2>4. CASE \/ FinishOuter(r) \/ FinishInner(r) \/ FinishEngines(r) \/ FinishCheck(r)
             \/ FinishRecover(r) \/ FinishReport(r)
    BY <1>1, <2>2, <2>4 DEF FinishOuter, FinishInner, FinishEngines, FinishCheck,
       FinishRecover, FinishReport, FinishStep, RequestType
  <2>5. CASE FinishUnregister(r) \/ FinishCancel(r)
    BY <2>2, <2>5 DEF FinishUnregister, FinishCancel, FinishStep
  <2> QED BY <1>4, <2>3, <2>4, <2>5 DEF Finish
<1> QED BY <1>2, <1>3, <1>4, OwnMoves

LEMMA DriveStep == TypeInv /\ RunInv /\ StageInv /\ DriveInv /\ [Next]_vars => DriveInv'
<1> SUFFICES ASSUME TypeInv, RunInv, StageInv, DriveInv, [Next]_vars PROVE DriveInv' OBVIOUS
<1>0. RowType /\ RequestType /\ FaultType /\ RestartType BY DEF TypeInv, TypeOK
<1>1. CASE UNCHANGED vars BY <1>1 DEF vars, rowVars, DriveInv, Going, Drives
<1>2. CASE Next
  <2> SUFFICES ASSUME restarts' = 0, NEW e \in Experiments, Going(e)'
               PROVE  \E r \in Requests : Target[r] = e /\ Drives(r)'
    BY DEF DriveInv
  <2>1. restarts = 0 /\ ~Restart
    BY <1>0, <1>2, RestartStep
  <2>2. faults \in Nat /\ faults' \in { faults, faults + 1 } BY <1>0, <1>2, FaultMoves
  <2>3. CASE Going(e)
    <3>1. PICK r \in Requests : Target[r] = e /\ Drives(r) BY <2>1, <2>3 DEF DriveInv
    <3>2. SUFFICES ASSUME ~Drives(r)' PROVE FALSE BY <3>1
    <3>3. ~TransitionOk(e, "COMPLETED", "")
      <4>1. SUFFICES ASSUME TransitionOk(e, "COMPLETED", "") PROVE FALSE OBVIOUS
      <4>2. state'[e] = "COMPLETED" BY <1>0, <4>1, UpdateMoves
      <4> QED BY <4>2 DEF Going
    <3>4. FinishAbort(r) BY <1>0, <1>2, <2>1, <3>1, <3>2, <3>3, DriverMoves
    <3>5. /\ finishPc[r] \in { "failAbort", "abort", "shutdownAbort" }
          /\ \E why \in { "failure", "shutdown" } :
               TransitionOk(e, "ABORTED", why) \/ TransitionErr(e, "ABORTED", why)
      BY <3>1, <3>4 DEF FinishAbort, FinishStep, abortExperiment
    <3>6. state'[e] # "ABORTED" BY DEF Going
    <3>7. /\ state'[e] = state[e]
          /\ faults' = faults => ~CanTransition(state[e], "ABORTED")
      BY <1>0, <3>5, <3>6, UpdateMoves
    <3>8. state[e] \in { "RUNNING", "STOPPING", "ANALYZING", "REPORTING" } BY <2>3 DEF Going
    <3>9. faults' # faults BY <3>7, <3>8 DEF CanTransition, validTransitions
    <3>10. faults' = 1 /\ faults = 0 /\ state[e] \in { "ANALYZING", "REPORTING" }
      BY <2>2, <3>7, <3>9 DEF Going
    <3> QED BY <3>1, <3>5, <3>10 DEF StageInv, BeforeStopping, WhileStopping
  <2>4. CASE ~Going(e)
    <3>1. state'[e] # state[e] BY <2>2, <2>4 DEF Going
    <3>2. PICK f \in Experiments, t \in ExperimentStates :
            /\ CanTransition(state[f], t)
            /\ state' = [state EXCEPT ![f] = t]
            /\ \/ t \notin PostTraffic
               \/ \E q \in Requests :
                    /\ Target[q] = f /\ << finishPc[q], t >> \in Moving
                    /\ FinishMove(q)
      BY <1>0, <1>2, <3>1, RowMoves DEF rowVars
    <3>3. f = e /\ state'[e] = t BY <1>0, <3>1, <3>2 DEF RowType
    <3>4. CASE t = "RUNNING"
      <4>1. PICK q \in Requests : Target[q] = e /\ StartRun(q)
        BY <1>0, <1>2, <3>1, <3>3, <3>4, RunningMoves
      <4>2. faults' = 0 BY <3>3, <3>4 DEF Going
      <4>3. ~Fault BY <2>2, <4>2 DEF Fault
      <4>4. ~TransitionErr(e, "RUNNING", "") BY <3>1, <4>3 DEF TransitionErr
      <4>5. startPc' = [startPc EXCEPT ![q] = "spawn"]
        BY <4>1, <4>4 DEF StartRun, StartStep
      <4>6. startPc'[q] = "spawn" BY <1>0, <4>5 DEF RequestType
      <4> QED BY <4>1, <4>6 DEF Drives
    <3>5. CASE t = "STOPPING"
      <4>1. state[e] \in ExperimentStates BY <1>0 DEF RowType
      <4>2. state[e] = "RUNNING"
        BY <3>2, <3>3, <3>5, <4>1 DEF CanTransition, validTransitions, ExperimentStates
      <4>3. faults' = 0 BY <3>3, <3>5 DEF Going
      <4> QED BY <2>2, <2>4, <4>2, <4>3 DEF Going
    <3>6. CASE t \in { "ANALYZING", "REPORTING" }
      <4>1. PICK q \in Requests :
              Target[q] = e /\ << finishPc[q], t >> \in Moving /\ FinishMove(q)
        BY <3>2, <3>3, <3>6 DEF PostTraffic
      <4>2. finishPc[q] \in { "toAnalyzing", "toReporting" } BY <3>6, <4>1 DEF Moving
      <4>3. finishPc'[q] \in { "observe", "generate", "abort" }
        BY <1>0, <4>1, <4>2 DEF FinishMove, FinishTransition, FinishStep, RequestType
      <4> QED BY <4>1, <4>3 DEF Drives
    <3> QED BY <3>3, <3>4, <3>5, <3>6 DEF Going
  <2> QED BY <2>3, <2>4
<1> QED BY <1>1, <1>2

LEMMA DriveInvariant == Spec => []DriveInv
<1>1. Init => DriveInv
  <2> SUFFICES ASSUME Init, NEW e \in Experiments PROVE ~Going(e) BY DEF DriveInv
  <2> QED BY DEF Init, Going
<1> QED BY <1>1, DriveStep, StageInvariant, RunInvariant, TypeInvariant, PTL DEF Spec

\* As long as the process lives, a row that says its experiment is running or
\* being stopped has a run behind it unless a statement failed, and one that
\* says it is being analysed or reported unless two did.
THEOREM StrandedRowsCanBeStopped == Spec => []StrandedRowCanBeStopped
<1>1. TypeInv /\ RunInv /\ DriveInv => StrandedRowCanBeStopped
  <2> SUFFICES ASSUME TypeInv, RunInv, DriveInv, NEW e \in Experiments,
                      activeRuns[e] = NoRun, restarts = 0
               PROVE  /\ state[e] \in { "RUNNING", "STOPPING" } => faults > 0
                      /\ state[e] \in { "ANALYZING", "REPORTING" } => faults > 1
    BY DEF StrandedRowCanBeStopped
  <2>1. faults \in Nat BY BoundAssumption DEF TypeInv, TypeOK, FaultType
  <2>2. ~Going(e)
    <3>1. SUFFICES ASSUME NEW r \in Requests, Target[r] = e, Drives(r) PROVE FALSE
      BY DEF DriveInv
    <3>2. Registered(r) BY <3>1 DEF Drives, Registered
    <3> QED BY <3>1, <3>2, RequestAssumption DEF RunInv, OneRunPerExperiment
  <2> QED BY <2>1, <2>2 DEF Going
<1> QED BY <1>1, DriveInvariant, RunInvariant, TypeInvariant, PTL

-----------------------------------------------------------------------------
(* Silence.                                                                *)

\* What makes a run silent, and what makes it stay so: a run past its second
\* select has a closed stressDone, a cancelled context or a failure, and a
\* failure that was signalled to the end has cancelled the contexts.
SilenceInv ==
  \A r \in Requests :
    /\ finishPc[r] = "none" => stressPc[r] = "none"
    /\ engineRun = r => stressPc[r] = "running"
    /\ r \in startErrs => failure[r] # "none"
    /\ failure[r] = "done" => r \in expCancelled
    /\ finishPc[r] \notin { "none", "outer", "inner" } =>
         StressClosed(r) \/ ExpDone(r) \/ failure[r] # "none"

\* Contexts are never un-cancelled and failures never forgotten by a process.
LEMMA ContextMoves ==
  ASSUME RequestType, ContextType, HandlerInv, Next
  PROVE  \/ Restart
         \/ /\ expCancelled \subseteq expCancelled'
            /\ process = "shutdown" => process' = "shutdown"
            /\ \A r \in Requests :
                 /\ failure[r] # "none" => failure'[r] # "none"
                 /\ failure'[r] = "done" => failure[r] = "done" \/ r \in expCancelled'
                 /\ r \in startErrs' => r \in startErrs \/ failure'[r] # "none"
<1> DEFINE Kept == \A r \in Requests :
                     /\ failure[r] # "none" => failure'[r] # "none"
                     /\ failure'[r] = "done" => failure[r] = "done" \/ r \in expCancelled'
                     /\ r \in startErrs' => r \in startErrs \/ failure'[r] # "none"
<1>1. ASSUME NEW q \in Requests, Signal(q) PROVE Kept
  BY <1>1 DEF Signal, ContextType
<1>2. ASSUME UNCHANGED failure, startErrs' \subseteq startErrs PROVE Kept BY <1>2
<1>3. ASSUME NEW q \in Requests, Start(q)
      PROVE  /\ expCancelled \subseteq expCancelled'
             /\ UNCHANGED << process, failure, startErrs >>
  BY <1>3 DEF Start, StartRead, StartPlan, StartGraph, StartRegister, StartRun,
     StartUnregister, StartSpawn, StartStep
<1>4. ASSUME NEW q \in Requests, Finish(q)
      PROVE  /\ expCancelled \subseteq expCancelled' /\ startErrs' \subseteq startErrs
             /\ UNCHANGED << process, failure >>
  BY <1>4 DEF Finish, FinishOuter, FinishInner, FinishEngines, FinishCheck, FinishRecover,
     FinishMove, FinishTransition, FinishReport, FinishAbort, FinishUnregister,
     FinishCancel, FinishStep, Local, TakeErr
<1>5. ASSUME NEW q \in Requests, SignalCancel(q)
      PROVE  expCancelled \subseteq expCancelled' /\ UNCHANGED process /\ Kept
  BY <1>5 DEF SignalCancel, managerVars, ContextType
<1>6. ASSUME NEW q \in Requests, StressStart(q) \/ StressExit(q) \/ StressFail(q)
      PROVE  /\ UNCHANGED << process, expCancelled >>
             /\ Signal(q) \/ UNCHANGED << failure, startErrs >>
  BY <1>6 DEF StressStart, StressExit, StressFail, StressFrame, managerVars
<1>7. ASSUME NEW q \in Requests, WatchStart(q)
      PROVE  UNCHANGED << process, expCancelled, failure, startErrs >>
  BY <1>7 DEF WatchStart, managerVars, contextVars
<1>8. ASSUME NEW q \in Requests, Loop(q)
      PROVE  /\ UNCHANGED << process, expCancelled >>
             /\ \/ UNCHANGED << failure, startErrs >>
                \/ \E h \in Requests : Signal(h)
  <2>1. loopPc[q] = "save" => loopHandler[q] \in Requests BY DEF HandlerInv
  <2> QED
    BY <1>8, <2>1 DEF Loop, Poll, SaveObservation, Evaluate, LoopSignalled, LoopExit,
       LoopFrame, managerVars
<1>9. ASSUME NEW s \in Stops, Stop(s)
      PROVE  UNCHANGED << process, expCancelled, failure, startErrs >>
  BY <1>9 DEF Stop, StopLookup, StopActive, StopOrphan, StopAbort, StopStep, managerVars
<1>10. CASE Shutdown
  BY <1>10 DEF Shutdown, contextVars
<1> HIDE DEF Kept
<1>11. CASE \E q \in Requests : Start(q) BY <1>2, <1>3, <1>11 DEF Kept
<1>12. CASE \E q \in Requests : Finish(q) BY <1>2, <1>4, <1>12 DEF Kept
<1>13. CASE \E q \in Requests :
              \/ SignalCancel(q) \/ StressStart(q) \/ StressExit(q) \/ StressFail(q)
              \/ WatchStart(q) \/ Loop(q)
  BY <1>1, <1>2, <1>5, <1>6, <1>7, <1>8, <1>13 DEF Kept
<1>14. CASE \E s \in Stops : Stop(s) BY <1>2, <1>9, <1>14 DEF Kept
<1> QED BY <1>10, <1>11, <1>12, <1>13, <1>14 DEF Next, Kept

\* How the engine, the stress goroutine and finishExperiment of a run move.
LEMMA StressMoves ==
  ASSUME TypeOK, RunInv, SilenceInv, Next, NEW r \in Requests
  PROVE  \/ Restart
         \/ /\ finishPc'[r] = "none" => finishPc[r] = "none" /\ stressPc'[r] = stressPc[r]
            /\ engineRun' = r =>
                 stressPc'[r] = "running"
            /\ StressClosed(r) => StressClosed(r)' \/ finishPc'[r] = "outer"
<1>0. /\ finishPc \in [Requests -> FinishPcs] /\ startPc \in [Requests -> StartPcs]
      /\ stressPc \in [Requests -> { "none", "spawned", "running", "failing", "failed", "closed" }]
      /\ NoRun \notin Requests
  BY RequestAssumption DEF TypeOK, RequestType, EngineType
<1>1. /\ finishPc[r] = "none" => stressPc[r] = "none"
      /\ engineRun = r => stressPc[r] = "running"
  BY DEF SilenceInv
<1>2. CASE UNCHANGED << finishPc, stressPc, engineRun >> BY <1>1, <1>2 DEF StressClosed
<1>3. ASSUME NEW q \in Requests, Start(q)
      PROVE  /\ UNCHANGED engineRun
             /\ \/ UNCHANGED << finishPc, stressPc >>
                \/ /\ startPc[q] = "spawn"
                   /\ stressPc' = [stressPc EXCEPT ![q] = "spawned"]
                   /\ finishPc' = [finishPc EXCEPT ![q] = "outer"]
  BY <1>3 DEF Start, StartRead, StartPlan, StartGraph, StartRegister, StartRun,
     StartUnregister, StartSpawn, StartStep, NoSpawn
<1>4. ASSUME NEW q \in Requests, Start(q)
      PROVE  /\ finishPc'[r] = "none" => finishPc[r] = "none" /\ stressPc'[r] = stressPc[r]
             /\ engineRun' = r => stressPc'[r] = "running"
             /\ StressClosed(r) => StressClosed(r)' \/ finishPc'[r] = "outer"
  <2>1. startPc[q] = "spawn" => finishPc[q] = "none" BY DEF RunInv
  <2> QED BY <1>0, <1>1, <1>3, <1>4, <2>1 DEF StressClosed, SilenceInv
<1>5. ASSUME NEW q \in Requests, Finish(q)
      PROVE  /\ UNCHANGED << stressPc, engineRun >>
             /\ finishPc[q] # "none"
             /\ \E to \in FinishPcs \ { "none" } : finishPc' = [finishPc EXCEPT ![q] = to]
  BY <1>5 DEF Finish, FinishOuter, FinishInner, FinishEngines, FinishCheck, FinishRecover,
     FinishMove, FinishTransition, FinishReport, FinishAbort, FinishUnregister,
     FinishCancel, FinishStep, NoEngine, stressVars, StressStop, FinishPcs
<1>6. ASSUME NEW q \in Requests, StressStart(q) \/ StressExit(q) \/ StressFail(q)
      PROVE  /\ UNCHANGED finishPc
             /\ stressPc[q] \in { "spawned", "running", "failing" }
             /\ \/ /\ stressPc' = [stressPc EXCEPT ![q] = "running"] /\ engineRun' = q
                   /\ engineRun = NoRun
                \/ /\ \E to \in { "closed" } : stressPc' = [stressPc EXCEPT ![q] = to]
                   /\ engineRun' = NoRun
                \/ /\ stressPc[q] # "running" /\ UNCHANGED engineRun
                   /\ \E to \in { "failing", "failed" } : stressPc' = [stressPc EXCEPT ![q] = to]
  BY <1>6 DEF StressStart, StressExit, StressFail, StressFrame
<1>7. ASSUME NEW q \in Requests, StressStart(q) \/ StressExit(q) \/ StressFail(q)
      PROVE  /\ finishPc'[r] = "none" => finishPc[r] = "none" /\ stressPc'[r] = stressPc[r]
             /\ engineRun' = r => stressPc'[r] = "running"
             /\ StressClosed(r) => StressClosed(r)' \/ finishPc'[r] = "outer"
  BY <1>0, <1>1, <1>6, <1>7 DEF StressClosed
<1>8. ASSUME NEW q \in Requests, SignalCancel(q) \/ WatchStart(q) \/ Loop(q)
      PROVE  UNCHANGED << finishPc, stressPc, engineRun >>
  BY <1>8 DEF SignalCancel, WatchStart, Loop, Poll, SaveObservation, Evaluate, LoopSignalled,
     LoopExit, LoopFrame, stressVars
<1>9. ASSUME NEW s \in Stops, Stop(s) PROVE UNCHANGED << finishPc, stressPc, engineRun >>
  BY <1>9 DEF Stop, StopLookup, StopActive, StopOrphan, StopAbort, StopStep, stressVars
<1>10. CASE Shutdown BY <1>2, <1>10 DEF Shutdown, stressVars
<1>11. CASE \E q \in Requests : Finish(q) BY <1>0, <1>1, <1>5, <1>11 DEF StressClosed
<1> QED BY <1>2, <1>4, <1>7, <1>8, <1>9, <1>10, <1>11 DEF Next

\* A run leaves the two selects only with a reason.
LEMMA SelectMoves ==
  ASSUME RequestType, Next, NEW r \in Requests
  PROVE  \/ Restart
         \/ finishPc'[r] \in { "none", "outer", "inner" }
         \/ finishPc[r] \notin { "none", "outer", "inner" }
         \/ r \in startErrs \/ StressClosed(r) \/ ExpDone(r)
<1>1. ASSUME NEW q \in Requests, Start(q)
      PROVE  \/ UNCHANGED finishPc
             \/ finishPc' = [finishPc EXCEPT ![q] = "outer"]
  BY <1>1 DEF Start, StartRead, StartPlan, StartGraph, StartRegister, StartRun,
     StartUnregister, StartSpawn, NoSpawn
<1>2. ASSUME NEW q \in Requests, FinishOuter(q) \/ FinishInner(q)
      PROVE  \/ finishPc' = [finishPc EXCEPT ![q] = "inner"]
             \/ /\ q \in startErrs \/ StressClosed(q) \/ ExpDone(q)
                /\ \E to \in FinishPcs : finishPc' = [finishPc EXCEPT ![q] = to]
  BY <1>2 DEF FinishOuter, FinishInner, FinishStep, TakeErr, FinishPcs
<1>3. ASSUME NEW q \in Requests,
             \/ FinishEngines(q) \/ FinishCheck(q) \/ FinishRecover(q) \/ FinishMove(q)
             \/ FinishReport(q) \/ FinishAbort(q) \/ FinishUnregister(q) \/ FinishCancel(q)
      PROVE  /\ finishPc[q] \notin { "none", "outer", "inner" }
             /\ \E to \in FinishPcs : finishPc' = [finishPc EXCEPT ![q] = to]
  BY <1>3 DEF FinishEngines, FinishCheck, FinishRecover, FinishMove, FinishTransition,
     FinishReport, FinishAbort, FinishUnregister, FinishCancel, FinishStep, FinishPcs
<1>4. CASE UNCHANGED finishPc BY <1>4
<1>5. CASE \E q \in Requests : Start(q) BY <1>1, <1>5 DEF RequestType
<1>6. CASE \E q \in Requests : Finish(q)
  BY <1>2, <1>3, <1>6 DEF Finish, RequestType
<1> QED BY <1>4, <1>5, <1>6, RunKinds

LEMMA SilenceStep == TypeInv /\ RunInv /\ SilenceInv /\ [Next]_vars => SilenceInv'
<1> SUFFICES ASSUME TypeInv, RunInv, SilenceInv, [Next]_vars PROVE SilenceInv' OBVIOUS
<1>0. /\ TypeOK /\ RequestType /\ ContextType /\ HandlerInv
      /\ NoRun \notin Requests
  BY RequestAssumption DEF TypeInv, TypeOK
<1>1. CASE UNCHANGED vars
  BY <1>1 DEF vars, stressVars, contextVars, managerVars, SilenceInv, StressClosed, ExpDone
<1>2. CASE Restart BY <1>0, <1>2 DEF Restart, SilenceInv
<1>3. CASE Next /\ ~Restart
  <2> SUFFICES ASSUME NEW r \in Requests
               PROVE  /\ finishPc'[r] = "none" => stressPc'[r] = "none"
                      /\ engineRun' = r => stressPc'[r] = "running"
                      /\ r \in startErrs' => failure'[r] # "none"
                      /\ failure'[r] = "done" => r \in expCancelled'
                      /\ finishPc'[r] \notin { "none", "outer", "inner" } =>
                           StressClosed(r)' \/ ExpDone(r)' \/ failure'[r] # "none"
    BY DEF SilenceInv, StressClosed, ExpDone
  <2>1. /\ finishPc[r] = "none" => stressPc[r] = "none"
        /\ r \in startErrs => failure[r] # "none"
        /\ failure[r] = "done" => r \in expCancelled
        /\ finishPc[r] \notin { "none", "outer", "inner" } =>
             StressClosed(r) \/ ExpDone(r) \/ failure[r] # "none"
    BY DEF SilenceInv
  <2>2. /\ expCancelled \subseteq expCancelled'
        /\ process = "shutdown" => process' = "shutdown"
        /\ failure[r] # "none" => failure'[r] # "none"
        /\ failure'[r] = "done" => failure[r] = "done" \/ r \in expCancelled'
        /\ r \in startErrs' => r \in startErrs \/ failure'[r] # "none"
    BY <1>0, <1>3, ContextMoves
  <2>3. /\ finishPc'[r] = "none" => finishPc[r] = "none" /\ stressPc'[r] = stressPc[r]
        /\ engineRun' = r => stressPc'[r] = "running"
        /\ StressClosed(r) => StressClosed(r)' \/ finishPc'[r] = "outer"
    BY <1>0, <1>3, StressMoves
  <2>4. \/ finishPc'[r] \in { "none", "outer", "inner" }
        \/ finishPc[r] \notin { "none", "outer", "inner" }
        \/ r \in startErrs \/ StressClosed(r) \/ ExpDone(r)
    BY <1>0, <1>3, SelectMoves
  <2>5. ExpDone(r) => ExpDone(r)' BY <2>2 DEF ExpDone
  <2> QED BY <2>1, <2>2, <2>3, <2>4, <2>5
<1> QED BY <1>1, <1>2, <1>3

LEMMA SilenceInvariant == Spec => []SilenceInv
<1>1. Init => SilenceInv
  <2> SUFFICES ASSUME Init, NEW r \in Requests
               PROVE  /\ finishPc[r] = "none" /\ stressPc[r] = "none" /\ engineRun # r
                      /\ r \notin startErrs /\ failure[r] = "none"
    BY Zenon DEF SilenceInv
  <2> QED BY RequestAssumption DEF Init
<1> QED BY <1>1, SilenceStep, RunInvariant, TypeInvariant, PTL DEF Spec

\* No run sends requests to a target whose experiment is already being
\* analysed or reported, whatever ended the run: only a failure caught between
\* its message and its cancellation is excepted.
THEOREM AnalysedRowHasNoTraffic == Spec => []TrafficStoppedBeforeAnalysis
<1>1. TypeOK /\ RowInv /\ SilenceInv => TrafficStoppedBeforeAnalysis
  <2> SUFFICES ASSUME TypeOK, RowInv, SilenceInv, NEW r \in Requests,
                      state[Target[r]] \in PostTraffic, Traffic(r)
               PROVE  failure[r] = "sent"
    BY DEF TrafficStoppedBeforeAnalysis
  <2>1. stressPc[r] = "running" /\ ~ExpDone(r)
    BY DEF SilenceInv, Traffic, StressDone
  <2>2. finishPc[r] \notin { "none", "outer", "inner" }
    BY <2>1 DEF SilenceInv, RowInv
  <2>3. failure[r] # "none" /\ failure[r] # "done"
    BY <2>1, <2>2 DEF SilenceInv, StressClosed, ExpDone
  <2> QED BY <2>3 DEF TypeOK, ContextType
<1> QED BY <1>1, TypeCorrect, RowInvariant, SilenceInvariant, PTL

-----------------------------------------------------------------------------
(* The watcher of a sole run.                                              *)

\* The goroutines of a run are created together; before that nobody knows the
\* run, and its context is only cancelled by a start that gives up.
SpawnInv ==
  \A r \in Requests :
    /\ watchPc[r] = "none" <=> finishPc[r] = "none"
    /\ watcherLoop = r \/ r \in loopStopped \/ loopPc[r] # "none" => watchPc[r] = "returned"
    /\ handlerRun = r \/ failure[r] # "none" => watchPc[r] # "none"
    /\ \A q \in Requests : loopHandler[q] = r => watchPc[r] # "none"
    /\ r \in expCancelled =>
         /\ startPc[r] \in { "unregister", "returned" }
         /\ watchPc[r] = "none" \/ failure[r] = "done" \/ finishPc[r] = "done"

\* finishExperiment has not called watcher.Stop and is not about to.
BeforeStop == { "outer", "inner", "stopStress", "check", "toStopping", "recover" }

\* The handler is that of the sole run; its loop is the one the engine would
\* stop, and can only have left because the run's context is cancelled.
ServeInv ==
  \A r \in Requests : Alone(r) /\ watchPc[r] # "none" =>
    /\ handlerRun = r
    /\ watchPc[r] = "returned" /\ finishPc[r] \in BeforeStop =>
         /\ watcherLoop = r /\ r \notin loopStopped /\ loopPc[r] # "none"
         /\ loopPc[r] = "exited" => ExpDone(r)

\* The variables the two invariants speak of.
serveVars == << startPc, finishPc, watchPc, handlerRun, watcherLoop, loopPc, loopStopped,
                loopHandler, failure, expCancelled >>

\* The steps that leave these variables alone.
LEMMA ServeFrame ==
  ASSUME \/ \E r \in Requests : StressExit(r) \/ StressFail(r)
         \/ \E s \in Stops : Stop(s)
         \/ Shutdown \/ UNCHANGED vars
  PROVE  UNCHANGED serveVars /\ (process = "shutdown" => process' = "shutdown")
<1> USE DEF serveVars, watchVars, engineVars, managerVars, contextVars
<1>1. ASSUME NEW r \in Requests, StressExit(r) \/ StressFail(r)
      PROVE  UNCHANGED serveVars /\ UNCHANGED process
  BY <1>1 DEF StressExit, StressFail, StressFrame
<1>2. ASSUME NEW s \in Stops, Stop(s) PROVE UNCHANGED serveVars /\ UNCHANGED process
  BY <1>2 DEF Stop, StopLookup, StopActive, StopOrphan, StopAbort, StopStep
<1>3. CASE Shutdown BY <1>3 DEF Shutdown
<1>4. CASE UNCHANGED vars BY <1>4 DEF vars
<1> QED BY <1>1, <1>2, <1>3, <1>4

\* A start either creates the goroutines of its run, or gives up with its
\* context cancelled, or goes on with nothing to show.
LEMMA StartMoves ==
  ASSUME RequestType, NEW q \in Requests, Start(q)
  PROVE  /\ UNCHANGED << process, failure, loopPc, loopHandler, watcherLoop, loopStopped >>
         /\ \A r \in Requests \ {q} : startPc'[r] = startPc[r]
         /\ \/ /\ startPc[q] = "spawn" /\ startPc'[q] = "returned"
               /\ handlerRun' = q /\ UNCHANGED expCancelled
               /\ watchPc' = [watchPc EXCEPT ![q] = "spawned"]
               /\ finishPc' = [finishPc EXCEPT ![q] = "outer"]
            \/ /\ startPc'[q] \in { "unregister", "returned" }
               /\ expCancelled' \in { expCancelled, expCancelled \union {q} }
               /\ startPc[q] # "returned" /\ UNCHANGED << watchPc, handlerRun, finishPc >>
            \/ /\ startPc[q] \notin { "unregister", "returned" }
               /\ UNCHANGED << expCancelled, watchPc, handlerRun, finishPc >>
<1> USE DEF StartStep, NoSpawn, RequestType
<1>1. CASE StartRead(q) \/ StartPlan(q) \/ StartGraph(q)
  <2>1. /\ UNCHANGED << process, failure, loopPc, loopHandler, watcherLoop, loopStopped,
                       expCancelled, watchPc, handlerRun, finishPc >>
        /\ startPc[q] \in { "idle", "plan", "graph" }
        /\ \E to : startPc' = [startPc EXCEPT ![q] = to]
    BY <1>1 DEF StartRead, StartPlan, StartGraph
  <2> QED BY <2>1
<1>2. CASE StartRegister(q) BY <1>2 DEF StartRegister
<1>3. CASE StartRun(q)
  <2>1. /\ UNCHANGED << process, failure, loopPc, loopHandler, watcherLoop, loopStopped,
                       watchPc, handlerRun, finishPc >>
        /\ startPc[q] = "run"
        /\ \/ /\ startPc' = [startPc EXCEPT ![q] = "spawn"] /\ UNCHANGED expCancelled
           \/ /\ startPc' = [startPc EXCEPT ![q] = "unregister"]
              /\ expCancelled' = expCancelled \union {q}
    BY <1>3 DEF StartRun
  <2> QED BY <2>1
<1>4. CASE StartUnregister(q) BY <1>4 DEF StartUnregister
<1>5. CASE StartSpawn(q) BY <1>5 DEF StartSpawn
<1> QED BY <1>1, <1>2, <1>3, <1>4, <1>5 DEF Start

\* finishExperiment stops the watcher behind the recovery window only, and
\* cancels the context of its run with its last step.
LEMMA FinishMoves ==
  ASSUME RequestType, NEW q \in Requests, Finish(q)
  PROVE  /\ UNCHANGED << process, failure, startPc, watchPc, handlerRun, loopPc, loopHandler >>
         /\ finishPc[q] # "none"
         /\ \E to \in FinishPcs \ { "none" } : finishPc' = [finishPc EXCEPT ![q] = to]
         /\ finishPc'[q] \in BeforeStop => finishPc[q] \in BeforeStop
         /\ \/ UNCHANGED << watcherLoop, loopStopped >>
            \/ /\ finishPc'[q] \notin BeforeStop
               /\ watcherLoop' = NoRun
               /\ loopStopped' = loopStopped \union ({watcherLoop} \ {NoRun})
         /\ \/ UNCHANGED expCancelled
            \/ finishPc'[q] = "done" /\ expCancelled' = expCancelled \union {q}
         /\ finishPc[q] # "done"
<1> USE DEF FinishStep, RequestType, BeforeStop, FinishPcs
<1>1. CASE FinishOuter(q) \/ FinishInner(q)
  BY <1>1 DEF FinishOuter, FinishInner, NoEngine, engineVars
<1>2. CASE FinishEngines(q)
  BY <1>2 DEF FinishEngines, Local, engineVars, WatcherStop
<1>3. CASE FinishCheck(q) \/ FinishRecover(q) \/ FinishAbort(q)
  BY <1>3 DEF FinishCheck, FinishRecover, FinishAbort, Local, NoEngine, engineVars
<1>4. CASE FinishMove(q)
  <2>1. /\ UNCHANGED << process, failure, startPc, watchPc, handlerRun, loopPc, loopHandler,
                       watcherLoop, loopStopped, expCancelled >>
        /\ \/ finishPc[q] = "toStopping" /\ finishPc' = [finishPc EXCEPT ![q] = "recover"]
           \/ /\ finishPc[q] \in { "toStopping", "toAnalyzing", "toReporting", "toCompleted" }
              /\ \E to \in { "observe", "generate", "unregister", "abort" } :
                   finishPc' = [finishPc EXCEPT ![q] = to]
    BY <1>4, Zenon DEF FinishMove, FinishTransition, Local, NoEngine, engineVars
  <2> QED BY <2>1
<1>5. CASE FinishReport(q)
  BY <1>5 DEF FinishReport, Local, NoEngine, engineVars
<1>6. CASE FinishUnregister(q) \/ FinishCancel(q)
  BY <1>6 DEF FinishUnregister, FinishCancel, NoEngine, engineVars
<1> QED BY <1>1, <1>2, <1>3, <1>4, <1>5, <1>6 DEF Finish

\* A poll loop only moves itself, and signals a failure to the run whose
\* handler it took from the engine.
LEMMA LoopMoves ==
  ASSUME EngineType, HandlerInv, NEW q \in Requests, Loop(q)
  PROVE  /\ UNCHANGED << process, startPc, finishPc, watchPc, handlerRun, watcherLoop,
                         loopStopped, expCancelled >>
         /\ loopPc[q] # "none"
         /\ \E to \in { "wait", "save", "evaluate", "signal", "exited" } :
              loopPc' = [loopPc EXCEPT ![q] = to]
         /\ loopPc'[q] = "exited" => q \in loopStopped \/ ExpDone(q)
         /\ \/ UNCHANGED loopHandler
            \/ loopHandler' = [loopHandler EXCEPT ![q] = handlerRun]
         /\ \/ UNCHANGED failure
            \/ loopHandler[q] \in Requests /\ Signal(loopHandler[q])
<1> USE DEF LoopFrame, managerVars, engineVars, EngineType
<1>1. CASE Poll(q) BY <1>1 DEF Poll
<1>2. CASE SaveObservation(q)
  BY <1>2 DEF SaveObservation, HandlerInv
<1>3. CASE Evaluate(q) BY <1>3 DEF Evaluate
<1>4. CASE LoopSignalled(q) BY <1>4 DEF LoopSignalled
<1>5. CASE LoopExit(q) BY <1>5 DEF LoopExit
<1> QED BY <1>1, <1>2, <1>3, <1>4, <1>5 DEF Loop

\* A failure is signalled by the run's own goroutine or by a loop that has its
\* handler; in both cases the run has its goroutines.
LEMMA FailureMoves ==
  ASSUME ContextType, NEW q \in Requests, StressStart(q) \/ SignalCancel(q)
  PROVE  /\ UNCHANGED << startPc, finishPc, watchPc, handlerRun, watcherLoop, loopPc,
                         loopStopped, loopHandler, process >>
         /\ \/ /\ stressPc[q] # "none" /\ UNCHANGED expCancelled
               /\ Signal(q) \/ UNCHANGED failure
            \/ /\ failure[q] # "none" /\ failure'[q] = "done"
               /\ \A r \in Requests \ {q} : failure'[r] = failure[r]
               /\ expCancelled' = expCancelled \union {q}
BY DEF StressStart, SignalCancel, StressFrame, watchVars, engineVars, managerVars, ContextType

LEMMA SignalMoves ==
  ASSUME ContextType, NEW q \in Requests, Signal(q)
  PROVE  /\ \A r \in Requests \ {q} : failure'[r] = failure[r]
         /\ failure'[q] # "none" /\ (failure[q] = "done" => failure'[q] = "done")
BY DEF Signal, ContextType

LEMMA SpawnStep ==
  ASSUME TypeInv, RunInv, SilenceInv, SpawnInv, [Next]_vars PROVE SpawnInv'
<1> USE DEF TypeInv, TypeOK
<1>1. ASSUME UNCHANGED serveVars PROVE SpawnInv'
  BY <1>1 DEF serveVars, SpawnInv
<1>2. ASSUME NEW q \in Requests, Start(q) PROVE SpawnInv'
  <2>1. startPc[q] # "returned" => finishPc[q] = "none" BY DEF RunInv
  <2> QED BY <1>2, <2>1, StartMoves DEF SpawnInv, RequestType, EngineType
<1>3. ASSUME NEW q \in Requests, Finish(q) PROVE SpawnInv'
  <2>1. \A r \in Requests : finishPc'[r] = "none" <=> finishPc[r] = "none"
    BY <1>3, FinishMoves DEF RequestType
  <2>2. startPc[q] = "returned" BY <1>3, FinishMoves DEF RunInv
  <2>3. \A r \in Requests : watcherLoop' = r \/ r \in loopStopped' =>
                              watcherLoop = r \/ r \in loopStopped
    BY <1>3, FinishMoves, RequestAssumption
  <2>4. \A r \in Requests : r \in expCancelled' =>
          r \in expCancelled \/ (r = q /\ finishPc'[r] = "done")
    BY <1>3, FinishMoves
  <2>5. \A r \in Requests : finishPc[r] = "done" => finishPc'[r] = "done"
    BY <1>3, FinishMoves DEF RequestType
  <2>6. UNCHANGED << failure, startPc, watchPc, handlerRun, loopPc, loopHandler >>
    BY <1>3, FinishMoves
  <2> QED BY <2>1, <2>2, <2>3, <2>4, <2>5, <2>6 DEF SpawnInv
<1>4. ASSUME NEW q \in Requests, Loop(q) PROVE SpawnInv'
  BY <1>4, LoopMoves, SignalMoves DEF SpawnInv, EngineType, ContextType
<1>5. ASSUME NEW q \in Requests, StressStart(q) \/ SignalCancel(q) PROVE SpawnInv'
  BY <1>5, FailureMoves, SignalMoves DEF SpawnInv, SilenceInv, RunInv, ContextType
<1>6. ASSUME NEW q \in Requests, WatchStart(q) PROVE SpawnInv'
  BY <1>6 DEF WatchStart, contextVars, SpawnInv, EngineType
<1>7. CASE Restart BY <1>7, RequestAssumption DEF Restart, SpawnInv
<1> QED BY <1>1, <1>2, <1>3, <1>4, <1>5, <1>6, <1>7, ServeFrame DEF Next

LEMMA SpawnInvariant == Spec => []SpawnInv
<1>1. Init => SpawnInv
  <2> SUFFICES ASSUME Init PROVE SpawnInv OBVIOUS
  <2>1. /\ watcherLoop = NoRun /\ handlerRun = NoRun /\ loopStopped = {} /\ expCancelled = {}
        /\ watchPc = [r \in Requests |-> "none"] /\ finishPc = [r \in Requests |-> "none"]
        /\ loopPc = [r \in Requests |-> "none"] /\ failure = [r \in Requests |-> "none"]
        /\ loopHandler = [r \in Requests |-> NoRun]
    BY DEF Init
  <2> QED BY <2>1, RequestAssumption DEF SpawnInv
<1> QED BY <1>1, SpawnStep, SilenceInvariant, RunInvariant, TypeInvariant, PTL DEF Spec

\* What a step must keep of the watcher of run r.
Served(r) ==
  /\ handlerRun = r
  /\ watchPc[r] = "returned" /\ finishPc[r] \in BeforeStop =>
       /\ watcherLoop = r /\ r \notin loopStopped /\ loopPc[r] # "none"
       /\ loopPc[r] = "exited" => ExpDone(r)

LEMMA ServeStep ==
  ASSUME TypeInv, RunInv, SilenceInv, SpawnInv, ServeInv, [Next]_vars PROVE ServeInv'
<1> USE DEF TypeInv, TypeOK
<1> SUFFICES ASSUME NEW r \in Requests, Alone(r)', watchPc'[r] # "none" PROVE Served(r)'
  BY DEF ServeInv, Served
<1>0. Alone(r) /\ watchPc[r] # "none" => Served(r) BY DEF ServeInv, Served
<1>1. ASSUME UNCHANGED serveVars, process = "shutdown" => process' = "shutdown"
      PROVE  Served(r)'
  BY <1>0, <1>1 DEF serveVars, Served, Alone, ExpDone
<1>2. ASSUME NEW q \in Requests, Start(q) PROVE Served(r)'
  <2>1. startPc[q] # "returned" => finishPc[q] = "none" BY DEF RunInv
  <2>2. CASE UNCHANGED << watchPc, handlerRun, finishPc >>
    BY <1>0, <1>2, <2>2, StartMoves DEF Served, Alone, ExpDone
  <2>3. CASE /\ handlerRun' = q
             /\ watchPc' = [watchPc EXCEPT ![q] = "spawned"]
    <3>1. q = r BY <2>3 DEF Alone, EngineType
    <3> QED BY <2>3, <3>1 DEF Served, EngineType
  <2> QED BY <1>2, <2>2, <2>3, StartMoves
<1>3. ASSUME NEW q \in Requests, Finish(q) PROVE Served(r)'
  <2>1. finishPc[q] # "none" /\ UNCHANGED watchPc BY <1>3, FinishMoves
  <2>2. q = r /\ Served(r) BY <1>0, <2>1 DEF SpawnInv, Alone
  <2> QED BY <1>3, <2>2, FinishMoves DEF Served, ExpDone
<1>4. ASSUME NEW q \in Requests, Loop(q) PROVE Served(r)'
  <2>1. UNCHANGED << process, finishPc, watchPc, handlerRun, watcherLoop, loopStopped,
                     expCancelled >>
    BY <1>4, LoopMoves
  <2>2. Served(r) BY <1>0, <2>1 DEF Alone
  <2>3. loopPc'[r] = "exited" => loopPc[r] = "exited" \/ r \in loopStopped \/ ExpDone(r)
    BY <1>4, LoopMoves DEF EngineType
  <2>4. loopPc[r] # "none" => loopPc'[r] # "none"
    BY <1>4, LoopMoves DEF EngineType
  <2> QED BY <2>1, <2>2, <2>3, <2>4 DEF Served, ExpDone
<1>5. ASSUME NEW q \in Requests, StressStart(q) \/ SignalCancel(q) PROVE Served(r)'
  <2>1. /\ UNCHANGED << process, finishPc, watchPc, handlerRun, watcherLoop, loopPc,
                        loopStopped >>
        /\ expCancelled \subseteq expCancelled'
    BY <1>5, FailureMoves
  <2> QED BY <1>0, <2>1 DEF Served, Alone, ExpDone
<1>6. ASSUME NEW q \in Requests, WatchStart(q) PROVE Served(r)'
  <2>1. /\ watchPc[q] = "spawned" /\ watchPc' = [watchPc EXCEPT ![q] = "returned"]
        /\ UNCHANGED << handlerRun, loopStopped, process, finishPc >>
        /\ watcherLoop = NoRun => watcherLoop' = q /\ loopPc' = [loopPc EXCEPT ![q] = "wait"]
    BY <1>6 DEF WatchStart, managerVars
  <2>2. q = r BY <2>1 DEF Alone, EngineType
  <2>3. Alone(r) /\ Served(r) BY <1>0, <2>1, <2>2 DEF Alone, EngineType
  <2>4. watcherLoop = NoRun /\ r \notin loopStopped
    <3>1. \A p \in Requests : watcherLoop # p
      BY <2>1, <2>2, <2>3 DEF Alone, SpawnInv
    <3>2. r \notin loopStopped BY <2>1, <2>2 DEF SpawnInv
    <3> QED BY <3>1, <3>2 DEF EngineType
  <2> QED BY <2>1, <2>2, <2>3, <2>4 DEF Served, EngineType
<1>7. CASE Restart BY <1>7 DEF Restart
<1> QED BY <1>1, <1>2, <1>3, <1>4, <1>5, <1>6, <1>7, ServeFrame DEF Next

LEMMA ServeInvariant == Spec => []ServeInv
<1>1. Init => ServeInv BY DEF Init, ServeInv
<1> QED
  BY <1>1, ServeStep, SpawnInvariant, SilenceInvariant, RunInvariant, TypeInvariant, PTL
  DEF Spec

\* As long as a process has had no other run, the watcher observes the recovery
\* window of the run: nothing but a failure or the shutdown ends its loop before
\* finishExperiment stops it.
THEOREM RecoveryIsObserved == Spec => []WatcherServesRecovery
<1>1. SpawnInv /\ ServeInv => WatcherServesRecovery
  <2> SUFFICES ASSUME SpawnInv, ServeInv, NEW r \in Requests,
                      finishPc[r] = "recover", watchPc[r] = "returned", Alone(r),
                      failure[r] = "none", process = "serving"
               PROVE  /\ watcherLoop = r /\ handlerRun = r
                      /\ loopPc[r] \notin { "none", "exited" } /\ r \notin loopStopped
    BY DEF WatcherServesRecovery
  <2>1. ~ExpDone(r) BY DEF SpawnInv, ExpDone
  <2>2. /\ watcherLoop = r /\ handlerRun = r /\ r \notin loopStopped /\ loopPc[r] # "none"
        /\ loopPc[r] = "exited" => ExpDone(r)
    BY DEF ServeInv, BeforeStop
  <2> QED BY <2>1, <2>2
<1> QED BY <1>1, SpawnInvariant, ServeInvariant, PTL
================================================================================
