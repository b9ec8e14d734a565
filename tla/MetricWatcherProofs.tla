------------------------- MODULE MetricWatcherProofs -------------------------
(***************************************************************************)
(* Theorems about MetricWatcher, for any number of calls of Start and      *)
(* Stop, any buffer size and any failure threshold.                        *)
(***************************************************************************)
EXTENDS MetricWatcher, TLAPS

-----------------------------------------------------------------------------
(* Types.                                                                  *)

\* A call of Stop that cancels or waits has a run to stop.
StopsARun ==
  \A s \in Stoppers :
    /\ stopPc[s] \in { "cancel", "waiting" } => stopRun[s] \in Runs
    /\ stopPc[s] = "idle" => stopRun[s] = NoRun

TypeInv == TypeOK /\ StopsARun

LEMMA TypeInit == Init => TypeInv
BY WatcherAssumption
   DEF Init, TypeInv, StopsARun, TypeOK, SlotType, CallType, LoopType, LoopPcs

LEMMA SlotTypeStep == ASSUME TypeOK, Next PROVE SlotType'
<1>1. ASSUME NEW r \in Runs,
             StartCheck(r) \/ StartLock(r) \/ CancelCaller(r) \/ Loop(r) \/ Receive(r)
      PROVE  SlotType'
  BY <1>1 DEF StartCheck, StartLock, Begin, Refuse, CancelCaller, Loop, Tick, QueryOk,
     QueryFail, Send, LoopLeave, CloseOut, Release, SignalDone, LoopStep, Receive, slotVars,
     TypeOK, SlotType
<1>2. ASSUME NEW s \in Stoppers, Stop(s) PROVE SlotType'
  BY <1>2 DEF Stop, StopLock, StopCancel, StopWait, StopStep, TypeOK, SlotType
<1> QED BY <1>1, <1>2 DEF Next

LEMMA CallTypeStep == ASSUME TypeInv, Next PROVE CallType' /\ StopsARun'
<1> USE DEF TypeInv, TypeOK
<1>1. ASSUME NEW r \in Runs,
             StartCheck(r) \/ StartLock(r) \/ CancelCaller(r) \/ Loop(r) \/ Receive(r)
      PROVE  CallType' /\ UNCHANGED stopVars
  BY <1>1 DEF StartCheck, StartLock, Begin, Refuse, CancelCaller, Loop, Tick, QueryOk,
     QueryFail, Send, LoopLeave, CloseOut, Release, SignalDone, LoopStep, Receive, stopVars,
     CallType
<1>2. ASSUME NEW s \in Stoppers, Stop(s) PROVE CallType' /\ StopsARun'
  <2>1. stopPc[s] = "cancel" => stopRun[s] \in Runs BY DEF StopsARun
  <2>2. CASE StopLock(s)
    <3>1. currentRun \in Runs \union {NoRun} BY DEF SlotType
    <3> QED BY <2>2, <3>1 DEF StopLock, StopStep, CallType, StopsARun
  <2>3. CASE StopCancel(s) \/ StopWait(s)
    BY <2>1, <2>3 DEF StopCancel, StopWait, StopStep, CallType, StopsARun
  <2> QED BY <1>2, <2>2, <2>3 DEF Stop
<1> QED BY <1>1, <1>2 DEF Next, StopsARun, stopVars

LEMMA LoopTypeStep == ASSUME TypeInv, Next PROVE LoopType'
<1> USE DEF TypeInv, TypeOK
<1>1. ASSUME NEW r \in Runs, StartCheck(r) \/ StartLock(r) \/ CancelCaller(r)
      PROVE  LoopType'
  BY <1>1 DEF StartCheck, StartLock, Begin, Refuse, CancelCaller, pollVars, LoopType,
     LoopPcs, Polling
<1>2. ASSUME NEW r \in Runs, Loop(r) PROVE loopPc' \in [Runs -> LoopPcs]
  BY <1>2 DEF Loop, Tick, QueryOk, QueryFail, Send, LoopLeave, CloseOut, Release,
     SignalDone, LoopStep, LoopType, LoopPcs, Polling, Leaving
<1>3. ASSUME NEW r \in Runs, Loop(r)
      PROVE  /\ closed' \subseteq Runs
             /\ streak' \in [Runs -> Nat]
  BY <1>3 DEF Loop, Tick, QueryOk, QueryFail, Send, LoopLeave, CloseOut, Release,
     SignalDone, pollVars, LoopType
<1>4. ASSUME NEW r \in Runs, Loop(r) \/ Receive(r)
      PROVE  buffered' \in [Runs -> 0 .. BufferSize]
  <2>1. CASE Send(r) \/ Receive(r)
    <3>1. BufferSize \in Nat /\ buffered \in [Runs -> 0 .. BufferSize]
      BY WatcherAssumption DEF LoopType
    <3>2. \/ UNCHANGED buffered
          \/ buffered[r] < BufferSize /\ buffered' = [buffered EXCEPT ![r] = @ + 1]
          \/ buffered[r] > 0 /\ buffered' = [buffered EXCEPT ![r] = @ - 1]
      BY <2>1 DEF Send, Receive
    <3> QED BY <3>1, <3>2
  <2>2. CASE Loop(r) /\ ~Send(r)
    BY <2>2 DEF Loop, Tick, QueryOk, QueryFail, LoopLeave, CloseOut, Release, SignalDone,
       pollVars, LoopType
  <2> QED BY <1>4, <2>1, <2>2
<1>5. ASSUME NEW r \in Runs, Receive(r) PROVE UNCHANGED << loopPc, closed, streak >>
  BY <1>5 DEF Receive
<1>6. ASSUME NEW s \in Stoppers, Stop(s) PROVE UNCHANGED << loopPc, pollVars >>
  BY <1>6 DEF Stop, StopLock, StopCancel, StopWait, StopStep
<1> QED
  BY <1>1, <1>2, <1>3, <1>4, <1>5, <1>6 DEF Next, LoopType, pollVars

LEMMA TypeStep == TypeInv /\ [Next]_vars => TypeInv'
<1> SUFFICES ASSUME TypeInv, [Next]_vars PROVE TypeInv' OBVIOUS
<1>1. CASE Next
  BY <1>1, SlotTypeStep, CallTypeStep, LoopTypeStep DEF TypeInv, TypeOK
<1>2. CASE UNCHANGED vars
  BY <1>2 DEF vars, slotVars, pollVars, stopVars, TypeInv, TypeOK, SlotType, CallType,
     LoopType, StopsARun
<1> QED BY <1>1, <1>2

LEMMA TypeInvariant == Spec => []TypeInv
BY TypeInit, TypeStep, PTL DEF Spec

-----------------------------------------------------------------------------
(* The slot.                                                               *)

\* The run in the slot is the one whose loop has not released it.
Holding == Polling \union { "closing", "releasing" }

SlotInv ==
  /\ state = "stopped" <=> currentRun = NoRun
  /\ \A r \in Runs :
       /\ loopPc[r] \in Holding <=> currentRun = r
       /\ startPc[r] \in { "idle", "checked" } => loopPc[r] = "none"
       /\ loopPc[r] \in { "releasing", "signalling", "done" } => r \in closed

LEMMA SlotStep == TypeInv /\ SlotInv /\ [Next]_vars => SlotInv'
<1> SUFFICES ASSUME TypeInv, SlotInv, [Next]_vars PROVE SlotInv' OBVIOUS
<1>0. /\ NoRun \notin Runs /\ TypeOK
      /\ startPc \in [Runs -> { "idle", "checked", "started", "refused" }]
      /\ loopPc \in [Runs -> LoopPcs]
  BY WatcherAssumption DEF TypeInv, TypeOK, CallType, LoopType
<1>1. ASSUME NEW r \in Runs, StartCheck(r) \/ StartLock(r) PROVE SlotInv'
  BY <1>0, <1>1 DEF StartCheck, StartLock, Begin, Refuse, slotVars, pollVars, SlotInv,
     Holding, Polling
<1>2. ASSUME NEW r \in Runs, CancelCaller(r) \/ Receive(r) PROVE SlotInv'
  BY <1>2 DEF CancelCaller, Receive, slotVars, pollVars, SlotInv
<1>3. ASSUME NEW r \in Runs, Tick(r) \/ QueryOk(r) \/ QueryFail(r) \/ Send(r) \/ LoopLeave(r)
      PROVE  SlotInv'
  <2>1. /\ loopPc[r] \in Polling
        /\ \E to \in Polling \union { "closing" } : loopPc' = [loopPc EXCEPT ![r] = to]
        /\ UNCHANGED << state, currentRun, startPc, closed >>
    BY <1>3 DEF Tick, QueryOk, QueryFail, Send, LoopLeave, LoopStep, slotVars, pollVars,
       Polling
  <2> QED BY <1>0, <2>1 DEF SlotInv, Holding, Polling
<1>4. ASSUME NEW r \in Runs, CloseOut(r) PROVE SlotInv'
  BY <1>0, <1>4 DEF CloseOut, LoopStep, slotVars, SlotInv, Holding, Polling
<1>5. ASSUME NEW r \in Runs, Release(r) \/ SignalDone(r) PROVE SlotInv'
  BY <1>0, <1>5 DEF Release, SignalDone, LoopStep, slotVars, pollVars, SlotInv, Holding,
     Polling
<1>6. ASSUME NEW s \in Stoppers, Stop(s) PROVE SlotInv'
  <2>1. /\ UNCHANGED << currentRun, startPc, loopPc, closed >>
        /\ \/ UNCHANGED state
           \/ state = "running" /\ state' = "stopping"
    BY <1>6 DEF Stop, StopLock, StopCancel, StopWait, StopStep, pollVars
  <2> QED BY <2>1 DEF SlotInv
<1>7. CASE UNCHANGED vars BY <1>7 DEF vars, slotVars, pollVars, SlotInv
<1> QED BY <1>1, <1>2, <1>3, <1>4, <1>5, <1>6, <1>7 DEF Next, Loop

LEMMA SlotInvariant == Spec => []SlotInv
<1>1. Init => SlotInv
  BY WatcherAssumption DEF Init, SlotInv, Holding, Polling
<1> QED BY <1>1, SlotStep, TypeInvariant, PTL DEF Spec

-----------------------------------------------------------------------------
(* The slot is implemented.                                                *)

\* A loop that left its ticker left because its context is cancelled.
LeavingInv == \A r \in Runs : loopPc[r] \in { "closing", "releasing" } => Done(r)

LEMMA LeavingStep == TypeInv /\ LeavingInv /\ [Next]_vars => LeavingInv'
<1> SUFFICES ASSUME TypeInv, LeavingInv, [Next]_vars PROVE LeavingInv' OBVIOUS
<1>0. loopPc \in [Runs -> LoopPcs] BY DEF TypeInv, TypeOK, LoopType
<1>1. ASSUME NEW r \in Runs, StartCheck(r) \/ StartLock(r) PROVE LeavingInv'
  BY <1>0, <1>1 DEF StartCheck, StartLock, Begin, Refuse, LeavingInv, Done
<1>2. ASSUME NEW r \in Runs, CancelCaller(r) \/ Receive(r) PROVE LeavingInv'
  BY <1>2 DEF CancelCaller, Receive, LeavingInv, Done
<1>3. ASSUME NEW r \in Runs, Loop(r) PROVE LeavingInv'
  <2>1. /\ UNCHANGED << callerDone, cancelled >>
        /\ \A q \in Runs \ {r} : loopPc'[q] = loopPc[q]
        /\ loopPc'[r] \in { "closing", "releasing" } => Done(r)
    BY <1>0, <1>3 DEF Loop, Tick, QueryOk, QueryFail, Send, LoopLeave, CloseOut, Release,
       SignalDone, LoopStep, LeavingInv
  <2>2. \A q \in Runs : loopPc'[q] \in { "closing", "releasing" } => Done(q)
    BY <2>1 DEF LeavingInv
  <2> QED BY <2>1, <2>2 DEF LeavingInv, Done
<1>4. ASSUME NEW s \in Stoppers, Stop(s) PROVE LeavingInv'
  <2>1. UNCHANGED << callerDone, loopPc >> /\ cancelled \subseteq cancelled'
    BY <1>4 DEF Stop, StopLock, StopCancel, StopWait, StopStep
  <2> QED BY <2>1 DEF LeavingInv, Done
<1>5. CASE UNCHANGED vars BY <1>5 DEF vars, LeavingInv, Done
<1> QED BY <1>1, <1>2, <1>3, <1>4, <1>5 DEF Next

LEMMA LeavingInvariant == Spec => []LeavingInv
<1>1. Init => LeavingInv BY DEF Init, LeavingInv
<1> QED BY <1>1, LeavingStep, TypeInvariant, PTL DEF Spec

phases == [r \in Runs |-> Phase(r)]

\* One run changes its phase: the step is one of the slot, or none.
LEMMA OnePhase ==
  ASSUME NEW r \in Runs, NEW p, phases' = [phases EXCEPT ![r] = p],
         \/ p = Phase(r)
         \/ Phase(r) = "none" /\ p \in { "polling", "leaving" }
              /\ \A q \in Runs : Phase(q) \notin { "polling", "leaving" }
         \/ Phase(r) = "polling" /\ p = "leaving"
         \/ Phase(r) = "leaving" /\ p = "gone"
  PROVE  [Slot!Next]_phases
<1>1. phases = [q \in Runs |-> Phase(q)] /\ phases[r] = Phase(r) BY DEF phases
<1>2. CASE p = Phase(r) BY <1>1, <1>2
<1>3. CASE Phase(r) = "none" /\ p \in { "polling", "leaving" }
            /\ \A q \in Runs : Phase(q) \notin { "polling", "leaving" }
  BY <1>1, <1>3 DEF phases, Slot!Next, Slot!Enter, Slot!Occupied
<1>4. CASE Phase(r) = "polling" /\ p = "leaving"
  BY <1>1, <1>4 DEF phases, Slot!Next, Slot!Retire
<1>5. CASE Phase(r) = "leaving" /\ p = "gone"
  BY <1>1, <1>5 DEF phases, Slot!Next, Slot!Leave
<1> QED BY <1>2, <1>3, <1>4, <1>5

LEMMA PhaseStep ==
  TypeInv /\ SlotInv /\ LeavingInv /\ [Next]_vars => [Slot!Next]_phases
<1> SUFFICES ASSUME TypeInv, SlotInv, LeavingInv, [Next]_vars PROVE [Slot!Next]_phases
  OBVIOUS
<1>0. NoRun \notin Runs /\ loopPc \in [Runs -> LoopPcs]
  BY WatcherAssumption DEF TypeInv, TypeOK, LoopType
<1>1. ASSUME UNCHANGED << loopPc, callerDone, cancelled >> PROVE [Slot!Next]_phases
  BY <1>1 DEF phases, Phase, Done
<1>2. ASSUME NEW r \in Runs, StartLock(r), Begin(r) PROVE [Slot!Next]_phases
  <2>1. /\ loopPc[r] = "none" /\ currentRun = NoRun
        /\ UNCHANGED << callerDone, cancelled >>
        /\ \E to \in { "wait", "query" } : loopPc' = [loopPc EXCEPT ![r] = to]
    BY <1>0, <1>2 DEF StartLock, Begin, Refuse, SlotInv
  <2>2. \A q \in Runs : Phase(q) \notin { "polling", "leaving" }
    BY <1>0, <2>1 DEF SlotInv, Phase, Holding, LoopPcs, Polling, Leaving
  <2>3. \E p \in { "polling", "leaving" } : phases' = [phases EXCEPT ![r] = p]
    BY <1>0, <2>1 DEF phases, Phase, Done
  <2>4. Phase(r) = "none" BY <2>1 DEF Phase
  <2> QED BY <2>2, <2>3, <2>4, OnePhase
<1>3. ASSUME NEW r \in Runs, CancelCaller(r) PROVE [Slot!Next]_phases
  <2>1. /\ UNCHANGED << loopPc, cancelled >> /\ callerDone' = callerDone \union {r}
    BY <1>3 DEF CancelCaller
  <2>2. phases' = [phases EXCEPT ![r] = IF Phase(r) = "polling" THEN "leaving" ELSE Phase(r)]
    BY <1>0, <2>1 DEF phases, Phase, Done
  <2> QED BY <2>2, OnePhase
<1>4. ASSUME NEW r \in Runs, Loop(r) PROVE [Slot!Next]_phases
  <2>0. UNCHANGED << callerDone, cancelled >>
    BY <1>4 DEF Loop, Tick, QueryOk, QueryFail, Send, LoopLeave, CloseOut, Release,
       SignalDone, LoopStep
  <2>1. CASE Release(r)
    <3>1. loopPc[r] = "releasing" /\ loopPc' = [loopPc EXCEPT ![r] = "signalling"] /\ Done(r)
      BY <2>1 DEF Release, LoopStep, LeavingInv
    <3>2. Phase(r) = "leaving" /\ phases' = [phases EXCEPT ![r] = "gone"]
      BY <1>0, <2>0, <3>1 DEF phases, Phase, Done
    <3> QED BY <3>2, OnePhase
  <2>2. CASE SignalDone(r)
    <3>1. loopPc[r] = "signalling" /\ loopPc' = [loopPc EXCEPT ![r] = "done"]
      BY <2>2 DEF SignalDone, LoopStep
    <3>2. UNCHANGED phases BY <1>0, <2>0, <3>1 DEF phases, Phase, Done
    <3> QED BY <3>2
  <2>3. CASE ~Release(r) /\ ~SignalDone(r)
    <3>1. /\ loopPc[r] \in Polling \union { "closing" }
          /\ \E to \in Polling \union { "closing", "releasing" } :
               loopPc' = [loopPc EXCEPT ![r] = to]
      BY <1>4, <2>3 DEF Loop, Tick, QueryOk, QueryFail, Send, LoopLeave, CloseOut, LoopStep,
         Polling
    <3>2. UNCHANGED phases BY <1>0, <2>0, <3>1 DEF phases, Phase, Done, Polling
    <3> QED BY <3>2
  <2> QED BY <2>1, <2>2, <2>3
<1>5. ASSUME NEW s \in Stoppers, StopCancel(s) PROVE [Slot!Next]_phases
  <2>1. /\ UNCHANGED << loopPc, callerDone >>
        /\ stopRun[s] \in Runs /\ cancelled' = cancelled \union { stopRun[s] }
    BY <1>5 DEF StopCancel, StopStep, TypeInv, StopsARun
  <2> DEFINE r == stopRun[s]
  <2>2. phases' = [phases EXCEPT ![r] = IF Phase(r) = "polling" THEN "leaving" ELSE Phase(r)]
    BY <1>0, <2>1 DEF phases, Phase, Done
  <2> QED BY <2>1, <2>2, OnePhase
<1>6. ASSUME NEW r \in Runs, StartCheck(r) \/ (StartLock(r) /\ ~Begin(r)) \/ Receive(r)
      PROVE  UNCHANGED << loopPc, callerDone, cancelled >>
  BY <1>6 DEF StartCheck, StartLock, Refuse, Receive
<1>7. ASSUME NEW s \in Stoppers, StopLock(s) \/ StopWait(s)
      PROVE  UNCHANGED << loopPc, callerDone, cancelled >>
  BY <1>7 DEF StopLock, StopWait, StopStep
<1>8. CASE UNCHANGED vars BY <1>1, <1>8 DEF vars
<1> QED BY <1>1, <1>2, <1>3, <1>4, <1>5, <1>6, <1>7, <1>8 DEF Next, Stop

\* However calls of Start and Stop overlap, one run holds the slot at a time,
\* and its loop has gone before the next one begins.
THEOREM StreamIsASlot == Spec => StreamImplementsSlot
<1>1. Init => Slot!Init BY DEF Init, Slot!Init, Phase
<1> QED
  BY <1>1, PhaseStep, TypeInvariant, SlotInvariant, LeavingInvariant, PTL
  DEF Spec, StreamImplementsSlot, Slot!Spec, phases

-----------------------------------------------------------------------------
(* Stop.                                                                   *)

\* A loop that has ended stays ended.
LEMMA DoneIsStable ==
  ASSUME TypeInv, SlotInv, Next, NEW r \in Runs, loopPc[r] = "done"
  PROVE  loopPc'[r] = "done"
<1>0. loopPc \in [Runs -> LoopPcs] BY DEF TypeInv, TypeOK, LoopType
<1>1. ASSUME NEW q \in Runs, StartCheck(q) \/ StartLock(q) PROVE loopPc'[r] = "done"
  <2>1. \/ UNCHANGED loopPc
        \/ startPc[q] = "checked" /\ \E to : loopPc' = [loopPc EXCEPT ![q] = to]
    BY <1>1 DEF StartCheck, StartLock, Begin, Refuse
  <2> QED BY <1>0, <2>1 DEF SlotInv
<1>2. ASSUME NEW q \in Runs, Loop(q) PROVE loopPc'[r] = "done"
  <2>1. loopPc[q] # "done" /\ \E to : loopPc' = [loopPc EXCEPT ![q] = to]
    BY <1>2 DEF Loop, Tick, QueryOk, QueryFail, Send, LoopLeave, CloseOut, Release,
       SignalDone, LoopStep
  <2> QED BY <1>0, <2>1
<1>3. ASSUME NEW q \in Runs, CancelCaller(q) \/ Receive(q) PROVE UNCHANGED loopPc
  BY <1>3 DEF CancelCaller, Receive
<1>4. ASSUME NEW s \in Stoppers, Stop(s) PROVE UNCHANGED loopPc
  BY <1>4 DEF Stop, StopLock, StopCancel, StopWait, StopStep
<1> QED BY <1>1, <1>2, <1>3, <1>4 DEF Next

StopInv ==
  \A s \in Stoppers, r \in Runs :
    stopPc[s] = "returned" /\ stopRun[s] = r => loopPc[r] = "done"

LEMMA StopInvStep == TypeInv /\ SlotInv /\ StopInv /\ [Next]_vars => StopInv'
<1> SUFFICES ASSUME TypeInv, SlotInv, StopInv, [Next]_vars PROVE StopInv' OBVIOUS
<1>1. CASE UNCHANGED vars BY <1>1 DEF vars, stopVars, StopInv
<1>2. CASE Next
  <2>1. CASE UNCHANGED stopVars BY <1>2, <2>1, DoneIsStable DEF stopVars, StopInv
  <2>2. ASSUME NEW s \in Stoppers, Stop(s) PROVE StopInv'
    <3>0. stopPc \in [Stoppers -> { "idle", "cancel", "waiting", "returned" }]
          /\ stopRun \in [Stoppers -> Runs \union {NoRun}]
      BY DEF TypeInv, TypeOK, CallType
    <3>1. UNCHANGED loopPc BY <2>2 DEF Stop, StopLock, StopCancel, StopWait, StopStep
    <3>2. \/ \E to \in { "cancel", "waiting" } : stopPc' = [stopPc EXCEPT ![s] = to]
             /\ \E q : stopRun' = [stopRun EXCEPT ![s] = q]
          \/ /\ stopPc' = [stopPc EXCEPT ![s] = "returned"] /\ UNCHANGED stopRun
             /\ stopRun[s] = NoRun \/ loopPc[stopRun[s]] = "done"
      <4>1. CASE StopLock(s)
        BY <3>0, <4>1 DEF StopLock, StopStep, TypeInv, StopsARun
      <4>2. CASE StopCancel(s)
        <5>1. stopRun' = [stopRun EXCEPT ![s] = stopRun[s]]
          BY <3>0, <4>2 DEF StopCancel
        <5> QED BY <4>2, <5>1 DEF StopCancel, StopStep
      <4>3. CASE StopWait(s) BY <4>3 DEF StopWait, StopStep
      <4> QED BY <2>2, <4>1, <4>2, <4>3 DEF Stop
    <3> QED BY <3>0, <3>1, <3>2, WatcherAssumption DEF StopInv
  <2>3. ASSUME NEW r \in Runs,
               StartCheck(r) \/ StartLock(r) \/ CancelCaller(r) \/ Loop(r) \/ Receive(r)
        PROVE  UNCHANGED stopVars
    BY <2>3 DEF StartCheck, StartLock, CancelCaller, Loop, Tick, QueryOk, QueryFail, Send,
       LoopLeave, CloseOut, Release, SignalDone, LoopStep, Receive
  <2> QED BY <1>2, <2>1, <2>2, <2>3 DEF Next
<1> QED BY <1>1, <1>2

\* A call of Stop that returned left no loop, no open channel and no occupied
\* slot behind, whichever of several callers it was.
THEOREM StopReallyWaits == Spec => []StopWaitsForTheLoop
<1>1. Init => StopInv BY DEF Init, StopInv
<1>2. TypeInv /\ SlotInv /\ StopInv => StopWaitsForTheLoop
  BY DEF TypeInv, TypeOK, CallType, SlotInv, StopInv, StopWaitsForTheLoop, Holding, Polling
<1> QED BY <1>1, <1>2, StopInvStep, TypeInvariant, SlotInvariant, PTL DEF Spec

-----------------------------------------------------------------------------
(* The failure counter.                                                    *)

\* While a run is not cancelled, the shared counter counts its own errors.
CounterInv ==
  \A r \in Runs :
    /\ startPc[r] \in { "idle", "checked" } => streak[r] = 0
    /\ currentRun = r /\ ~Done(r) => consecutiveFailures = streak[r]
    /\ loopPc[r] = "sendSynthetic" /\ ~Done(r) => streak[r] >= Threshold

LEMMA CounterStep ==
  TypeInv /\ SlotInv /\ CounterInv /\ [Next]_vars => CounterInv'
<1> SUFFICES ASSUME TypeInv, SlotInv, CounterInv, [Next]_vars PROVE CounterInv' OBVIOUS
<1>0. /\ NoRun \notin Runs
      /\ startPc \in [Runs -> { "idle", "checked", "started", "refused" }]
      /\ loopPc \in [Runs -> LoopPcs] /\ streak \in [Runs -> Nat]
      /\ consecutiveFailures \in Nat /\ Threshold \in Nat
  BY WatcherAssumption DEF TypeInv, TypeOK, SlotType, CallType, LoopType
<1>1. ASSUME NEW r \in Runs, StartCheck(r) PROVE CounterInv'
  BY <1>0, <1>1 DEF StartCheck, slotVars, pollVars, CounterInv, Done
<1>2. ASSUME NEW r \in Runs, StartLock(r) PROVE CounterInv'
  <2>1. CASE Begin(r) /\ consecutiveFailures' = 0 /\ startPc[r] = "checked"
             /\ UNCHANGED << callerDone, cancelled, streak >>
    <3>1. streak[r] = 0 BY <2>1 DEF CounterInv
    <3> QED BY <1>0, <2>1, <3>1 DEF Begin, CounterInv, Done
  <2>2. CASE Refuse(r) /\ UNCHANGED << callerDone, cancelled, streak >>
    BY <1>0, <2>2 DEF Refuse, slotVars, CounterInv, Done
  <2> QED BY <1>2, <2>1, <2>2 DEF StartLock, pollVars
<1>3. ASSUME NEW r \in Runs, CancelCaller(r) \/ Receive(r) PROVE CounterInv'
  BY <1>3 DEF CancelCaller, Receive, slotVars, pollVars, CounterInv, Done
<1>4. ASSUME NEW r \in Runs, QueryFail(r) PROVE CounterInv'
  <2>1. currentRun = r BY <1>4 DEF QueryFail, LoopStep, SlotInv, Holding, Polling
  <2>2. /\ UNCHANGED << currentRun, startPc, callerDone, cancelled >>
        /\ consecutiveFailures' = consecutiveFailures + 1
        /\ loopPc' = [loopPc EXCEPT ![r] =
                        IF consecutiveFailures + 1 >= Threshold THEN "sendSynthetic" ELSE "wait"]
        /\ \/ streak' = [streak EXCEPT ![r] = @ + 1]
           \/ Done(r) /\ UNCHANGED streak
    BY <1>4 DEF QueryFail, LoopStep, slotVars
  <2>3. startPc[r] \notin { "idle", "checked" }
    BY <1>4 DEF QueryFail, LoopStep, SlotInv
  <2> QED BY <1>0, <2>1, <2>2, <2>3 DEF CounterInv, Done
<1>5. ASSUME NEW r \in Runs, QueryOk(r) PROVE CounterInv'
  <2>1. currentRun = r BY <1>5 DEF QueryOk, LoopStep, SlotInv, Holding, Polling
  <2> QED BY <1>0, <1>5, <2>1 DEF QueryOk, LoopStep, slotVars, CounterInv, Done
<1>6. ASSUME NEW r \in Runs,
             Tick(r) \/ Send(r) \/ LoopLeave(r) \/ CloseOut(r) \/ Release(r) \/ SignalDone(r)
      PROVE  CounterInv'
  <2>1. /\ UNCHANGED << startPc, callerDone, cancelled, consecutiveFailures, streak >>
        /\ \E to \in LoopPcs \ { "sendSynthetic" } : loopPc' = [loopPc EXCEPT ![r] = to]
        /\ currentRun' \in { currentRun, NoRun }
    BY <1>6 DEF Tick, Send, LoopLeave, CloseOut, Release, SignalDone, LoopStep, slotVars,
       pollVars, LoopPcs, Polling, Leaving
  <2> QED BY <1>0, <2>1 DEF CounterInv, Done
<1>7. ASSUME NEW s \in Stoppers, Stop(s) PROVE CounterInv'
  <2>1. /\ UNCHANGED << currentRun, startPc, callerDone, consecutiveFailures, streak, loopPc >>
        /\ cancelled \subseteq cancelled'
    BY <1>7 DEF Stop, StopLock, StopCancel, StopWait, StopStep, pollVars
  <2> QED BY <2>1 DEF CounterInv, Done
<1>8. CASE UNCHANGED vars BY <1>8 DEF vars, slotVars, pollVars, CounterInv, Done
<1> QED BY <1>1, <1>2, <1>3, <1>4, <1>5, <1>6, <1>7, <1>8 DEF Next, Loop

\* A live run sees a synthetic breach only after Threshold Prometheus errors
\* in a row of its own, whatever earlier runs left in the counter.
THEOREM BreachesAreOwn == Spec => []BreachNeedsOwnErrors
<1>1. Init => CounterInv BY WatcherAssumption DEF Init, CounterInv
<1>2. CounterInv => BreachNeedsOwnErrors BY DEF CounterInv, BreachNeedsOwnErrors
<1> QED BY <1>1, <1>2, CounterStep, TypeInvariant, SlotInvariant, PTL DEF Spec
=============================================================================
