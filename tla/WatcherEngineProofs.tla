------------------------- MODULE WatcherEngineProofs -------------------------
(***************************************************************************)
(* Proofs about the watcher engine, for any number of runs, thresholds,    *)
(* answers of Prometheus and storage faults: its types, its slot, and the  *)
(* two invariants of the fail-safe stop.                                   *)
(***************************************************************************)
EXTENDS WatcherEngine, TLAPS

LoopPcs == { "none", "wait", "query", "deliver", "handle", "exited" }

-----------------------------------------------------------------------------
(* The steps of Next, one lemma's worth of facts for each group.           *)

\* What the manager's own steps leave alone or only add to.
LEMMA ClientSteps ==
  ASSUME NEW r \in Runs, SetSnapshotHandler(r) \/ StopTraffic(r) \/ Stop(r) \/ CancelExp(r)
  PROVE  /\ UNCHANGED << wiring, historyVars, loopPc, held, heldHandler, faults >>
         /\ expDone \subseteq expDone' /\ stressDone \subseteq stressDone'
         /\ loopCancelled \subseteq loopCancelled'
BY DEF SetSnapshotHandler, StopTraffic, Stop, CancelExp, ClientStep, contextVars

\* Only the handlers change the contexts, and they only cancel them.
LEMMA LoopSteps ==
  ASSUME NEW r \in Runs, Loop(r)
  PROVE  /\ UNCHANGED << wiring, engineVars, clientVars, loopCancelled >>
         /\ expDone \subseteq expDone' /\ stressDone \subseteq stressDone'
         /\ \E from, to \in LoopPcs : LoopStep(r, from, to)
BY DEF Loop, Tick, Query, QueryOk, QueryErr, Deliver, Handle, SaveFails, SaveAndEvaluate,
   EvaluateOnly, Handled, Leave, Quiet, LoopStep, contextVars, LoopPcs

-----------------------------------------------------------------------------
(* Types.                                                                  *)

LEMMA CountType ==
  ASSUME TypeOK, NEW r \in Runs, NEW n \in Nat, NEW s \in Nat, Count(r, n, s)
  PROVE  /\ consecutiveFailures' \in 0 .. Threshold /\ streak' \in [Runs -> 0 .. Threshold]
         /\ disturbed' \subseteq Runs
<1>1. Capped(n) \in 0 .. Threshold /\ Capped(s) \in 0 .. Threshold
  BY EngineAssumption DEF Capped
<1> QED BY <1>1 DEF Count, TypeOK

LEMMA HandleType ==
  ASSUME TypeOK, NEW r \in Runs, Handle(r), heldHandler[r] \in Runs
  PROVE  TypeOK'
<1>1. expDone' \subseteq Runs /\ stressDone' \subseteq Runs /\ faults' \in 0 .. MaxFaults
  BY EngineAssumption DEF TypeOK, Handle, SaveFails, SaveAndEvaluate, EvaluateOnly
<1>2. Handled(r) BY DEF Handle, SaveFails, SaveAndEvaluate, EvaluateOnly
<1>3. /\ loopPc' \in [Runs -> LoopPcs] /\ DOMAIN held' = Runs
      /\ heldHandler' \in [Runs -> Runs \union {NoRun}]
  BY <1>2 DEF Handled, LoopStep, TypeOK, LoopPcs
<1> QED
  BY <1>1, <1>2, <1>3 DEF TypeOK, Handled, LoopStep, LoopPcs, engineVars, clientVars,
     historyVars

\* The engine runs for a run, and the handler a loop has copied is that of a
\* run: it is never nil.
HandlerInv ==
  /\ running => current \in Runs
  /\ \A r \in Runs : startPc[r] # "none" => handler \in Runs
  /\ \A r \in Runs : Active(r) => startPc[r] # "none"
  /\ \A r \in Runs : loopPc[r] = "handle" => heldHandler[r] \in Runs

TypeInv == TypeOK /\ HandlerInv

LEMMA TypeInit == Init => TypeInv
<1> SUFFICES ASSUME Init PROVE TypeInv OBVIOUS
<1>1. 0 \in 0 .. Threshold /\ 0 \in 0 .. MaxFaults BY EngineAssumption
<1>2. TypeOK BY <1>1 DEF Init, TypeOK
<1>3. HandlerInv BY DEF Init, HandlerInv, Active
<1> QED BY <1>2, <1>3 DEF TypeInv

LEMMA StartType == ASSUME TypeInv, NEW r \in Runs, Start(r) PROVE TypeInv'
<1>1. /\ consecutiveFailures' \in 0 .. Threshold /\ streak' \in [Runs -> 0 .. Threshold]
      /\ disturbed' \subseteq Runs
  BY CountType DEF Start, TypeInv, TypeOK, historyVars
<1>2. TypeOK'
  BY <1>1 DEF Start, Started, Begin, StartFrame, TypeInv, TypeOK, contextVars
<1>3. HandlerInv'
  BY DEF Start, Started, Begin, StartFrame, TypeInv, TypeOK, HandlerInv, Active
<1> QED BY <1>2, <1>3 DEF TypeInv

LEMMA ClientType ==
  ASSUME TypeInv, NEW r \in Runs,
         SetSnapshotHandler(r) \/ StopTraffic(r) \/ Stop(r) \/ CancelExp(r)
  PROVE  TypeInv'
<1>1. TypeOK'
  BY DEF SetSnapshotHandler, StopTraffic, Stop, CancelExp, ClientStep, TypeInv, TypeOK,
     HandlerInv, historyVars, contextVars
<1>2. HandlerInv'
  BY DEF SetSnapshotHandler, StopTraffic, Stop, CancelExp, ClientStep, TypeInv, TypeOK,
     HandlerInv, Active
<1> QED BY <1>1, <1>2 DEF TypeInv

LEMMA LoopType == ASSUME TypeInv, NEW r \in Runs, Loop(r) PROVE TypeInv'
<1>1. CASE Tick(r) \/ Leave(r)
  BY <1>1 DEF Tick, Leave, LoopStep, Quiet, TypeInv, TypeOK, HandlerInv, Active,
     engineVars, clientVars, historyVars, contextVars
<1>2. CASE Query(r)
  <2>1. /\ consecutiveFailures' \in 0 .. Threshold
        /\ streak' \in [Runs -> 0 .. Threshold] /\ disturbed' \subseteq Runs
    <3>1. consecutiveFailures + 1 \in Nat /\ streak[r] + 1 \in Nat
      BY DEF TypeInv, TypeOK
    <3> QED BY <1>2, <3>1, CountType DEF Query, QueryOk, QueryErr, TypeInv
  <2>2. /\ loopPc[r] = "query" /\ DOMAIN held' = Runs
        /\ \E to \in { "wait", "deliver" } : loopPc' = [loopPc EXCEPT ![r] = to]
        /\ UNCHANGED << wiring, engineVars, clientVars, loopCancelled, contextVars,
                        heldHandler, faults >>
    BY <1>2 DEF Query, QueryOk, QueryErr, LoopStep, Quiet, TypeInv, TypeOK
  <2>3. TypeOK' BY <2>1, <2>2 DEF TypeInv, TypeOK, engineVars, clientVars, contextVars
  <2>4. HandlerInv'
    BY <2>2 DEF TypeInv, TypeOK, HandlerInv, Active, engineVars, clientVars
  <2> QED BY <2>3, <2>4 DEF TypeInv
<1>3. CASE Deliver(r)
  <2>1. handler \in Runs BY <1>3 DEF Deliver, LoopStep, TypeInv, HandlerInv, Active
  <2> QED
    BY <1>3, <2>1 DEF Deliver, LoopStep, Quiet, TypeInv, TypeOK, HandlerInv, Active,
       engineVars, clientVars, contextVars
<1>4. CASE Handle(r)
  <2>1. Handled(r) BY <1>4 DEF Handle, SaveFails, SaveAndEvaluate, EvaluateOnly
  <2>2. heldHandler[r] \in Runs
    BY <2>1 DEF Handled, LoopStep, TypeInv, HandlerInv
  <2>3. TypeOK' BY <1>4, <2>2, HandleType DEF TypeInv
  <2>4. HandlerInv'
    BY <2>1 DEF Handled, LoopStep, TypeInv, TypeOK, HandlerInv, Active, engineVars, clientVars
  <2> QED BY <2>3, <2>4 DEF TypeInv
<1> QED BY <1>1, <1>2, <1>3, <1>4 DEF Loop

LEMMA TypeStep == TypeInv /\ [Next]_vars => TypeInv'
<1> SUFFICES ASSUME TypeInv, [Next]_vars PROVE TypeInv' OBVIOUS
<1>1. CASE UNCHANGED vars
  BY <1>1 DEF vars, TypeInv, TypeOK, HandlerInv, Active, engineVars, clientVars,
     contextVars, historyVars
<1> QED BY <1>1, StartType, ClientType, LoopType DEF Next

LEMMA TypeInvariant == Spec => []TypeInv
BY TypeInit, TypeStep, PTL DEF Spec

\* Every variable keeps its type, and no loop calls a handler that is not there.
THEOREM TypeCorrect == Spec => []TypeOK
<1>1. TypeInv => TypeOK BY DEF TypeInv
<1> QED BY <1>1, TypeInvariant, PTL

-----------------------------------------------------------------------------
(* The slot.                                                               *)

\* A live loop is the loop of the run the engine runs for, and a loop is begun
\* by the one call of Start made for its run.
SlotInv ==
  /\ \A r \in Runs : Live(r) => running /\ current = r
  /\ \A r \in Runs : startPc[r] # "returned" => loopPc[r] = "none"
  /\ \A r \in Runs : clientPc[r] = "new" => startPc[r] = "none"

LEMMA SlotStep == TypeInv /\ SlotInv /\ [Next]_vars => SlotInv'
<1> SUFFICES ASSUME TypeInv, SlotInv, [Next]_vars PROVE SlotInv' OBVIOUS
<1>0. /\ startPc \in [Runs -> { "none", "spawned", "returned" }]
      /\ loopPc \in [Runs -> LoopPcs]
      /\ clientPc \in [Runs -> { "new", "wired", "stopped", "done" }]
  BY DEF TypeInv, TypeOK, LoopPcs
<1>1. ASSUME NEW r \in Runs, Start(r) PROVE SlotInv'
  BY <1>0, <1>1 DEF Start, Started, Begin, StartFrame, contextVars, SlotInv, Live, Active,
     LoopDone
<1>2. ASSUME NEW r \in Runs, SetSnapshotHandler(r) PROVE SlotInv'
  BY <1>0, <1>2 DEF SetSnapshotHandler, contextVars, SlotInv, Live, Active, LoopDone
<1>3. ASSUME NEW r \in Runs, StopTraffic(r) \/ Stop(r) \/ CancelExp(r) PROVE SlotInv'
  BY <1>0, <1>3 DEF StopTraffic, Stop, CancelExp, ClientStep, contextVars, SlotInv, Live, Active,
     LoopDone
<1>4. ASSUME NEW r \in Runs, Loop(r) PROVE SlotInv'
  <2>1. PICK from, to \in LoopPcs : LoopStep(r, from, to) BY <1>4, LoopSteps
  <2>2. expDone \subseteq expDone' BY <1>4, LoopSteps
  <2>3. from # "none" /\ (from # "exited" \/ ~Active(r)')
    BY <1>4, <1>0, <2>1 DEF Loop, Tick, Query, QueryOk, QueryErr, Deliver, Handle, SaveFails,
       SaveAndEvaluate, EvaluateOnly, Handled, Leave, LoopStep
  <2>4. \A q \in Runs : Live(q)' => Live(q)
    BY <1>0, <2>1, <2>2, <2>3 DEF LoopStep, Live, Active, LoopDone
  <2> QED BY <1>0, <2>1, <2>3, <2>4 DEF LoopStep, engineVars, clientVars, SlotInv
<1>5. CASE UNCHANGED vars
  BY <1>5 DEF vars, engineVars, clientVars, contextVars, SlotInv, Live, Active, LoopDone
<1> QED BY <1>1, <1>2, <1>3, <1>4, <1>5 DEF Next

LEMMA SlotInvariant == Spec => []SlotInv
<1>1. Init => SlotInv BY DEF Init, SlotInv, Live, Active
<1> QED BY <1>1, SlotStep, TypeInvariant, PTL DEF Spec

phases == [r \in Runs |-> Phase(r)]

\* One run changes its phase: the step is one of the slot, or none.
LEMMA OnePhase ==
  ASSUME NEW r \in Runs, NEW p, phases' = [phases EXCEPT ![r] = p],
         \/ p = Phase(r)
         \/ Phase(r) = "none" /\ p \in { "polling", "leaving" }
              /\ \A q \in Runs : Phase(q) # "polling"
         \/ Phase(r) = "polling" /\ p = "leaving"
         \/ Phase(r) = "leaving" /\ p = "gone"
  PROVE  [Slot!Next]_phases
<1>1. phases = [q \in Runs |-> Phase(q)] /\ phases[r] = Phase(r) BY DEF phases
<1>2. CASE p = Phase(r) BY <1>1, <1>2
<1>3. CASE Phase(r) = "none" /\ p \in { "polling", "leaving" }
            /\ \A q \in Runs : Phase(q) # "polling"
  BY <1>1, <1>3 DEF phases, Slot!Next, Slot!Enter, Slot!Occupied
<1>4. CASE Phase(r) = "polling" /\ p = "leaving"
  BY <1>1, <1>4 DEF phases, Slot!Next, Slot!Retire
<1>5. CASE Phase(r) = "leaving" /\ p = "gone"
  BY <1>1, <1>5 DEF phases, Slot!Next, Slot!Leave
<1> QED BY <1>2, <1>3, <1>4, <1>5

\* The context of one loop is cancelled, by its run or by Stop.
LEMMA OneCancelled ==
  ASSUME NEW r \in Runs, UNCHANGED loopPc,
         \A q \in Runs \ {r} : LoopDone(q)' = LoopDone(q), LoopDone(r)'
  PROVE  [Slot!Next]_phases
<1>1. phases' = [phases EXCEPT ![r] = IF Phase(r) = "polling" THEN "leaving" ELSE Phase(r)]
  BY DEF phases, Phase
<1> QED BY <1>1, OnePhase

LEMMA PhaseStep == TypeInv /\ SlotInv /\ [Next]_vars => [Slot!Next]_phases
<1> SUFFICES ASSUME TypeInv, SlotInv, [Next]_vars PROVE [Slot!Next]_phases OBVIOUS
<1>0. loopPc \in [Runs -> LoopPcs] BY DEF TypeInv, TypeOK, LoopPcs
<1>1. ASSUME UNCHANGED << loopPc, expDone, loopCancelled >> PROVE [Slot!Next]_phases
  BY <1>1 DEF phases, Phase, LoopDone
<1>2. ASSUME NEW r \in Runs, Start(r), ~running PROVE [Slot!Next]_phases
  <2>1. /\ loopPc[r] = "none" /\ loopPc' = [loopPc EXCEPT ![r] = "wait"]
        /\ UNCHANGED << expDone, loopCancelled >>
    BY <1>2 DEF Start, Started, Begin, StartFrame, contextVars, SlotInv
  <2>2. \A q \in Runs : Phase(q) # "polling"
    BY <1>2 DEF SlotInv, Live, Active, Phase
  <2>3. \E p \in { "polling", "leaving" } : phases' = [phases EXCEPT ![r] = p]
    BY <1>0, <2>1 DEF phases, Phase, LoopDone
  <2>4. Phase(r) = "none" BY <2>1 DEF Phase
  <2> QED BY <2>2, <2>3, <2>4, OnePhase
<1>3. ASSUME NEW r \in Runs, Stop(r) PROVE [Slot!Next]_phases
  <2>1. UNCHANGED << loopPc, expDone >>
    BY <1>3 DEF Stop, ClientStep, contextVars
  <2>2. CASE running
    <3>1. current \in Runs /\ loopCancelled' = loopCancelled \union {current}
      BY <1>3, <2>2 DEF Stop, TypeInv, HandlerInv
    <3> QED BY <2>1, <3>1, OneCancelled DEF LoopDone
  <2>3. CASE ~running
    BY <1>1, <1>3, <2>1, <2>3 DEF Stop
  <2> QED BY <2>2, <2>3
<1>4. ASSUME NEW r \in Runs, CancelExp(r) PROVE [Slot!Next]_phases
  <2>1. UNCHANGED << loopPc, loopCancelled >> /\ expDone' = expDone \union {r}
    BY <1>4 DEF CancelExp, ClientStep
  <2> QED BY <2>1, OneCancelled DEF LoopDone
<1>5. ASSUME NEW r \in Runs, Leave(r) PROVE [Slot!Next]_phases
  <2>1. /\ LoopDone(r) /\ loopPc[r] = "wait" /\ loopPc' = [loopPc EXCEPT ![r] = "exited"]
        /\ UNCHANGED << expDone, loopCancelled >>
    BY <1>5 DEF Leave, LoopStep, Quiet, contextVars
  <2>2. Phase(r) = "leaving" /\ phases' = [phases EXCEPT ![r] = "gone"]
    BY <1>0, <2>1 DEF phases, Phase, LoopDone
  <2> QED BY <2>2, OnePhase
<1>6. ASSUME NEW r \in Runs, Tick(r) \/ Query(r) \/ Deliver(r) PROVE [Slot!Next]_phases
  <2>1. /\ loopPc[r] \notin { "none", "exited" }
        /\ \E to \in LoopPcs \ { "none", "exited" } : loopPc' = [loopPc EXCEPT ![r] = to]
        /\ UNCHANGED << expDone, loopCancelled >>
    BY <1>6 DEF Tick, Query, QueryOk, QueryErr, Deliver, LoopStep, Quiet, contextVars, LoopPcs
  <2>2. UNCHANGED phases BY <1>0, <2>1 DEF phases, Phase, LoopDone
  <2> QED BY <2>2
<1>7. ASSUME NEW r \in Runs, Handle(r) PROVE [Slot!Next]_phases
  <2> DEFINE h == heldHandler[r]
  <2>1. Handled(r) BY <1>7 DEF Handle, SaveFails, SaveAndEvaluate, EvaluateOnly
  <2>2. h \in Runs BY <2>1 DEF Handled, LoopStep, TypeInv, HandlerInv
  <2>3. /\ loopPc[r] = "handle" /\ loopPc' = [loopPc EXCEPT ![r] = "wait"]
        /\ UNCHANGED loopCancelled
    BY <2>1 DEF Handled, LoopStep
  <2>4. expDone' = expDone \/ expDone' = expDone \union {h}
    BY <1>7 DEF Handle, SaveFails, SaveAndEvaluate, EvaluateOnly
  <2>5. CASE expDone' = expDone
    <3>1. UNCHANGED phases BY <1>0, <2>3, <2>5 DEF phases, Phase, LoopDone
    <3> QED BY <3>1
  <2>6. CASE expDone' = expDone \union {h}
    <3>1. phases' = [phases EXCEPT ![h] = IF Phase(h) = "polling" THEN "leaving" ELSE Phase(h)]
      BY <1>0, <2>2, <2>3, <2>6 DEF phases, Phase, LoopDone
    <3> QED BY <2>2, <3>1, OnePhase
  <2> QED BY <2>4, <2>5, <2>6
<1>8. ASSUME NEW r \in Runs, SetSnapshotHandler(r) \/ StopTraffic(r) \/ (Start(r) /\ running)
      PROVE  UNCHANGED << loopPc, expDone, loopCancelled >>
  BY <1>8 DEF SetSnapshotHandler, StopTraffic, Start, StartFrame, ClientStep, contextVars
<1>9. CASE UNCHANGED vars BY <1>1, <1>9 DEF vars, contextVars
<1> QED BY <1>1, <1>2, <1>3, <1>4, <1>5, <1>6, <1>7, <1>8, <1>9 DEF Next, Loop

\* However Start, Stop and the contexts of the runs interleave, each run is
\* polled for once, and one loop at a time is live.
THEOREM EngineIsASlot == Spec => Slot!Spec
<1>1. Init => Slot!Init BY DEF Init, Slot!Init, Phase
<1> QED
  BY <1>1, PhaseStep, TypeInvariant, SlotInvariant, PTL DEF Spec, Slot!Spec, phases

-----------------------------------------------------------------------------
(* The failure counter.                                                    *)

\* The counter of the engine is that of each loop nothing has disturbed.
CountInv ==
  \A r \in Runs : Active(r) /\ r \notin disturbed => consecutiveFailures = streak[r]

LEMMA CountStep == TypeInv /\ CountInv /\ [Next]_vars => CountInv'
<1> SUFFICES ASSUME TypeInv, CountInv, [Next]_vars PROVE CountInv' OBVIOUS
<1>0. /\ loopPc \in [Runs -> LoopPcs] /\ streak \in [Runs -> 0 .. Threshold]
      /\ consecutiveFailures \in 0 .. Threshold /\ Threshold \in Nat \ {0}
  BY EngineAssumption DEF TypeInv, TypeOK, LoopPcs
<1>1. ASSUME NEW r \in Runs, NEW n \in Nat, NEW s \in Nat, Count(r, n, s),
             s = 0 => n = 0, s # 0 /\ r \notin disturbed => n = s \/ Capped(n) = Capped(s),
             \A q \in Runs \ {r} : Active(q)' = Active(q)
      PROVE  CountInv'
  <2>1. ASSUME NEW q \in Runs \ {r}, Active(q)', q \notin disturbed' PROVE FALSE
    BY <1>1, <2>1 DEF Count
  <2>2. r \notin disturbed' => consecutiveFailures' = streak'[r]
    BY <1>0, <1>1 DEF Count
  <2> QED BY <2>1, <2>2 DEF CountInv
<1>2. ASSUME NEW r \in Runs, Start(r) PROVE CountInv'
  <2>1. CASE running
    BY <1>2, <2>1 DEF Start, historyVars, CountInv, Active
  <2>2. CASE ~running
    <3>1. Count(r, 0, 0) /\ loopPc' = [loopPc EXCEPT ![r] = "wait"]
      BY <1>2, <2>2 DEF Start, Begin
    <3>2. \A q \in Runs \ {r} : Active(q)' = Active(q) BY <1>0, <3>1 DEF Active
    <3> QED BY <1>1, <3>1, <3>2
  <2> QED BY <2>1, <2>2
<1>3. ASSUME NEW r \in Runs, SetSnapshotHandler(r) \/ StopTraffic(r) \/ Stop(r) \/ CancelExp(r)
      PROVE  CountInv'
  BY <1>3, ClientSteps DEF historyVars, CountInv, Active
<1>4. ASSUME NEW r \in Runs, Query(r) PROVE CountInv'
  <2>1. loopPc[r] = "query" /\ \E to \in LoopPcs : loopPc' = [loopPc EXCEPT ![r] = to]
    BY <1>4 DEF Query, QueryOk, QueryErr, LoopStep, LoopPcs
  <2>2. \A q \in Runs \ {r} : Active(q)' = Active(q) BY <1>0, <2>1 DEF Active
  <2>3. r \notin disturbed => consecutiveFailures = streak[r]
    BY <2>1 DEF CountInv, Active
  <2>4. Count(r, 0, 0) \/ Count(r, consecutiveFailures + 1, streak[r] + 1)
    BY <1>4 DEF Query, QueryOk, QueryErr
  <2> QED BY <1>0, <1>1, <2>2, <2>3, <2>4
<1>5. ASSUME NEW r \in Runs, Tick(r) \/ Deliver(r) \/ Handle(r) \/ Leave(r) PROVE CountInv'
  <2>1. UNCHANGED << consecutiveFailures, streak >> /\ disturbed \subseteq disturbed'
    BY <1>5 DEF Tick, Deliver, Handle, SaveFails, SaveAndEvaluate, EvaluateOnly, Handled,
       Leave, historyVars
  <2>2. /\ loopPc[r] \notin { "none", "exited" }
        /\ \E to \in LoopPcs : loopPc' = [loopPc EXCEPT ![r] = to]
    BY <1>5 DEF Tick, Deliver, Handle, SaveFails, SaveAndEvaluate, EvaluateOnly, Handled,
       Leave, LoopStep, LoopPcs
  <2>3. \A q \in Runs : Active(q)' => Active(q) BY <1>0, <2>2 DEF Active
  <2> QED BY <2>1, <2>3 DEF CountInv
<1>6. CASE UNCHANGED vars BY <1>6 DEF vars, historyVars, CountInv, Active
<1> QED BY <1>2, <1>3, <1>4, <1>5, <1>6 DEF Next, Loop

LEMMA CountInvariant == Spec => []CountInv
<1>1. Init => CountInv BY DEF Init, CountInv, Active
<1> QED BY <1>1, CountStep, TypeInvariant, PTL DEF Spec

\* What a loop holds after fewer failures than the threshold is an answer.
LEMMA BreachStep ==
  TypeInv /\ CountInv /\ BreachIsEarned /\ [Next]_vars => BreachIsEarned'
<1> SUFFICES ASSUME TypeInv, CountInv, BreachIsEarned, [Next]_vars PROVE BreachIsEarned'
  OBVIOUS
<1>0. /\ loopPc \in [Runs -> LoopPcs] /\ streak \in [Runs -> 0 .. Threshold]
      /\ consecutiveFailures \in 0 .. Threshold /\ Threshold \in Nat \ {0}
      /\ DOMAIN held = Runs
  BY EngineAssumption DEF TypeInv, TypeOK, LoopPcs
<1> DEFINE Earned(r) ==
      (/\ loopPc[r] \in { "deliver", "handle" } /\ held[r] = SyntheticBreach
       /\ r \notin disturbed /\ streak[r] < Threshold)
         => \E answers \in Answers : QuerySucceeds(answers) /\ QuerySnapshot(answers) = held[r]
<1>1. \A r \in Runs : Earned(r) BY DEF BreachIsEarned
<1>2. SUFFICES \A r \in Runs : Earned(r)' BY DEF BreachIsEarned
<1>3. ASSUME NEW r \in Runs, loopPc'[r] = loopPc[r], held'[r] = held[r], streak'[r] = streak[r],
             r \in disturbed => r \in disturbed'
      PROVE  Earned(r)'
  BY <1>1, <1>3
<1>4. ASSUME NEW r \in Runs, Start(r) PROVE \A q \in Runs : Earned(q)'
  <2>1. CASE running
    BY <1>1, <1>4, <2>1 DEF Start, StartFrame, historyVars
  <2>2. CASE ~running
    <3>1. /\ loopPc' = [loopPc EXCEPT ![r] = "wait"] /\ UNCHANGED held
          /\ \E n : streak' = [streak EXCEPT ![r] = n]
          /\ \A q \in Runs \ {r} : q \in disturbed => q \in disturbed'
      BY <1>4, <2>2 DEF Start, StartFrame, Begin, Count
    <3>2. loopPc'[r] = "wait" BY <1>0, <3>1
    <3>3. ASSUME NEW q \in Runs \ {r} PROVE Earned(q)' BY <1>0, <1>3, <3>1
    <3> HIDE DEF Earned
    <3>4. Earned(r)' BY <3>2 DEF Earned
    <3> QED BY <3>3, <3>4
  <2> QED BY <2>1, <2>2
<1>5. ASSUME NEW r \in Runs, SetSnapshotHandler(r) \/ StopTraffic(r) \/ Stop(r) \/ CancelExp(r)
      PROVE  \A q \in Runs : Earned(q)'
  BY <1>3, <1>5, ClientSteps DEF historyVars
<1>6. ASSUME NEW r \in Runs, Query(r) PROVE \A q \in Runs : Earned(q)'
  <2>1. /\ loopPc[r] = "query" /\ \E to \in LoopPcs : loopPc' = [loopPc EXCEPT ![r] = to]
        /\ held' = held \/ \E x : held' = [held EXCEPT ![r] = x]
        /\ \E n : streak' = [streak EXCEPT ![r] = n]
        /\ \A q \in Runs \ {r} : q \in disturbed => q \in disturbed'
    BY <1>6 DEF Query, QueryOk, QueryErr, LoopStep, LoopPcs, Count
  <2>2. ASSUME NEW q \in Runs \ {r} PROVE Earned(q)' BY <1>0, <1>3, <2>1
  <2>3. ASSUME NEW answers \in Answers, QueryOk(r, answers) PROVE Earned(r)'
    <3>1. held'[r] = QuerySnapshot(answers) /\ QuerySucceeds(answers)
      BY <1>0, <2>3 DEF QueryOk
    <3> QED BY <3>1
  <2>4. ASSUME QueryErr(r) PROVE Earned(r)'
    <3>1. /\ r \notin disturbed' => r \notin disturbed
          /\ streak'[r] = Capped(streak[r] + 1)
      BY <1>0, <2>4 DEF QueryErr, Count
    <3>2. CASE consecutiveFailures + 1 >= Threshold
      <4>1. r \notin disturbed => consecutiveFailures = streak[r]
        BY <2>1 DEF CountInv, Active
      <4>2. r \notin disturbed' => streak'[r] = Threshold
        BY <1>0, <3>1, <3>2, <4>1 DEF Capped
      <4> QED BY <1>0, <4>2
    <3>3. CASE consecutiveFailures + 1 < Threshold
      <4>1. loopPc'[r] = "wait" BY <1>0, <2>4, <3>3 DEF QueryErr, LoopStep
      <4> QED BY <4>1
    <3> QED BY <1>0, <3>2, <3>3
  <2> HIDE DEF Earned
  <2> QED BY <1>6, <2>2, <2>3, <2>4 DEF Query
<1>7. ASSUME NEW r \in Runs, Deliver(r) PROVE \A q \in Runs : Earned(q)'
  <2>1. /\ loopPc[r] = "deliver" /\ loopPc' = [loopPc EXCEPT ![r] = "handle"]
        /\ UNCHANGED << streak, held >> /\ disturbed \subseteq disturbed'
    BY <1>7 DEF Deliver, LoopStep
  <2> QED BY <1>0, <1>1, <2>1
<1>8. ASSUME NEW r \in Runs, Tick(r) \/ Handle(r) \/ Leave(r) PROVE \A q \in Runs : Earned(q)'
  <2>1. /\ UNCHANGED << streak, disturbed >>
        /\ held' = held \/ \E x : held' = [held EXCEPT ![r] = x]
        /\ \E to \in { "query", "wait", "exited" } : loopPc' = [loopPc EXCEPT ![r] = to]
    BY <1>8 DEF Tick, Handle, SaveFails, SaveAndEvaluate, EvaluateOnly, Handled, Leave,
       LoopStep, historyVars
  <2>2. ASSUME NEW q \in Runs \ {r} PROVE Earned(q)' BY <1>0, <1>3, <2>1
  <2>3. loopPc'[r] \notin { "deliver", "handle" } BY <1>0, <2>1
  <2> HIDE DEF Earned
  <2>4. Earned(r)' BY <2>3 DEF Earned
  <2> QED BY <2>2, <2>4
<1>9. CASE UNCHANGED vars BY <1>3, <1>9 DEF vars, historyVars
<1> HIDE DEF Earned
<1> QED BY <1>4, <1>5, <1>6, <1>7, <1>8, <1>9 DEF Next, Loop

\* The sentinel is held only after Threshold failures in a row, unless another
\* run disturbed the count.
THEOREM BreachesAreEarned == Spec => []BreachIsEarned
<1>1. Init => BreachIsEarned BY DEF Init, BreachIsEarned
<1> QED BY <1>1, BreachStep, TypeInvariant, CountInvariant, PTL DEF Spec

-----------------------------------------------------------------------------
(* The fail-safe stop.                                                     *)

\* The sentinel breaks every policy that catches it.
LEMMA SentinelStops ==
  ASSUME NEW config, ValidThresholds(config), CatchesLoss(config)
  PROVE  ShouldStop(SyntheticBreach, PolicyOf(config))
<1> DEFINE e == config.maxErrorRatePercent
           a == config.minAvailabilityPct
<1>1. e \in 0 .. 100 /\ a \in 0 .. 100 BY DEF ValidThresholds
<1>2. CASE e \in 1 .. 99
  BY <1>1, <1>2 DEF ShouldStop, ErrorRateBreached, SyntheticBreach, PolicyOf, Above, Ratio,
     Zero, One
<1>3. CASE a > 0
  BY <1>1, <1>3 DEF ShouldStop, AvailabilityBreached, SyntheticBreach, PolicyOf, Above, Ratio,
     Zero, One
<1> QED BY <1>2, <1>3 DEF CatchesLoss

\* A loop that has failed Threshold times in a row, which nothing disturbed.
Alarmed(r) == streak[r] >= Threshold /\ r \notin disturbed

\* Its alarm reaches the handler of the run, and has stopped its traffic when
\* the loop is back at its ticker.
Alarm(r) ==
  Alarmed(r) =>
    /\ loopPc[r] \in { "deliver", "handle" } => held[r] = SyntheticBreach
    /\ loopPc[r] = "handle" => heldHandler[r] = r
    /\ loopPc[r] = "wait" /\ CatchesLoss(Config[r]) => StressDone(r)

AlarmInv == \A r \in Runs : Alarm(r)

\* A step that leaves a loop alone leaves its alarm alone.
LEMMA AlarmFrame ==
  ASSUME NEW r \in Runs, Alarm(r), loopPc'[r] = loopPc[r], held'[r] = held[r],
         heldHandler'[r] = heldHandler[r], streak'[r] = streak[r],
         r \in disturbed => r \in disturbed', StressDone(r) => StressDone(r)'
  PROVE  Alarm(r)'
BY DEF Alarm, Alarmed

\* The handler of an alarmed loop stops the traffic of the run.
LEMMA AlarmHandled ==
  ASSUME TypeInv, NEW r \in Runs, Alarm(r), Alarmed(r), Handle(r), CatchesLoss(Config[r])
  PROVE  StressDone(r)'
<1>1. Handled(r) BY DEF Handle, SaveFails, SaveAndEvaluate, EvaluateOnly
<1>2. heldHandler[r] = r /\ held[r] = SyntheticBreach
  BY <1>1 DEF Handled, LoopStep, Alarm
<1>3. ShouldStop(held[r], PolicyOf(Config[heldHandler[r]]))
  BY <1>2, SentinelStops, EngineAssumption
<1>4. CASE SaveFails(r) BY <1>2, <1>4 DEF SaveFails, StressDone
<1>5. CASE SaveAndEvaluate(r) BY <1>2, <1>3, <1>5 DEF SaveAndEvaluate, StressDone
<1>6. CASE EvaluateOnly(r) BY <1>2, <1>3, <1>6 DEF EvaluateOnly, StressDone
<1> QED BY <1>4, <1>5, <1>6 DEF Handle

LEMMA AlarmStep == TypeInv /\ CountInv /\ AlarmInv /\ [Next]_vars => AlarmInv'
<1> SUFFICES ASSUME TypeInv, CountInv, AlarmInv, [Next]_vars PROVE AlarmInv' OBVIOUS
<1>0. /\ loopPc \in [Runs -> LoopPcs] /\ streak \in [Runs -> 0 .. Threshold]
      /\ consecutiveFailures \in 0 .. Threshold /\ Threshold \in Nat \ {0}
      /\ DOMAIN held = Runs /\ heldHandler \in [Runs -> Runs \union {NoRun}]
  BY EngineAssumption DEF TypeInv, TypeOK, LoopPcs
<1>1. \A r \in Runs : Alarm(r) BY DEF AlarmInv
<1>2. SUFFICES \A r \in Runs : Alarm(r)' BY DEF AlarmInv
<1>3. ASSUME NEW r \in Runs, Start(r) PROVE \A q \in Runs : Alarm(q)'
  <2>1. UNCHANGED << held, heldHandler, expDone, stressDone >>
    BY <1>3 DEF Start, StartFrame, contextVars
  <2>2. CASE running
    BY <1>1, <1>3, <2>1, <2>2, AlarmFrame DEF Start, historyVars, StressDone
  <2>3. CASE ~running
    <3>1. /\ loopPc' = [loopPc EXCEPT ![r] = "wait"] /\ streak' = [streak EXCEPT ![r] = 0]
          /\ \A q \in Runs \ {r} : q \in disturbed => q \in disturbed'
      BY <1>0, <1>3, <2>3 DEF Start, Begin, Count, Capped
    <3>2. ASSUME NEW q \in Runs \ {r} PROVE Alarm(q)'
      BY <1>0, <1>1, <2>1, <3>1, AlarmFrame DEF StressDone
    <3>3. Alarm(r)' BY <1>0, <3>1 DEF Alarm, Alarmed
    <3> QED BY <3>2, <3>3
  <2> QED BY <2>2, <2>3
<1>4. ASSUME NEW r \in Runs, SetSnapshotHandler(r) \/ StopTraffic(r) \/ Stop(r) \/ CancelExp(r)
      PROVE  \A q \in Runs : Alarm(q)'
  BY <1>1, <1>4, ClientSteps, AlarmFrame DEF historyVars, StressDone
<1>5. ASSUME NEW r \in Runs, Loop(r), NEW q \in Runs \ {r} PROVE Alarm(q)'
  <2>1. expDone \subseteq expDone' /\ stressDone \subseteq stressDone' BY <1>5, LoopSteps
  <2>2. /\ \E to : loopPc' = [loopPc EXCEPT ![r] = to]
        /\ held' = held \/ \E x : held' = [held EXCEPT ![r] = x]
        /\ heldHandler' = heldHandler \/ \E h : heldHandler' = [heldHandler EXCEPT ![r] = h]
        /\ streak' = streak \/ \E n : streak' = [streak EXCEPT ![r] = n]
        /\ q \in disturbed => q \in disturbed'
    BY <1>5 DEF Loop, Tick, Query, QueryOk, QueryErr, Deliver, Handle, SaveFails,
       SaveAndEvaluate, EvaluateOnly, Handled, Leave, LoopStep, historyVars, Count
  <2>3. /\ loopPc'[q] = loopPc[q] /\ held'[q] = held[q]
        /\ heldHandler'[q] = heldHandler[q] /\ streak'[q] = streak[q]
    BY <1>0, <2>2
  <2> QED BY <1>1, <2>1, <2>2, <2>3, AlarmFrame DEF StressDone
<1>6. ASSUME NEW r \in Runs, Tick(r) \/ Leave(r) PROVE Alarm(r)'
  <2>1. loopPc'[r] \in { "query", "exited" } BY <1>0, <1>6 DEF Tick, Leave, LoopStep
  <2> QED BY <2>1 DEF Alarm
<1>7. ASSUME NEW r \in Runs, NEW answers \in Answers, QueryOk(r, answers) PROVE Alarm(r)'
  <2>1. streak'[r] = 0 BY <1>0, <1>7 DEF QueryOk, Count, Capped
  <2> QED BY <1>0, <2>1 DEF Alarm, Alarmed
<1>8. ASSUME NEW r \in Runs, QueryErr(r) PROVE Alarm(r)'
  <2>1. /\ streak'[r] = Capped(streak[r] + 1)
        /\ r \notin disturbed' => r \notin disturbed
    BY <1>0, <1>8 DEF QueryErr, Count
  <2>2. CASE consecutiveFailures + 1 >= Threshold
    <3>1. loopPc'[r] = "deliver" /\ held'[r] = SyntheticBreach
      BY <1>0, <1>8, <2>2 DEF QueryErr, LoopStep
    <3> QED BY <3>1 DEF Alarm
  <2>3. CASE consecutiveFailures + 1 < Threshold
    <3>1. r \notin disturbed => consecutiveFailures = streak[r]
      BY <1>8 DEF QueryErr, LoopStep, CountInv, Active
    <3>2. r \notin disturbed' => streak'[r] = consecutiveFailures + 1
      BY <2>1, <2>3, <3>1 DEF Capped
    <3>3. r \notin disturbed' => ~(streak'[r] >= Threshold) BY <1>0, <2>3, <3>2
    <3> QED BY <3>3 DEF Alarm, Alarmed
  <2> QED BY <1>0, <2>2, <2>3
<1>9. ASSUME NEW r \in Runs, Deliver(r) PROVE Alarm(r)'
  <2>1. /\ loopPc[r] = "deliver" /\ loopPc'[r] = "handle"
        /\ UNCHANGED << streak, held >> /\ heldHandler'[r] = handler
        /\ r \notin disturbed' => r \notin disturbed /\ handler = r
    BY <1>0, <1>9 DEF Deliver, LoopStep
  <2> QED BY <1>1, <2>1 DEF Alarm, Alarmed
<1>10. ASSUME NEW r \in Runs, Handle(r) PROVE Alarm(r)'
  <2>1. loopPc'[r] = "wait" /\ UNCHANGED << streak, disturbed >>
    BY <1>0, <1>10 DEF Handle, SaveFails, SaveAndEvaluate, EvaluateOnly, Handled, LoopStep,
       historyVars
  <2>2. Alarmed(r) /\ CatchesLoss(Config[r]) => StressDone(r)'
    BY <1>1, <1>10, AlarmHandled
  <2> QED BY <2>1, <2>2 DEF Alarm, Alarmed
<1>11. CASE UNCHANGED vars
  BY <1>1, <1>11, AlarmFrame DEF vars, historyVars, contextVars, StressDone
<1> QED
  BY <1>3, <1>4, <1>5, <1>6, <1>7, <1>8, <1>9, <1>10, <1>11 DEF Next, Loop, Query

LEMMA AlarmInvariant == Spec => []AlarmInv
<1>1. ASSUME Init, NEW r \in Runs PROVE Alarm(r)
  <2>1. ~(streak[r] >= Threshold) BY <1>1, EngineAssumption DEF Init
  <2> QED BY <2>1 DEF Alarm, Alarmed
<1>2. Init => AlarmInv BY <1>1 DEF AlarmInv
<1> QED BY <1>2, AlarmStep, TypeInvariant, CountInvariant, PTL DEF Spec

\* A run whose loop lost Prometheus for Threshold queries in a row, and which no
\* other run disturbed, is under traffic no more.
THEOREM OutageIsFailSafe == Spec => []FailSafe
<1>1. AlarmInv => FailSafe BY DEF AlarmInv, Alarm, Alarmed, FailSafe
<1> QED BY <1>1, AlarmInvariant, PTL
=============================================================================
