---------------------------- MODULE WatcherEngine ----------------------------
(***************************************************************************)
(* The watcher engine (internal/watcher/evaluator.go) with the safety      *)
(* evaluation of its snapshots.  One engine serves every experiment of the *)
(* process, one run after the other or several at once: the manager wires  *)
(* the handler of a run, starts the engine for it on a goroutine of its    *)
(* own, and stops the engine when the run is over.                         *)
(*                                                                         *)
(* A run is named by the call of Start made for it.  One action is one     *)
(* critical section of e.mu, one operation on the atomic counter, one      *)
(* query or one database statement.                                        *)
(***************************************************************************)
EXTENDS SafetyPolicy

CONSTANTS
  Runs,          \* runs, and the calls of Start made for them
  NoRun,
  Threshold,     \* failureThreshold
  Config,        \* the thresholds of the experiment of each run
  Answers,       \* what Prometheus may answer to the queries of a snapshot
  MaxFaults      \* bound: observations that cannot be stored

ASSUME EngineAssumption ==
  /\ NoRun \notin Runs
  /\ Threshold \in Nat \ {0} /\ MaxFaults \in Nat
  /\ \A r \in Runs : ValidThresholds(Config[r])

VARIABLES
  wiring,        \* whose snapshot handler is used, the manager's or EvaluatingController's
  running, current, handler, consecutiveFailures,  \* WatcherEngine
  expDone, stressDone,       \* the contexts of a run that are cancelled
  clientPc, startPc,         \* the manager for a run: finishExperiment, and the goroutine of Start
  loopCancelled, loopPc, held, heldHandler,        \* the poll loops
  faults,
  streak, disturbed  \* history: failures in a row of each loop, and the loops
                     \* whose count something else has changed since, or whose
                     \* snapshot another run's handler got

engineVars == << running, current, handler >>
clientVars == << clientPc, startPc >>
contextVars == << expDone, stressDone >>
historyVars == << consecutiveFailures, streak, disturbed >>
vars == << wiring, engineVars, historyVars, contextVars, clientVars, loopCancelled,
           loopPc, held, heldHandler, faults >>

StressDone(r) == r \in expDone \/ r \in stressDone
LoopDone(r)   == r \in expDone \/ r \in loopCancelled

Active(r) == loopPc[r] \notin { "none", "exited" }
Live(r)   == Active(r) /\ ~LoopDone(r)

NoSnapshot == "none"

Init ==
  /\ wiring \in { "manager", "evaluating" }
  /\ running = FALSE /\ current = NoRun /\ handler = NoRun /\ consecutiveFailures = 0
  /\ expDone = {} /\ stressDone = {} /\ loopCancelled = {} /\ disturbed = {}
  /\ clientPc = [r \in Runs |-> "new"]
  /\ startPc = [r \in Runs |-> "none"]
  /\ loopPc = [r \in Runs |-> "none"]
  /\ held = [r \in Runs |-> NoSnapshot]
  /\ heldHandler = [r \in Runs |-> NoRun]
  /\ faults = 0
  /\ streak = [r \in Runs |-> 0]

(***************************************************************************)
(* The failure counter belongs to the engine.  Count(r, n, s) stores n in  *)
(* it for loop r, whose own failures in a row are s.                       *)
(***************************************************************************)
Capped(n) == IF n < Threshold THEN n ELSE Threshold

Count(r, n, s) ==
  /\ consecutiveFailures' = Capped(n)
  /\ streak' = [streak EXCEPT ![r] = Capped(s)]
  /\ disturbed' = (IF s = 0 THEN disturbed \ {r} ELSE disturbed)
                    \union { q \in Runs \ {r} : Active(q) }

(***************************************************************************)
(* The manager.                                                            *)
(***************************************************************************)
\* SetSnapshotHandler; the goroutine that will call Start is created next.
SetSnapshotHandler(r) ==
  /\ clientPc[r] = "new"
  /\ clientPc' = [clientPc EXCEPT ![r] = "wired"]
  /\ startPc' = [startPc EXCEPT ![r] = "spawned"]
  /\ handler' = r
  /\ UNCHANGED << wiring, running, current, historyVars, contextVars, loopCancelled,
                  loopPc, held, heldHandler, faults >>

Begin(r) ==
  /\ running' = TRUE /\ current' = r
  /\ loopPc' = [loopPc EXCEPT ![r] = "wait"]

StartFrame ==
  UNCHANGED << wiring, handler, contextVars, clientPc, loopCancelled, held,
               heldHandler, faults >>

Started(r) == startPc[r] = "spawned" /\ startPc' = [startPc EXCEPT ![r] = "returned"]

\* Mutants of Start: a running engine is started again; the counter keeps what
\* an earlier run left in it.
StartAgain(r) == Started(r) /\ Begin(r) /\ Count(r, 0, 0) /\ StartFrame

StartKeepsCount(r) ==
  /\ Started(r)
  /\ \/ running /\ UNCHANGED << running, current, loopPc, historyVars >>
     \/ ~running /\ Begin(r) /\ UNCHANGED historyVars
  /\ StartFrame

\* Start is a no-op on a running engine.  The goroutine may be scheduled when
\* the run is over and its context cancelled.
Start(r) ==
  /\ Started(r)
  /\ \/ running /\ UNCHANGED << running, current, loopPc, historyVars >>
     \/ ~running /\ Begin(r) /\ Count(r, 0, 0)
  /\ StartFrame

ClientStep(r, from, to) ==
  /\ clientPc[r] = from
  /\ clientPc' = [clientPc EXCEPT ![r] = to]
  /\ UNCHANGED << wiring, handler, startPc, historyVars, loopPc, held, heldHandler,
                  faults >>

\* A stop request cancels the traffic of the run.
StopTraffic(r) ==
  /\ ~StressDone(r) /\ ClientStep(r, "wired", "wired")
  /\ stressDone' = stressDone \union {r}
  /\ UNCHANGED << running, current, expDone, loopCancelled >>

\* Mutant of Stop: e.cancel is called on an engine that never ran, too.
StopUnchecked(r) ==
  /\ StressDone(r) /\ ClientStep(r, "wired", "stopped")
  /\ running' = FALSE
  /\ loopCancelled' = loopCancelled \union {current}
  /\ UNCHANGED << current, contextVars >>

\* Stop: it cancels the loop the engine last started and does not wait for it.
\* finishExperiment calls it for its run once the traffic is cancelled.
Stop(r) ==
  /\ StressDone(r) /\ ClientStep(r, "wired", "stopped")
  /\ running' = FALSE
  /\ loopCancelled' = loopCancelled \union (IF running THEN {current} ELSE {})
  /\ UNCHANGED << current, contextVars >>

\* The deferred cancelExp; a run whose row cannot be read gets there without
\* a call of Stop.
CancelExp(r) ==
  /\ StressDone(r)
  /\ ClientStep(r, "wired", "done") \/ ClientStep(r, "stopped", "done")
  /\ expDone' = expDone \union {r}
  /\ UNCHANGED << running, current, stressDone, loopCancelled >>

(***************************************************************************)
(* The poll loop.                                                          *)
(***************************************************************************)
LoopStep(r, from, to) ==
  /\ loopPc[r] = from
  /\ loopPc' = [loopPc EXCEPT ![r] = to]
  /\ UNCHANGED << wiring, engineVars, clientVars, loopCancelled >>

Quiet == UNCHANGED << contextVars, faults >>

\* A tick and a cancelled context may be ready together: select takes either.
Tick(r) ==
  /\ LoopStep(r, "wait", "query")
  /\ Quiet /\ UNCHANGED << historyVars, held, heldHandler >>

\* QuerySnapshot succeeds and Swap(0) resets the counter.
QueryOk(r, answers) ==
  /\ QuerySucceeds(answers)
  /\ LoopStep(r, "query", "deliver")
  /\ Count(r, 0, 0)
  /\ held' = [held EXCEPT ![r] = QuerySnapshot(answers)]
  /\ Quiet /\ UNCHANGED heldHandler

\* A query fails by its answer (a refused connection is one), or because the
\* context of the loop is cancelled.
CanFail(r) == LoopDone(r) \/ \E answers \in Answers : ~QuerySucceeds(answers)

\* Mutants of QueryErr: the threshold is passed, not reached; failures are
\* counted and nothing is emitted.
QueryErrLate(r) ==
  /\ CanFail(r)
  /\ Count(r, consecutiveFailures + 1, streak[r] + 1)
  /\ \/ /\ consecutiveFailures >= Threshold
        /\ LoopStep(r, "query", "deliver")
        /\ held' = [held EXCEPT ![r] = SyntheticBreach]
     \/ /\ consecutiveFailures < Threshold
        /\ LoopStep(r, "query", "wait") /\ UNCHANGED held
  /\ Quiet /\ UNCHANGED heldHandler

QueryErrSilent(r) ==
  /\ CanFail(r)
  /\ Count(r, consecutiveFailures + 1, streak[r] + 1)
  /\ LoopStep(r, "query", "wait")
  /\ Quiet /\ UNCHANGED << held, heldHandler >>

QueryErr(r) ==
  /\ CanFail(r)
  /\ Count(r, consecutiveFailures + 1, streak[r] + 1)
  /\ \/ /\ consecutiveFailures + 1 >= Threshold
        /\ LoopStep(r, "query", "deliver")
        /\ held' = [held EXCEPT ![r] = SyntheticBreach]
     \/ /\ consecutiveFailures + 1 < Threshold
        /\ LoopStep(r, "query", "wait") /\ UNCHANGED held
  /\ Quiet /\ UNCHANGED heldHandler

\* The handler is copied under the lock and called after the unlock.  It is
\* never nil: a handler is wired before the first Start.
Deliver(r) ==
  /\ LoopStep(r, "deliver", "handle")
  /\ heldHandler' = [heldHandler EXCEPT ![r] = handler]
  /\ disturbed' = disturbed \union (IF handler = r THEN {} ELSE {r})
  /\ Quiet /\ UNCHANGED << consecutiveFailures, streak, held >>

Handled(r) ==
  /\ LoopStep(r, "handle", "wait")
  /\ held' = [held EXCEPT ![r] = NoSnapshot]
  /\ heldHandler' = [heldHandler EXCEPT ![r] = NoRun]
  /\ UNCHANGED historyVars

\* The manager's handler stores the observation in the context of its run; a
\* failure cancels both contexts of the run.
SaveFails(r) ==
  LET h == heldHandler[r]
  IN  /\ wiring = "manager" /\ Handled(r)
      /\ \/ h \in expDone /\ UNCHANGED faults
         \/ h \notin expDone /\ faults < MaxFaults /\ faults' = faults + 1
      /\ expDone' = expDone \union {h} /\ stressDone' = stressDone \union {h}

\* It then evaluates the snapshot and cancels the traffic on a breach.
SaveAndEvaluate(r) ==
  LET h == heldHandler[r]
      stop == ShouldStop(held[r], PolicyOf(Config[h]))
  IN  /\ wiring = "manager" /\ h \notin expDone /\ Handled(r)
      /\ stressDone' = stressDone \union (IF stop THEN {h} ELSE {})
      /\ UNCHANGED << expDone, faults >>

\* The handler of EvaluatingController stores nothing and cancels the
\* experiment.
EvaluateOnly(r) ==
  LET h == heldHandler[r]
      stop == ShouldStop(held[r], PolicyOf(Config[h]))
  IN  /\ wiring = "evaluating" /\ Handled(r)
      /\ expDone' = expDone \union (IF stop THEN {h} ELSE {})
      /\ UNCHANGED << stressDone, faults >>

Leave(r) ==
  /\ LoopDone(r) /\ LoopStep(r, "wait", "exited")
  /\ Quiet /\ UNCHANGED << historyVars, held, heldHandler >>

Query(r) == QueryErr(r) \/ \E answers \in Answers : QueryOk(r, answers)

Handle(r) == SaveFails(r) \/ SaveAndEvaluate(r) \/ EvaluateOnly(r)

Loop(r) == Tick(r) \/ Query(r) \/ Deliver(r) \/ Handle(r) \/ Leave(r)

Next ==
  \E r \in Runs :
    \/ SetSnapshotHandler(r) \/ Start(r) \/ StopTraffic(r) \/ Stop(r) \/ CancelExp(r)
    \/ Loop(r)

Spec == Init /\ [][Next]_vars

\* The scheduler runs every goroutine that can run, the ticker ticks, a query
\* ends with its context, and select does not miss a cancelled context for
\* ever.  Nothing is assumed of users, of the other goroutines of the manager,
\* or of Prometheus: a query has no deadline and may never be answered.
FairSpec ==
  /\ Spec
  /\ \A r \in Runs :
       /\ WF_vars(Tick(r) \/ Deliver(r) \/ Handle(r) \/ Leave(r))
       /\ WF_vars(LoopDone(r) /\ Query(r))
       /\ SF_vars(Leave(r))

-----------------------------------------------------------------------------
(* Properties.                                                             *)

\* Every variable has its type.
TypeOK ==
  /\ wiring \in { "manager", "evaluating" }
  /\ running \in BOOLEAN
  /\ current \in Runs \union {NoRun} /\ handler \in Runs \union {NoRun}
  /\ consecutiveFailures \in 0 .. Threshold /\ streak \in [Runs -> 0 .. Threshold]
  /\ expDone \subseteq Runs /\ stressDone \subseteq Runs
  /\ loopCancelled \subseteq Runs /\ disturbed \subseteq Runs
  /\ clientPc \in [Runs -> { "new", "wired", "stopped", "done" }]
  /\ startPc \in [Runs -> { "none", "spawned", "returned" }]
  /\ loopPc \in [Runs -> { "none", "wait", "query", "deliver", "handle", "exited" }]
  /\ DOMAIN held = Runs
  /\ heldHandler \in [Runs -> Runs \union {NoRun}]
  /\ faults \in 0 .. MaxFaults

Phase(r) ==
  CASE loopPc[r] = "none"   -> "none"
    [] loopPc[r] = "exited" -> "gone"
    [] OTHER -> IF LoopDone(r) THEN "leaving" ELSE "polling"

Slot == INSTANCE PollSlot WITH Exclusive <- FALSE, phase <- [r \in Runs |-> Phase(r)]

\* The engine polls for one run at a time, however Start, Stop, the contexts of
\* the runs and the loops interleave, and a loop that is cancelled leaves even
\* if Prometheus hangs: it implements the slot that is not exclusive.
EngineImplementsSlot == Slot!FairSpec

\* "if Prometheus becomes unreachable (or returns consecutive query errors)
\* ... trigger a fail-safe stop" (internal/watcher/evaluator.go:69): a loop that
\* has failed Threshold times in a row and gone back to its ticker has stopped
\* the traffic of its run.  It need not, if another loop or a late Start reset
\* the shared counter meanwhile, if the snapshot went to the handler of another
\* run, or if the policy of the run does not catch the sentinel.
FailSafe ==
  \A r \in Runs :
    (/\ loopPc[r] = "wait" /\ streak[r] >= Threshold /\ r \notin disturbed
     /\ CatchesLoss(Config[r])) => StressDone(r)

\* No traffic is stopped for an outage that was not seen: a loop that no other
\* one disturbed holds the sentinel only after Threshold failures in a row.
BreachIsEarned ==
  \A r \in Runs :
    (/\ loopPc[r] \in { "deliver", "handle" } /\ held[r] = SyntheticBreach
     /\ r \notin disturbed /\ streak[r] < Threshold)
      => \E answers \in Answers : QuerySucceeds(answers) /\ QuerySnapshot(answers) = held[r]

\* As long as queries are answered at all, a live loop whose handler is its own
\* keeps delivering what Prometheus really said, or the traffic of its run
\* ends: an outage is never waited out.
OutageEndsTraffic ==
  \A r \in Runs :
    CatchesLoss(Config[r]) /\ []<>(loopPc[r] # "query") =>
      ((Live(r) /\ handler = r) ~>
         (\/ loopPc[r] = "deliver" /\ held[r] # SyntheticBreach
          \/ StressDone(r) \/ LoopDone(r) \/ handler # r))
=============================================================================
