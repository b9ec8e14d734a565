---------------------------- MODULE MetricWatcher ----------------------------
(***************************************************************************)
(* The metric stream (internal/watcher/watcher.go): a Watcher polls        *)
(* Prometheus for one run at a time and streams snapshots over a bounded   *)
(* channel.  Start and Stop may be called by any goroutine at any moment,  *)
(* the caller's context may be cancelled, and the consumer may stall.      *)
(*                                                                         *)
(* A run is named by the call of Start that begins it.  One action is one  *)
(* critical section of w.mu, one query or one channel operation.           *)
(***************************************************************************)
EXTENDS Naturals

CONSTANTS
  Runs,          \* calls of Start
  Stoppers,      \* calls of Stop
  NoRun,
  BufferSize,    \* bufferSize
  Threshold,     \* failureThreshold
  ImmediatePoll, \* immediatePoll
  MaxFailures    \* bound: consecutive failing queries

ASSUME WatcherAssumption ==
  /\ NoRun \notin Runs
  /\ BufferSize \in Nat \ {0} /\ Threshold \in Nat \ {0} /\ MaxFailures \in Nat
  /\ ImmediatePoll \in BOOLEAN

VARIABLES
  dropOnFull,   \* option of the Watcher, chosen when it is made
  state, currentRun, consecutiveFailures,  \* the Watcher
  startPc,      \* the calls of Start
  callerDone,   \* the runs whose caller's context is cancelled
  cancelled,    \* the runs whose cancel function was called
  loopPc,       \* the poll loops
  buffered,     \* snapshots waiting in the run's channel
  closed,       \* the runs whose channel is closed
  stopPc, stopRun,  \* the calls of Stop and the run each one stops
  streak        \* history: Prometheus errors in a row, per run

slotVars == << state, currentRun >>
stopVars == << stopPc, stopRun >>
pollVars == << buffered, closed, streak >>
vars == << dropOnFull, slotVars, consecutiveFailures, startPc, callerDone, cancelled, loopPc,
           pollVars, stopVars >>

Done(r) == r \in callerDone \/ r \in cancelled

Polling == { "wait", "query", "sendReal", "sendSynthetic" }
Leaving == { "closing", "releasing", "signalling" }
LoopPcs == { "none", "done" } \union Polling \union Leaving

Init ==
  /\ dropOnFull \in BOOLEAN
  /\ state = "stopped" /\ currentRun = NoRun /\ consecutiveFailures = 0
  /\ startPc = [r \in Runs |-> "idle"]
  /\ callerDone = {} /\ cancelled = {} /\ closed = {}
  /\ loopPc = [r \in Runs |-> "none"]
  /\ buffered = [r \in Runs |-> 0]
  /\ stopPc = [s \in Stoppers |-> "idle"]
  /\ stopRun = [s \in Stoppers |-> NoRun]
  /\ streak = [r \in Runs |-> 0]

(***************************************************************************)
(* Start.                                                                  *)
(***************************************************************************)
\* ctx.Err is read before the lock: the context may be cancelled in between.
StartCheck(r) ==
  /\ startPc[r] = "idle"
  /\ startPc' = [startPc EXCEPT ![r] = IF r \in callerDone THEN "refused" ELSE "checked"]
  /\ UNCHANGED << dropOnFull, slotVars, consecutiveFailures, callerDone, cancelled,
                  loopPc, pollVars, stopVars >>

Begin(r) ==
  /\ startPc' = [startPc EXCEPT ![r] = "started"]
  /\ state' = "running" /\ currentRun' = r
  /\ loopPc' = [loopPc EXCEPT ![r] = IF ImmediatePoll THEN "query" ELSE "wait"]

Refuse(r) ==
  /\ startPc' = [startPc EXCEPT ![r] = "refused"]
  /\ UNCHANGED << slotVars, consecutiveFailures, loopPc >>

\* Mutants of StartLock: a run that is being stopped counts as stopped; the
\* failure counter is not reset.
StartWhileStopping(r) ==
  /\ startPc[r] = "checked"
  /\ \/ state # "running" /\ Begin(r) /\ consecutiveFailures' = 0
     \/ state = "running" /\ Refuse(r)
  /\ UNCHANGED << dropOnFull, callerDone, cancelled, pollVars, stopVars >>

StartKeepsCounter(r) ==
  /\ startPc[r] = "checked"
  /\ \/ state = "stopped" /\ currentRun = NoRun /\ Begin(r) /\ UNCHANGED consecutiveFailures
     \/ (state # "stopped" \/ currentRun # NoRun) /\ Refuse(r)
  /\ UNCHANGED << dropOnFull, callerDone, cancelled, pollVars, stopVars >>

StartLock(r) ==
  /\ startPc[r] = "checked"
  /\ \/ state = "stopped" /\ currentRun = NoRun /\ Begin(r) /\ consecutiveFailures' = 0
     \/ (state # "stopped" \/ currentRun # NoRun) /\ Refuse(r)
  /\ UNCHANGED << dropOnFull, callerDone, cancelled, pollVars, stopVars >>

\* The owner of the context given to Start cancels it.
CancelCaller(r) ==
  /\ callerDone' = callerDone \union {r}
  /\ UNCHANGED << dropOnFull, slotVars, consecutiveFailures, startPc, cancelled,
                  loopPc, pollVars, stopVars >>

(***************************************************************************)
(* The poll loop.                                                          *)
(***************************************************************************)
LoopStep(r, from, to) ==
  /\ loopPc[r] = from
  /\ loopPc' = [loopPc EXCEPT ![r] = to]
  /\ UNCHANGED << dropOnFull, startPc, callerDone, cancelled, stopVars >>

\* A tick and a cancelled context may be ready together: select takes either.
Tick(r) ==
  /\ LoopStep(r, "wait", "query")
  /\ UNCHANGED << slotVars, consecutiveFailures, pollVars >>

QueryOk(r) ==
  /\ LoopStep(r, "query", "sendReal")
  /\ consecutiveFailures' = 0
  /\ streak' = [streak EXCEPT ![r] = 0]
  /\ UNCHANGED << slotVars, buffered, closed >>

\* Prometheus answers with an error, or the cancelled context ends the query.
QueryFail(r) ==
  /\ consecutiveFailures < MaxFailures
  /\ consecutiveFailures' = consecutiveFailures + 1
  /\ LoopStep(r, "query", IF consecutiveFailures + 1 >= Threshold THEN "sendSynthetic"
                                                                  ELSE "wait")
  /\ \/ streak' = [streak EXCEPT ![r] = @ + 1]
     \/ Done(r) /\ UNCHANGED streak
  /\ UNCHANGED << slotVars, buffered, closed >>

\* Mutant of Send: the waiting send does not look at the context.
SendBlocks(r) ==
  /\ \E from \in { "sendReal", "sendSynthetic" } : LoopStep(r, from, "wait")
  /\ \/ buffered[r] < BufferSize /\ buffered' = [buffered EXCEPT ![r] = @ + 1]
     \/ buffered[r] = BufferSize /\ dropOnFull /\ UNCHANGED buffered
  /\ UNCHANGED << slotVars, consecutiveFailures, closed, streak >>

\* sendSnapshot: give up on a cancelled context, send, or drop; a full
\* channel without dropOnFull makes the loop wait for one of the first two.
Send(r) ==
  /\ \E from \in { "sendReal", "sendSynthetic" } : LoopStep(r, from, "wait")
  /\ \/ Done(r) /\ UNCHANGED buffered
     \/ buffered[r] < BufferSize /\ buffered' = [buffered EXCEPT ![r] = @ + 1]
     \/ ~Done(r) /\ buffered[r] = BufferSize /\ dropOnFull /\ UNCHANGED buffered
  /\ UNCHANGED << slotVars, consecutiveFailures, closed, streak >>

LoopLeave(r) ==
  /\ Done(r)
  /\ LoopStep(r, "wait", "closing")
  /\ UNCHANGED << slotVars, consecutiveFailures, pollVars >>

CloseOut(r) ==
  /\ LoopStep(r, "closing", "releasing")
  /\ closed' = closed \union {r}
  /\ UNCHANGED << slotVars, consecutiveFailures, buffered, streak >>

\* Mutant of Release: only the state is reset.
ReleaseStateOnly(r) ==
  /\ LoopStep(r, "releasing", "signalling")
  /\ state' = "stopped"
  /\ UNCHANGED << currentRun, consecutiveFailures, pollVars >>

Release(r) ==
  /\ LoopStep(r, "releasing", "signalling")
  /\ IF currentRun = r THEN state' = "stopped" /\ currentRun' = NoRun
                       ELSE UNCHANGED slotVars
  /\ UNCHANGED << consecutiveFailures, pollVars >>

\* close(run.done)
SignalDone(r) ==
  /\ LoopStep(r, "signalling", "done")
  /\ UNCHANGED << slotVars, consecutiveFailures, pollVars >>

Loop(r) ==
  \/ Tick(r) \/ QueryOk(r) \/ QueryFail(r) \/ Send(r)
  \/ LoopLeave(r) \/ CloseOut(r) \/ Release(r) \/ SignalDone(r)

\* The consumer takes a snapshot off the channel.
Receive(r) ==
  /\ buffered[r] > 0
  /\ buffered' = [buffered EXCEPT ![r] = @ - 1]
  /\ UNCHANGED << dropOnFull, slotVars, consecutiveFailures, startPc, callerDone,
                  cancelled, loopPc, closed, streak, stopVars >>

(***************************************************************************)
(* Stop.                                                                   *)
(***************************************************************************)
StopStep(s, from, to) ==
  /\ stopPc[s] = from
  /\ stopPc' = [stopPc EXCEPT ![s] = to]
  /\ UNCHANGED << dropOnFull, currentRun, consecutiveFailures, startPc, callerDone,
                  loopPc, pollVars >>

\* Mutant of StopLock: a second caller does not wait.
StopHurries(s) ==
  /\ \/ /\ currentRun = NoRun
        /\ StopStep(s, "idle", "returned") /\ UNCHANGED << state, stopRun >>
     \/ /\ state = "stopping" /\ currentRun # NoRun
        /\ StopStep(s, "idle", "returned") /\ UNCHANGED state
        /\ stopRun' = [stopRun EXCEPT ![s] = currentRun]
     \/ /\ state = "running" /\ currentRun # NoRun
        /\ StopStep(s, "idle", "cancel") /\ state' = "stopping"
        /\ stopRun' = [stopRun EXCEPT ![s] = currentRun]
  /\ UNCHANGED cancelled

\* Nothing to stop; another call is stopping this run; or this call does.
StopLock(s) ==
  /\ \/ /\ state = "stopped" \/ currentRun = NoRun
        /\ StopStep(s, "idle", "returned") /\ UNCHANGED << state, stopRun >>
     \/ /\ state = "stopping" /\ currentRun # NoRun
        /\ StopStep(s, "idle", "waiting") /\ UNCHANGED state
        /\ stopRun' = [stopRun EXCEPT ![s] = currentRun]
     \/ /\ state = "running" /\ currentRun # NoRun
        /\ StopStep(s, "idle", "cancel") /\ state' = "stopping"
        /\ stopRun' = [stopRun EXCEPT ![s] = currentRun]
  /\ UNCHANGED cancelled

StopCancel(s) ==
  /\ StopStep(s, "cancel", "waiting")
  /\ cancelled' = cancelled \union { stopRun[s] }
  /\ UNCHANGED << state, stopRun >>

StopWait(s) ==
  /\ \E r \in Runs : stopRun[s] = r /\ loopPc[r] = "done"
  /\ StopStep(s, "waiting", "returned")
  /\ UNCHANGED << state, stopRun, cancelled >>

Stop(s) == StopLock(s) \/ StopCancel(s) \/ StopWait(s)

Next ==
  \/ \E r \in Runs :
       StartCheck(r) \/ StartLock(r) \/ CancelCaller(r) \/ Loop(r) \/ Receive(r)
  \/ \E s \in Stoppers : Stop(s)

Spec == Init /\ [][Next]_vars

\* Goroutines that can run do run.  The caller of Start, the consumer of the
\* channel and whoever owns the context may do nothing at all.
Fairness ==
  /\ \A r \in Runs :
       /\ WF_vars(Tick(r) \/ QueryOk(r) \/ QueryFail(r) \/ Send(r))
       /\ SF_vars(LoopLeave(r))
       /\ WF_vars(CloseOut(r) \/ Release(r) \/ SignalDone(r))
  /\ \A s \in Stoppers : WF_vars(StopCancel(s) \/ StopWait(s))

FairSpec == Spec /\ Fairness

-----------------------------------------------------------------------------
(* Properties.                                                             *)

SlotType ==
  /\ dropOnFull \in BOOLEAN
  /\ state \in { "stopped", "running", "stopping" }
  /\ currentRun \in Runs \union {NoRun}
  /\ consecutiveFailures \in Nat
CallType ==
  /\ startPc \in [Runs -> { "idle", "checked", "started", "refused" }]
  /\ callerDone \subseteq Runs /\ cancelled \subseteq Runs
  /\ stopPc \in [Stoppers -> { "idle", "cancel", "waiting", "returned" }]
  /\ stopRun \in [Stoppers -> Runs \union {NoRun}]
LoopType ==
  /\ loopPc \in [Runs -> LoopPcs]
  /\ buffered \in [Runs -> 0 .. BufferSize]
  /\ closed \subseteq Runs
  /\ streak \in [Runs -> Nat]

\* Every variable has its type.
TypeOK == SlotType /\ CallType /\ LoopType

Phase(r) ==
  CASE loopPc[r] = "none"                       -> "none"
    [] loopPc[r] \in { "signalling", "done" } -> "gone"
    [] OTHER -> IF Done(r) THEN "leaving" ELSE "polling"

Slot == INSTANCE PollSlot WITH Exclusive <- TRUE, phase <- [r \in Runs |-> Phase(r)]

\* The stream implements the exclusive slot: a run is polled for once and alone,
\* and the next one begins only when the loop before it, although its context
\* was cancelled long ago, has closed its channel and released the watcher.
StreamImplementsSlot == Slot!Spec

\* "Stop ... blocks until the background goroutine exits and the snapshot
\* channel is closed" (internal/watcher/watcher.go:182), also for the second
\* of two concurrent callers and for a run whose context was cancelled before.
StopWaitsForTheLoop ==
  \A s \in Stoppers :
    stopPc[s] = "returned" /\ stopRun[s] # NoRun =>
      loopPc[stopRun[s]] = "done" /\ stopRun[s] \in closed /\ currentRun # stopRun[s]

\* A synthetic breach is streamed to a run only after Threshold Prometheus
\* errors in a row of that very run: no failure of an earlier run counts.
BreachNeedsOwnErrors ==
  \A r \in Runs : loopPc[r] = "sendSynthetic" /\ ~Done(r) => streak[r] >= Threshold

\* A call of Stop returns, even if nobody reads the channel.
StopReturns ==
  \A s \in Stoppers : stopPc[s] \in { "cancel", "waiting" } ~> stopPc[s] = "returned"

\* A cancelled run leaves the watcher free for the next one.
SlotIsFreed ==
  \A r \in Runs : (currentRun = r /\ Done(r)) ~> currentRun # r
=============================================================================
