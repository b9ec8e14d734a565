----------------------------- MODULE WorkerPool -----------------------------
(***************************************************************************)
(* internal/stress/worker.go: a pool of MaxConcurrency worker goroutines   *)
(* behind a bounded queue.  Start, Stop and Submit may be called by any    *)
(* goroutine at any moment, and a stopped pool may be started again: the   *)
(* queue and the wait group outlive a start, the context and the ticker    *)
(* do not.                                                                 *)
(*                                                                         *)
(* A start of the pool is named by the call of Start that makes it, a task *)
(* by the call of Submit that carries it.  One action is one critical      *)
(* section of wp.mu, one channel operation or one step of the wait group.  *)
(***************************************************************************)
EXTENDS Integers, Sequences

CONSTANTS
  Starts,          \* calls of Start
  Cancellable,     \* the starts whose caller may cancel the context
  Stops,           \* calls of Stop
  Tasks,           \* calls of Submit
  NoStart,
  MaxConcurrency   \* maxConcurrency, the capacity of the queue too

ASSUME PoolAssumption ==
  /\ NoStart \notin Starts /\ Cancellable \subseteq Starts
  /\ MaxConcurrency \in Nat \ {0}

Workers == Starts \X (1 .. MaxConcurrency)

VARIABLES
  current,        \* the start whose ctx, cancel and ticker the pool holds
  started,        \* the starts that were accepted
  callerDone,     \* the starts whose caller's context is cancelled
  cancelled,      \* the starts whose cancel function was called
  tickerStopped,  \* the starts whose ticker is stopped
  workCh,         \* tasks waiting in the queue
  workerPc, inHand,   \* the workers and the task each one holds
  submitPc, submitTo, \* the calls of Submit and the start whose context they read
  executed,       \* history: the tasks that ran to their end
  stopPc, stopOf, \* the calls of Stop and the start each one found
  stopSeen        \* history: the starts accepted before the call of Stop

poolVars   == << current, started >>
doneVars   == << callerDone, cancelled, tickerStopped >>
workVars   == << workCh, workerPc, inHand, executed >>
submitVars == << submitPc, submitTo >>
stopVars   == << stopPc, stopOf, stopSeen >>
vars == << poolVars, doneVars, workVars, submitVars, stopVars >>

Done(g) == g \in callerDone \/ g \in cancelled

\* The workers the wait group counts.
Live == { w \in Workers : workerPc[w] \in { "idle", "holding", "running" } }

Stopping == { "cancel", "ticker", "wait", "waiting", "woken" }

\* The runtime ends the process.
Panicked == \E s \in Stops : stopPc[s] = "panicked"

Init ==
  /\ current = NoStart /\ started = {}
  /\ callerDone = {} /\ cancelled = {} /\ tickerStopped = {}
  /\ workCh = << >> /\ executed = {}
  /\ workerPc = [w \in Workers |-> "none"]
  /\ inHand = [w \in Workers |-> {}]
  /\ submitPc = [t \in Tasks |-> "idle"]
  /\ submitTo = [t \in Tasks |-> NoStart]
  /\ stopPc = [s \in Stops |-> "idle"]
  /\ stopOf = [s \in Stops |-> NoStart]
  /\ stopSeen = [s \in Stops |-> {}]

(***************************************************************************)
(* Start.                                                                  *)
(***************************************************************************)
\* Mutant of Start: a running pool is started again.
StartUnchecked(g) ==
  /\ g \notin started
  /\ current' = g /\ started' = started \union {g}
  /\ workerPc' = [w \in Workers |-> IF w[1] = g THEN "idle" ELSE workerPc[w]]
  /\ UNCHANGED << doneVars, workCh, inHand, executed, submitVars, stopVars >>

\* A call that finds the pool running is refused and changes nothing.
Start(g) ==
  /\ g \notin started /\ current = NoStart
  /\ current' = g /\ started' = started \union {g}
  /\ workerPc' = [w \in Workers |-> IF w[1] = g THEN "idle" ELSE workerPc[w]]
  /\ UNCHANGED << doneVars, workCh, inHand, executed, submitVars, stopVars >>

\* The owner of the context given to Start cancels it; to cancel it before the
\* call comes to the same, as Start does not look at it.
CancelCaller(g) ==
  /\ g \in Cancellable /\ g \in started /\ ~Done(g)
  /\ callerDone' = callerDone \union {g}
  /\ UNCHANGED << poolVars, cancelled, tickerStopped, workVars, submitVars, stopVars >>

(***************************************************************************)
(* The workers.                                                            *)
(***************************************************************************)
WorkerStep(w, from, to) ==
  /\ workerPc[w] = from
  /\ workerPc' = [workerPc EXCEPT ![w] = to]
  /\ UNCHANGED << poolVars, doneVars, submitVars, stopOf, stopSeen >>

Take(w) ==
  /\ workCh # << >>
  /\ WorkerStep(w, "idle", "holding")
  /\ inHand' = [inHand EXCEPT ![w] = { Head(workCh) }]
  /\ workCh' = Tail(workCh)
  /\ UNCHANGED << executed, stopPc >>

\* A tick of the ticker lets the worker run its task.
Run(w) ==
  /\ w[1] \notin tickerStopped
  /\ WorkerStep(w, "holding", "running")
  /\ UNCHANGED << workCh, inHand, executed, stopPc >>

Finish(w) ==
  /\ WorkerStep(w, "running", "idle")
  /\ executed' = executed \union inHand[w]
  /\ inHand' = [inHand EXCEPT ![w] = {}]
  /\ UNCHANGED << workCh, stopPc >>

\* Mutant of Leave: the last worker does not wake the calls of Stop.
LeaveSilently(w) ==
  /\ Done(w[1])
  /\ WorkerStep(w, "idle", "exited") \/ WorkerStep(w, "holding", "exited")
  /\ inHand' = [inHand EXCEPT ![w] = {}]
  /\ UNCHANGED << workCh, executed, stopPc >>

\* The worker sees its context cancelled and drops the task it holds; the last
\* one to call wg.Done wakes every waiting call of Stop.
Leave(w) ==
  /\ Done(w[1])
  /\ WorkerStep(w, "idle", "exited") \/ WorkerStep(w, "holding", "exited")
  /\ inHand' = [inHand EXCEPT ![w] = {}]
  /\ stopPc' = [s \in Stops |-> IF stopPc[s] = "waiting" /\ Live = {w} THEN "woken"
                                                                       ELSE stopPc[s]]
  /\ UNCHANGED << workCh, executed >>

Worker(w) == Take(w) \/ Run(w) \/ Finish(w) \/ Leave(w)

(***************************************************************************)
(* Submit.                                                                 *)
(***************************************************************************)
SubmitStep(t, from, to) ==
  /\ submitPc[t] = from
  /\ submitPc' = [submitPc EXCEPT ![t] = to]
  /\ UNCHANGED << poolVars, doneVars, workerPc, inHand, executed, stopVars >>

\* A call that finds the pool not started is refused and changes nothing.
SubmitRead(t) ==
  /\ current # NoStart
  /\ SubmitStep(t, "idle", "send")
  /\ submitTo' = [submitTo EXCEPT ![t] = current]
  /\ UNCHANGED workCh

\* Mutant of SubmitSend: the context is looked at after the task is sent.
SubmitThenCheck(t) ==
  /\ \/ /\ Len(workCh) < MaxConcurrency
        /\ SubmitStep(t, "send", IF Done(submitTo[t]) THEN "refused" ELSE "accepted")
        /\ workCh' = Append(workCh, t)
     \/ /\ Len(workCh) = MaxConcurrency
        /\ SubmitStep(t, "send", "refused") /\ UNCHANGED workCh
  /\ UNCHANGED submitTo

\* The pool may have been stopped, and started again, since the context was
\* read; a cancelled context and a free place are ready together.
SubmitSend(t) ==
  /\ \/ /\ Len(workCh) < MaxConcurrency
        /\ SubmitStep(t, "send", "accepted") /\ workCh' = Append(workCh, t)
     \/ /\ Done(submitTo[t]) \/ Len(workCh) = MaxConcurrency
        /\ SubmitStep(t, "send", "refused") /\ UNCHANGED workCh
  /\ UNCHANGED submitTo

(***************************************************************************)
(* Stop.                                                                   *)
(***************************************************************************)
StopStep(s, from, to) ==
  /\ stopPc[s] = from
  /\ stopPc' = [stopPc EXCEPT ![s] = to]
  /\ UNCHANGED << started, callerDone, workVars, submitVars >>

\* Mutant of StopLock: a pool that is not running has nobody to wait for.
StopReturnsEarly(s) ==
  /\ StopStep(s, "idle", IF current = NoStart THEN "returned" ELSE "cancel")
  /\ stopOf' = [stopOf EXCEPT ![s] = current]
  /\ stopSeen' = [stopSeen EXCEPT ![s] = started]
  /\ current' = NoStart
  /\ UNCHANGED << cancelled, tickerStopped >>

StopLock(s) ==
  /\ StopStep(s, "idle", IF current = NoStart THEN "wait" ELSE "cancel")
  /\ stopOf' = [stopOf EXCEPT ![s] = current]
  /\ stopSeen' = [stopSeen EXCEPT ![s] = started]
  /\ current' = NoStart
  /\ UNCHANGED << cancelled, tickerStopped >>

StopCancel(s) ==
  /\ StopStep(s, "cancel", "ticker")
  /\ cancelled' = cancelled \union { stopOf[s] }
  /\ UNCHANGED << current, tickerStopped, stopOf, stopSeen >>

\* Mutant of StopTicker: the ticker is read after the unlock.
StopTickerLate(s) ==
  /\ StopStep(s, "ticker", "wait")
  /\ tickerStopped' = tickerStopped \union ({current} \ {NoStart})
  /\ UNCHANGED << current, cancelled, stopOf, stopSeen >>

StopTicker(s) ==
  /\ StopStep(s, "ticker", "wait")
  /\ tickerStopped' = tickerStopped \union { stopOf[s] }
  /\ UNCHANGED << current, cancelled, stopOf, stopSeen >>

\* wg.Wait with a counter of zero returns, otherwise the call waits.
StopWait(s) ==
  /\ StopStep(s, "wait", IF Live = {} THEN "returned" ELSE "waiting")
  /\ UNCHANGED << current, cancelled, tickerStopped, stopOf, stopSeen >>

\* A woken Wait that finds the counter in use again panics.
StopWake(s) ==
  /\ StopStep(s, "woken", IF Live = {} THEN "returned" ELSE "panicked")
  /\ UNCHANGED << current, cancelled, tickerStopped, stopOf, stopSeen >>

Stop(s) == StopLock(s) \/ StopCancel(s) \/ StopTicker(s) \/ StopWait(s) \/ StopWake(s)

-----------------------------------------------------------------------------
Next ==
  /\ ~Panicked
  /\ \/ \E g \in Starts : Start(g) \/ CancelCaller(g)
     \/ \E w \in Workers : Worker(w)
     \/ \E t \in Tasks : SubmitRead(t) \/ SubmitSend(t)
     \/ \E s \in Stops : Stop(s)

Spec == Init /\ [][Next]_vars

\* Goroutines that can run do run, tasks end, and a ticker ticks; nobody need
\* call Start, Submit or Stop.  A worker whose context is cancelled may take
\* tasks instead as long as there are any.
Fairness ==
  /\ \A w \in Workers : WF_vars(~Panicked /\ Worker(w))
  /\ \A s \in Stops :
       WF_vars(~Panicked /\ (StopCancel(s) \/ StopTicker(s) \/ StopWait(s) \/ StopWake(s)))

FairSpec == Spec /\ Fairness

-----------------------------------------------------------------------------
(* Properties.                                                             *)

PoolType ==
  /\ current \in Starts \union {NoStart}
  /\ started \subseteq Starts
  /\ callerDone \subseteq Starts /\ cancelled \subseteq Starts
  /\ tickerStopped \subseteq Starts
WorkType ==
  /\ workCh \in Seq(Tasks) /\ Len(workCh) <= MaxConcurrency
  /\ workerPc \in [Workers -> { "none", "idle", "holding", "running", "exited" }]
  /\ inHand \in [Workers -> SUBSET Tasks]
  /\ executed \subseteq Tasks
CallType ==
  /\ submitPc \in [Tasks -> { "idle", "send", "accepted", "refused" }]
  /\ submitTo \in [Tasks -> Starts \union {NoStart}]
  /\ stopPc \in [Stops -> { "idle", "returned", "panicked" } \union Stopping]
  /\ stopOf \in [Stops -> Starts \union {NoStart}]
  /\ stopSeen \in [Stops -> SUBSET Starts]

\* Every variable has its type; the queue keeps to its capacity.
TypeOK == PoolType /\ WorkType /\ CallType

\* "Stop() performs a graceful shutdown by ... waiting for workers to finish"
\* (docs/LLD.md:357): when it returns, no worker of any earlier start is left,
\* although another call of Stop may have emptied the pool before.
StopLeavesNoWorker ==
  \A s \in Stops : stopPc[s] = "returned" =>
    \A w \in Live : w[1] \notin stopSeen[s]

\* "Maximum goroutines allowed in flight" (internal/stress/worker.go:14) can be
\* exceeded only while a call of Stop is still in progress: otherwise every
\* worker belongs to the start the pool holds.
WorkersBelongToThePool ==
  (\A s \in Stops : stopPc[s] \notin Stopping) =>
    Panicked \/ \A w \in Live : w[1] = current

\* An accepted task is in one place: in the queue once, or with one worker, or
\* executed; and nobody executes a task that was not accepted.
TaskInOnePlace ==
  \A t \in Tasks :
    LET queued == { i \in 1 .. Len(workCh) : workCh[i] = t }
        held   == { w \in Workers : t \in inHand[w] }
    IN  /\ \A i, j \in queued : i = j
        /\ \A v, w \in held : v = w
        /\ queued # {} => held = {} /\ t \notin executed
        /\ held # {} => t \notin executed
        /\ queued # {} \/ held # {} \/ t \in executed => submitPc[t] = "accepted"

\* A call of Stop comes back, unless the pool is started again before its
\* workers are gone: the call then waits for the new workers, or panics.
StopReturns ==
  \A s \in Stops :
    stopPc[s] \in Stopping ~> stopPc[s] = "returned" \/ current # NoStart \/ Panicked

InPool(t) == (\E i \in 1 .. Len(workCh) : workCh[i] = t) \/ (\E w \in Workers : t \in inHand[w])

\* An accepted task is executed if the pool it was accepted by goes on, unless
\* a cancelled worker, of an earlier start too, is there to take and drop it.
AcceptedTaskRuns ==
  \A t \in Tasks :
    InPool(t) ~>
      \/ t \in executed \/ current # submitTo[t] \/ Done(submitTo[t]) \/ Panicked
      \/ \E w \in Live : Done(w[1])
=============================================================================
