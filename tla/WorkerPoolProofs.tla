-------------------------- MODULE WorkerPoolProofs --------------------------
(***************************************************************************)
(* Theorems about WorkerPool, for any number of starts, stops and tasks    *)
(* and any concurrency.                                                    *)
(***************************************************************************)
EXTENDS WorkerPool, TLAPS

-----------------------------------------------------------------------------
(* Types.                                                                  *)

\* A call of Stop that has something to cancel found a pool.
StopsAPool ==
  \A s \in Stops : stopPc[s] \in { "cancel", "ticker" } => stopOf[s] \in Starts

TypeInv == TypeOK /\ StopsAPool

LEMMA TypeInit == Init => TypeInv
BY PoolAssumption
   DEF Init, TypeInv, StopsAPool, TypeOK, PoolType, WorkType, CallType, Stopping

LEMMA TypeStep == ASSUME TypeInv, Next PROVE TypeOK'
<1> USE DEF TypeInv
<1> USE DEF TypeOK
<1>1. ASSUME NEW g \in Starts, Start(g) \/ CancelCaller(g) PROVE TypeOK'
  <2>1. PoolType'
    BY <1>1 DEF Start, CancelCaller, PoolType, doneVars, poolVars
  <2>2. WorkType'
    BY <1>1 DEF Start, CancelCaller, WorkType, workVars
  <2>3. CallType'
    BY <1>1 DEF Start, CancelCaller, CallType, submitVars, stopVars
  <2> QED BY <2>1, <2>2, <2>3
<1>2. ASSUME NEW w \in Workers, Worker(w) PROVE TypeOK'
  <2>1. PoolType'
    BY <1>2 DEF Worker, Take, Run, Finish, Leave, WorkerStep, PoolType, doneVars, poolVars
  <2>2. CallType'
    BY <1>2 DEF Worker, Take, Run, Finish, Leave, WorkerStep, CallType, submitVars, Stopping
  <2>3. CASE Take(w)
    <3>1. workCh \in Seq(Tasks) /\ workCh # << >> BY <2>3 DEF Take, WorkType
    <3>2. /\ Head(workCh) \in Tasks
          /\ Tail(workCh) \in Seq(Tasks) /\ Len(Tail(workCh)) = Len(workCh) - 1
      BY <3>1
    <3>3. workCh' \in Seq(Tasks) /\ Len(workCh') <= MaxConcurrency
      BY <2>3, <3>1, <3>2, PoolAssumption DEF Take, WorkType
    <3>4. /\ workerPc' \in [Workers -> { "none", "idle", "holding", "running", "exited" }]
          /\ inHand' \in [Workers -> SUBSET Tasks] /\ executed' \subseteq Tasks
      BY <2>3, <3>2 DEF Take, WorkerStep, WorkType
    <3> QED BY <2>1, <2>2, <3>3, <3>4 DEF WorkType
  <2>4. CASE Run(w) \/ Finish(w) \/ Leave(w)
    BY <2>1, <2>2, <2>4 DEF Run, Finish, Leave, WorkerStep, WorkType
  <2> QED BY <1>2, <2>3, <2>4 DEF Worker
<1>3. ASSUME NEW t \in Tasks, SubmitRead(t) \/ SubmitSend(t) PROVE TypeOK'
  <2>1. PoolType' /\ CallType'
    BY <1>3 DEF SubmitRead, SubmitSend, SubmitStep, PoolType, CallType, poolVars, doneVars,
       stopVars
  <2>2. workCh' \in Seq(Tasks) /\ Len(workCh') <= MaxConcurrency
    <3>1. workCh \in Seq(Tasks) /\ Len(workCh) <= MaxConcurrency BY DEF WorkType
    <3>2. \/ workCh' = workCh
          \/ Len(workCh) < MaxConcurrency /\ workCh' = Append(workCh, t)
      BY <1>3 DEF SubmitRead, SubmitSend
    <3>3. Append(workCh, t) \in Seq(Tasks) /\ Len(Append(workCh, t)) = Len(workCh) + 1
      BY <3>1
    <3> QED BY <3>1, <3>2, <3>3, PoolAssumption
  <2>3. workerPc' = workerPc /\ inHand' = inHand /\ executed' = executed
    BY <1>3 DEF SubmitRead, SubmitSend, SubmitStep
  <2> QED BY <2>1, <2>2, <2>3 DEF WorkType
<1>4. ASSUME NEW s \in Stops, Stop(s) PROVE TypeOK'
  <2>1. WorkType'
    BY <1>4 DEF Stop, StopLock, StopCancel, StopTicker, StopWait, StopWake, StopStep,
       WorkType, workVars
  <2>2. CallType'
    BY <1>4 DEF Stop, StopLock, StopCancel, StopTicker, StopWait, StopWake, StopStep,
       CallType, PoolType, submitVars, Stopping
  <2>3. PoolType'
    BY <1>4 DEF Stop, StopLock, StopCancel, StopTicker, StopWait, StopWake, StopStep,
       PoolType, StopsAPool
  <2> QED BY <2>1, <2>2, <2>3
<1> QED BY <1>1, <1>2, <1>3, <1>4 DEF Next

LEMMA StopsAPoolStep == ASSUME TypeInv, Next PROVE StopsAPool'
<1> USE DEF TypeInv, TypeOK, PoolType, CallType, StopsAPool
<1>1. ASSUME NEW g \in Starts, Start(g) \/ CancelCaller(g) PROVE StopsAPool'
  BY <1>1 DEF Start, CancelCaller, stopVars
<1>2. ASSUME NEW w \in Workers, Worker(w) PROVE StopsAPool'
  BY <1>2 DEF Worker, Take, Run, Finish, Leave, WorkerStep
<1>3. ASSUME NEW t \in Tasks, SubmitRead(t) \/ SubmitSend(t) PROVE StopsAPool'
  BY <1>3 DEF SubmitRead, SubmitSend, SubmitStep, stopVars
<1>4. ASSUME NEW s \in Stops, Stop(s) PROVE StopsAPool'
  BY <1>4 DEF Stop, StopLock, StopCancel, StopTicker, StopWait, StopWake, StopStep
<1> QED BY <1>1, <1>2, <1>3, <1>4 DEF Next

LEMMA TypeInvariant == Spec => []TypeInv
<1>1. ASSUME TypeInv, [Next]_vars PROVE TypeInv'
  <2>1. CASE Next BY <1>1, <2>1, TypeStep, StopsAPoolStep DEF TypeInv
  <2>2. CASE UNCHANGED vars
    BY <1>1, <2>2 DEF vars, poolVars, doneVars, workVars, submitVars, stopVars, TypeInv,
       StopsAPool, TypeOK, PoolType, WorkType, CallType
  <2> QED BY <1>1, <2>1, <2>2
<1> QED BY TypeInit, <1>1, PTL DEF Spec

\* Every variable has its type and the queue keeps to its capacity.
THEOREM TypeCorrect == Spec => []TypeOK
<1>1. TypeInv => TypeOK BY DEF TypeInv
<1> QED BY TypeInvariant, <1>1, PTL

-----------------------------------------------------------------------------
(* Workers.                                                                *)

\* The start the pool holds was accepted, and so was every start a call of
\* Stop knows of; a call woken or returned has outlived their workers.
StopInv ==
  /\ current # NoStart => current \in started
  /\ \A s \in Stops :
       /\ stopSeen[s] \subseteq started
       /\ stopPc[s] \in { "woken", "returned" } => \A w \in Live : w[1] \notin stopSeen[s]

\* A worker belongs to the start the pool holds, or to one that a call of Stop
\* is still busy with.
LiveInv ==
  Panicked \/ \A w \in Live :
    \/ w[1] = current
    \/ \E s \in Stops : stopPc[s] \in Stopping /\ w[1] \in stopSeen[s]

PoolInv == StopInv /\ LiveInv

LEMMA PoolInit == Init => PoolInv
BY DEF Init, PoolInv, StopInv, LiveInv, Live

LEMMA StartKeepsPoolInv ==
  ASSUME TypeInv, PoolInv, NEW g \in Starts, Start(g) PROVE PoolInv'
<1> USE DEF TypeInv, TypeOK, PoolType, WorkType, CallType, PoolInv
<1>1. /\ current = NoStart /\ g \notin started
      /\ current' = g /\ started' = started \union {g}
      /\ UNCHANGED << stopPc, stopSeen >>
  BY DEF Start, stopVars
<1>2. \A w \in Live' : w[1] = g \/ w \in Live BY DEF Start, Live
<1>3. StopInv' BY <1>1, <1>2 DEF StopInv
<1>4. \A w \in Live : w[1] # NoStart BY PoolAssumption DEF Live, Workers
<1>5. LiveInv' BY <1>1, <1>2, <1>4 DEF LiveInv, Panicked
<1> QED BY <1>3, <1>5

LEMMA WorkerKeepsPoolInv ==
  ASSUME TypeInv, PoolInv, NEW v \in Workers, Worker(v) PROVE PoolInv'
<1> USE DEF TypeInv, TypeOK, PoolType, WorkType, CallType, PoolInv
<1>1. UNCHANGED << current, started, stopSeen >>
  BY DEF Worker, Take, Run, Finish, Leave, WorkerStep, poolVars
<1>2. Live' \subseteq Live
  BY DEF Worker, Take, Run, Finish, Leave, WorkerStep, Live
<1>3. CASE Take(v) \/ Run(v) \/ Finish(v)
  <2>1. UNCHANGED stopPc BY <1>3 DEF Take, Run, Finish
  <2> QED BY <1>1, <1>2, <2>1 DEF StopInv, LiveInv, Panicked
<1>4. CASE Leave(v)
  <2>1. \A s \in Stops :
          \/ stopPc'[s] = stopPc[s]
          \/ stopPc[s] = "waiting" /\ stopPc'[s] = "woken" /\ Live = {v}
    BY <1>4 DEF Leave
  <2>2. v \notin Live' BY <1>4 DEF Leave, WorkerStep, Live
  <2>3. StopInv' BY <1>1, <1>2, <2>1, <2>2 DEF StopInv
  <2>4. LiveInv'
    <3>1. Panicked => Panicked' BY <2>1 DEF Panicked
    <3>2. \A s \in Stops : stopPc[s] \in Stopping => stopPc'[s] \in Stopping
      BY <2>1 DEF Stopping
    <3> QED BY <1>1, <1>2, <3>1, <3>2 DEF LiveInv
  <2> QED BY <2>3, <2>4
<1> QED BY <1>3, <1>4 DEF Worker

LEMMA StopKeepsPoolInv ==
  ASSUME TypeInv, PoolInv, NEW s \in Stops, Stop(s), ~Panicked PROVE PoolInv'
<1> USE DEF TypeInv, TypeOK, PoolType, WorkType, CallType, PoolInv
<1>1. Live' = Live /\ started' = started
  BY DEF Stop, StopLock, StopCancel, StopTicker, StopWait, StopWake, StopStep, workVars, Live
<1>2. CASE StopLock(s)
  <2>1. /\ stopPc[s] = "idle" /\ stopSeen' = [stopSeen EXCEPT ![s] = started]
        /\ \E to \in { "wait", "cancel" } : stopPc' = [stopPc EXCEPT ![s] = to]
        /\ current' = NoStart
    BY <1>2 DEF StopLock, StopStep
  <2>2. StopInv' BY <1>1, <2>1 DEF StopInv
  <2>3. \A w \in Live : w[1] # NoStart BY PoolAssumption DEF Live, Workers
  <2>4. stopSeen'[s] = started /\ stopPc'[s] \in Stopping BY <2>1 DEF Stopping
  <2>5. LiveInv' BY <1>1, <2>1, <2>3, <2>4 DEF LiveInv, StopInv, Stopping, Panicked
  <2> QED BY <2>2, <2>5
<1>3. CASE StopCancel(s) \/ StopTicker(s)
  <2>1. /\ UNCHANGED << current, stopSeen >>
        /\ stopPc[s] \in { "cancel", "ticker" }
        /\ \E to \in { "ticker", "wait" } : stopPc' = [stopPc EXCEPT ![s] = to]
    BY <1>3 DEF StopCancel, StopTicker, StopStep
  <2>2. StopInv' BY <1>1, <2>1 DEF StopInv
  <2>3. LiveInv' BY <1>1, <2>1 DEF LiveInv, Stopping, Panicked
  <2> QED BY <2>2, <2>3
<1>4. CASE StopWait(s)
  <2>1. /\ UNCHANGED << current, stopSeen >> /\ stopPc[s] = "wait"
        /\ stopPc' = [stopPc EXCEPT ![s] = IF Live = {} THEN "returned" ELSE "waiting"]
    BY <1>4 DEF StopWait, StopStep
  <2>2. StopInv' BY <1>1, <2>1 DEF StopInv
  <2>3. LiveInv' BY <1>1, <2>1 DEF LiveInv, Stopping, Panicked
  <2> QED BY <2>2, <2>3
<1>5. CASE StopWake(s)
  <2>1. /\ UNCHANGED << current, stopSeen >> /\ stopPc[s] = "woken"
        /\ stopPc' = [stopPc EXCEPT ![s] = IF Live = {} THEN "returned" ELSE "panicked"]
    BY <1>5 DEF StopWake, StopStep
  <2>2. StopInv' BY <1>1, <2>1 DEF StopInv
  <2>3. LiveInv' BY <1>1, <2>1 DEF LiveInv, Stopping, Panicked
  <2> QED BY <2>2, <2>3
<1> QED BY <1>2, <1>3, <1>4, <1>5 DEF Stop

LEMMA PoolStep == ASSUME TypeInv, PoolInv, [Next]_vars PROVE PoolInv'
<1>1. ASSUME NEW g \in Starts, CancelCaller(g) PROVE PoolInv'
  BY <1>1 DEF CancelCaller, poolVars, workVars, stopVars, PoolInv, StopInv, LiveInv, Live,
     Panicked
<1>2. ASSUME NEW t \in Tasks, SubmitRead(t) \/ SubmitSend(t) PROVE PoolInv'
  BY <1>2 DEF SubmitRead, SubmitSend, SubmitStep, poolVars, stopVars, PoolInv, StopInv,
     LiveInv, Live, Panicked
<1>3. CASE UNCHANGED vars
  BY <1>3 DEF vars, poolVars, workVars, stopVars, PoolInv, StopInv, LiveInv, Live, Panicked
<1> QED
  BY <1>1, <1>2, <1>3, StartKeepsPoolInv, WorkerKeepsPoolInv, StopKeepsPoolInv DEF Next

LEMMA PoolInvariant == Spec => []PoolInv
<1> QED BY TypeInvariant, PoolInit, PoolStep, PTL DEF Spec

\* When a call of Stop returns, the workers of every start accepted before it
\* are gone, whatever other calls of Start and Stop do.
THEOREM StopWaitsForWorkers == Spec => []StopLeavesNoWorker
<1>1. PoolInv => StopLeavesNoWorker BY DEF PoolInv, StopInv, StopLeavesNoWorker
<1> QED BY PoolInvariant, <1>1, PTL

\* Only a call of Stop in progress can leave workers next to those of the pool.
THEOREM NoStrayWorkers == Spec => []WorkersBelongToThePool
<1>1. PoolInv => WorkersBelongToThePool BY DEF PoolInv, LiveInv, WorkersBelongToThePool
<1> QED BY PoolInvariant, <1>1, PTL

-----------------------------------------------------------------------------
(* Tasks.                                                                  *)

\* A worker that was not started has no goroutine; only one that holds or runs
\* a task has one in its hand.
HandInv ==
  \A w \in Workers :
    /\ w[1] \notin started => workerPc[w] = "none"
    /\ inHand[w] # {} => workerPc[w] \in { "holding", "running" }

\* No task is in the queue twice, in the queue and elsewhere, in two hands, or
\* in a hand and executed.
Apart ==
  /\ \A i, j \in 1 .. Len(workCh) : workCh[i] = workCh[j] => i = j
  /\ \A i \in 1 .. Len(workCh) :
       workCh[i] \notin executed /\ \A w \in Workers : workCh[i] \notin inHand[w]
  /\ \A v, w \in Workers : v # w => inHand[v] \intersect inHand[w] = {}
  /\ \A w \in Workers : inHand[w] \intersect executed = {}

\* What is in the pool, or was executed by it, was accepted.
AllAccepted ==
  /\ \A i \in 1 .. Len(workCh) : submitPc[workCh[i]] = "accepted"
  /\ \A w \in Workers : \A t \in inHand[w] : submitPc[t] = "accepted"
  /\ \A t \in executed : submitPc[t] = "accepted"

TaskInv == HandInv /\ Apart /\ AllAccepted

LEMMA TaskInit == Init => TaskInv
BY DEF Init, TaskInv, HandInv, Apart, AllAccepted

LEMMA HandStep == ASSUME TypeInv, PoolInv, HandInv, Next PROVE HandInv'
<1> USE DEF TypeInv, TypeOK, PoolType, WorkType
<1>1. ASSUME NEW g \in Starts, Start(g) \/ CancelCaller(g) PROVE HandInv'
  BY <1>1 DEF Start, CancelCaller, poolVars, workVars, HandInv
<1>2. ASSUME NEW w \in Workers, Worker(w) PROVE HandInv'
  BY <1>2 DEF Worker, Take, Run, Finish, Leave, WorkerStep, poolVars, HandInv
<1>3. ASSUME NEW t \in Tasks, SubmitRead(t) \/ SubmitSend(t) PROVE HandInv'
  BY <1>3 DEF SubmitRead, SubmitSend, SubmitStep, poolVars, HandInv
<1>4. ASSUME NEW s \in Stops, Stop(s) PROVE HandInv'
  BY <1>4 DEF Stop, StopLock, StopCancel, StopTicker, StopWait, StopWake, StopStep,
     workVars, HandInv
<1> QED BY <1>1, <1>2, <1>3, <1>4 DEF Next

\* The first task of the queue moves into a hand that was empty.
LEMMA TakeKeepsTasks ==
  ASSUME TypeInv, TaskInv, NEW v \in Workers, Take(v) PROVE (Apart /\ AllAccepted)'
<1> USE DEF TypeInv, TypeOK, WorkType
<1>1. /\ workCh \in Seq(Tasks) /\ workCh # << >> /\ workCh' = Tail(workCh)
      /\ Len(workCh') = Len(workCh) - 1 /\ Len(workCh) \in Nat \ {0}
      /\ \A i \in 1 .. Len(workCh') : i + 1 \in 1 .. Len(workCh) /\ workCh'[i] = workCh[i + 1]
  BY DEF Take
<1>2. Head(workCh) = workCh[1] /\ 1 \in 1 .. Len(workCh) BY <1>1
<1>3. /\ inHand' = [inHand EXCEPT ![v] = { workCh[1] }]
      /\ UNCHANGED << executed, submitPc >>
  BY <1>2 DEF Take, WorkerStep, submitVars
<1>4. Apart'
  <2>1. \A i \in 1 .. Len(workCh') : workCh'[i] # workCh[1]
    BY <1>1, <1>2 DEF TaskInv, Apart
  <2>2. \A i, j \in 1 .. Len(workCh') : workCh'[i] = workCh'[j] => i = j
    BY <1>1 DEF TaskInv, Apart
  <2>3. \A i \in 1 .. Len(workCh') :
          workCh'[i] \notin executed' /\ \A w \in Workers : workCh'[i] \notin inHand'[w]
    BY <1>1, <1>3, <2>1 DEF TaskInv, Apart
  <2>4. \A w \in Workers : workCh[1] \notin inHand[w]
    BY <1>2 DEF TaskInv, Apart
  <2>5. \A u, w \in Workers : u # w => inHand'[u] \intersect inHand'[w] = {}
    BY <1>3, <2>4 DEF TaskInv, Apart
  <2>6. \A w \in Workers : inHand'[w] \intersect executed' = {}
    BY <1>2, <1>3 DEF TaskInv, Apart
  <2> QED BY <2>2, <2>3, <2>5, <2>6 DEF Apart
<1>5. AllAccepted'
  BY <1>1, <1>2, <1>3 DEF TaskInv, AllAccepted
<1> QED BY <1>4, <1>5

\* The other steps of a worker leave the queue alone, and can only empty a hand.
LEMMA WorkerKeepsTasks ==
  ASSUME TypeInv, TaskInv, NEW v \in Workers, Run(v) \/ Finish(v) \/ Leave(v)
  PROVE  (Apart /\ AllAccepted)'
<1> USE DEF TypeInv, TypeOK, WorkType
<1>1. UNCHANGED << workCh, submitPc >>
  BY DEF Run, Finish, Leave, WorkerStep, submitVars
<1>2. /\ \A w \in Workers : inHand'[w] \subseteq inHand[w]
      /\ \/ executed' = executed
         \/ executed' = executed \union inHand[v] /\ inHand'[v] = {}
  BY DEF Run, Finish, Leave
<1>3. Apart'
  <2>1. \A i \in 1 .. Len(workCh') :
          workCh'[i] \notin executed' /\ \A w \in Workers : workCh'[i] \notin inHand'[w]
    BY <1>1, <1>2 DEF TaskInv, Apart
  <2>2. \A u, w \in Workers : u # w => inHand'[u] \intersect inHand'[w] = {}
    BY <1>2, Zenon DEF TaskInv, Apart
  <2>3. \A w \in Workers : inHand'[w] \intersect executed' = {}
    BY <1>2 DEF TaskInv, Apart
  <2> QED BY <1>1, <2>1, <2>2, <2>3 DEF TaskInv, Apart
<1>4. AllAccepted' BY <1>1, <1>2 DEF TaskInv, AllAccepted
<1> QED BY <1>3, <1>4

\* A task that is sent was nowhere before: it was not accepted yet.
LEMMA SubmitKeepsTasks ==
  ASSUME TypeInv, TaskInv, NEW t \in Tasks, SubmitRead(t) \/ SubmitSend(t)
  PROVE  (Apart /\ AllAccepted)'
<1> USE DEF TypeInv, TypeOK, WorkType, CallType
<1>1. /\ submitPc[t] \in { "idle", "send" }
      /\ UNCHANGED << inHand, executed >>
      /\ \A u \in Tasks : u # t => submitPc'[u] = submitPc[u]
      /\ \/ workCh' = workCh
         \/ workCh' = Append(workCh, t) /\ submitPc'[t] = "accepted"
  BY DEF SubmitRead, SubmitSend, SubmitStep
<1>2. /\ workCh \in Seq(Tasks) /\ Len(workCh) \in Nat
      /\ \A i \in 1 .. Len(workCh) : workCh[i] \in Tasks /\ workCh[i] # t
  BY <1>1 DEF TaskInv, AllAccepted
<1>3. /\ \A w \in Workers : t \notin inHand[w]
      /\ t \notin executed
  BY <1>1 DEF TaskInv, AllAccepted
<1>4. CASE workCh' = workCh
  <2>1. Apart' BY <1>1, <1>4 DEF TaskInv, Apart
  <2>2. AllAccepted' BY <1>1, <1>2, <1>3, <1>4 DEF TaskInv, AllAccepted
  <2> QED BY <2>1, <2>2
<1>5. CASE workCh' = Append(workCh, t) /\ submitPc'[t] = "accepted"
  <2>1. /\ Len(workCh') = Len(workCh) + 1 /\ workCh'[Len(workCh) + 1] = t
        /\ \A i \in 1 .. Len(workCh') : i # Len(workCh) + 1 =>
             i \in 1 .. Len(workCh) /\ workCh'[i] = workCh[i]
    BY <1>2, <1>5
  <2>2. \A i, j \in 1 .. Len(workCh') : workCh'[i] = workCh'[j] => i = j
    BY <1>2, <2>1 DEF TaskInv, Apart
  <2>3. \A i \in 1 .. Len(workCh') :
          workCh'[i] \notin executed' /\ \A w \in Workers : workCh'[i] \notin inHand'[w]
    BY <1>1, <1>3, <2>1 DEF TaskInv, Apart
  <2>4. Apart' BY <1>1, <2>2, <2>3 DEF TaskInv, Apart
  <2>5. AllAccepted' BY <1>1, <1>2, <1>3, <1>5, <2>1 DEF TaskInv, AllAccepted
  <2> QED BY <2>4, <2>5
<1> QED BY <1>1, <1>4, <1>5

LEMMA TaskStep == ASSUME TypeInv, PoolInv, TaskInv, [Next]_vars PROVE TaskInv'
<1>1. ASSUME NEW w \in Workers, Worker(w) PROVE (Apart /\ AllAccepted)'
  BY <1>1, TakeKeepsTasks, WorkerKeepsTasks DEF Worker
<1>2. ASSUME NEW t \in Tasks, SubmitRead(t) \/ SubmitSend(t) PROVE (Apart /\ AllAccepted)'
  BY <1>2, SubmitKeepsTasks
<1>3. ASSUME NEW g \in Starts, Start(g) \/ CancelCaller(g) PROVE (Apart /\ AllAccepted)'
  BY <1>3 DEF Start, CancelCaller, workVars, submitVars, TaskInv, Apart, AllAccepted
<1>4. ASSUME NEW s \in Stops, Stop(s) PROVE (Apart /\ AllAccepted)'
  BY <1>4 DEF Stop, StopLock, StopCancel, StopTicker, StopWait, StopWake, StopStep,
     workVars, submitVars, TaskInv, Apart, AllAccepted
<1>5. CASE Next
  BY <1>1, <1>2, <1>3, <1>4, <1>5, HandStep DEF Next, TaskInv
<1>6. CASE UNCHANGED vars
  BY <1>6 DEF vars, poolVars, workVars, submitVars, TaskInv, HandInv, Apart, AllAccepted
<1> QED BY <1>5, <1>6

LEMMA TaskInvariant == Spec => []TaskInv
<1> QED BY TypeInvariant, PoolInvariant, TaskInit, TaskStep, PTL DEF Spec

\* An accepted task is in the queue once, with one worker, or executed, and in
\* one of these places only, for any number of starts, stops, tasks and workers.
THEOREM NoTaskTwice == Spec => []TaskInOnePlace
<1>1. ASSUME TypeInv, TaskInv PROVE TaskInOnePlace
  <2> USE <1>1 DEF TypeInv, TypeOK, WorkType, TaskInv, Apart, AllAccepted
  <2> SUFFICES ASSUME NEW t \in Tasks
               PROVE  LET queued == { i \in 1 .. Len(workCh) : workCh[i] = t }
                          held   == { w \in Workers : t \in inHand[w] }
                      IN  /\ \A i, j \in queued : i = j
                          /\ \A v, w \in held : v = w
                          /\ queued # {} => held = {} /\ t \notin executed
                          /\ held # {} => t \notin executed
                          /\ queued # {} \/ held # {} \/ t \in executed
                               => submitPc[t] = "accepted"
    BY DEF TaskInOnePlace
  <2> DEFINE queued == { i \in 1 .. Len(workCh) : workCh[i] = t }
             held   == { w \in Workers : t \in inHand[w] }
  <2>1. \A i, j \in queued : i = j OBVIOUS
  <2>2. \A v, w \in held : v = w OBVIOUS
  <2>3. queued # {} => held = {} /\ t \notin executed OBVIOUS
  <2>4. held # {} => t \notin executed OBVIOUS
  <2>5. queued # {} \/ held # {} \/ t \in executed => submitPc[t] = "accepted" OBVIOUS
  <2> QED BY <2>1, <2>2, <2>3, <2>4, <2>5
<1> QED BY TypeInvariant, TaskInvariant, <1>1, PTL

\* A task that leaves the pool was executed, or the worker that held it saw its
\* context cancelled: no take overwrites a task, no start and no stop drops one.
TasksAreKept ==
  \A t \in Tasks : InPool(t) =>
    \/ InPool(t)' \/ t \in executed'
    \/ \E w \in Workers : t \in inHand[w] /\ Done(w[1]) /\ workerPc'[w] = "exited"

LEMMA TakeLosesNoTask ==
  ASSUME TypeInv, HandInv, NEW v \in Workers, Take(v) PROVE TasksAreKept
<1> USE DEF TypeInv, TypeOK, WorkType
<1> SUFFICES ASSUME NEW t \in Tasks, InPool(t) PROVE InPool(t)' BY DEF TasksAreKept
<1>1. /\ Len(workCh) \in Nat \ {0} /\ Len(workCh') = Len(workCh) - 1
      /\ \A i \in 1 .. Len(workCh') : workCh'[i] = workCh[i + 1]
      /\ inHand' = [inHand EXCEPT ![v] = { workCh[1] }]
  BY DEF Take
<1>2. CASE \E i \in 1 .. Len(workCh) : workCh[i] = t
  <2>1. PICK i \in 1 .. Len(workCh) : workCh[i] = t BY <1>2
  <2>2. CASE i = 1
    <3>1. t \in inHand'[v] BY <1>1, <2>1, <2>2
    <3> QED BY <3>1 DEF InPool
  <2>3. CASE i # 1
    <3>1. i - 1 \in 1 .. Len(workCh') /\ workCh'[i - 1] = t BY <1>1, <2>1, <2>3
    <3> QED BY <3>1 DEF InPool
  <2> QED BY <2>2, <2>3
<1>3. CASE \E w \in Workers : t \in inHand[w]
  <2>1. PICK w \in Workers : t \in inHand[w] BY <1>3
  <2>2. w # v BY <2>1 DEF Take, WorkerStep, HandInv
  <2>3. t \in inHand'[w] BY <1>1, <2>1, <2>2
  <2> QED BY <2>3 DEF InPool
<1> QED BY <1>2, <1>3 DEF InPool

LEMMA TasksKeptStep == ASSUME TypeInv, TaskInv, [Next]_vars PROVE TasksAreKept
<1> USE DEF TypeInv, TypeOK, WorkType
<1>1. ASSUME NEW v \in Workers, Run(v) PROVE TasksAreKept
  BY <1>1 DEF Run, WorkerStep, TasksAreKept, InPool
<1>2. ASSUME NEW v \in Workers, Finish(v) PROVE TasksAreKept
  BY <1>2 DEF Finish, WorkerStep, TasksAreKept, InPool
<1>3. ASSUME NEW v \in Workers, Leave(v) PROVE TasksAreKept
  BY <1>3 DEF Leave, WorkerStep, TasksAreKept, InPool
<1>4. ASSUME NEW u \in Tasks, SubmitRead(u) \/ SubmitSend(u) PROVE TasksAreKept
  <2> SUFFICES ASSUME NEW t \in Tasks, InPool(t) PROVE InPool(t)' BY DEF TasksAreKept
  <2>1. /\ inHand' = inHand /\ Len(workCh) \in Nat
        /\ workCh' = workCh \/ workCh' = Append(workCh, u)
    BY <1>4 DEF SubmitRead, SubmitSend, SubmitStep
  <2>2. \A i \in 1 .. Len(workCh) : i \in 1 .. Len(workCh') /\ workCh'[i] = workCh[i]
    BY <2>1
  <2> QED BY <2>1, <2>2 DEF InPool
<1>5. ASSUME UNCHANGED << workCh, inHand >> PROVE TasksAreKept
  BY <1>5 DEF TasksAreKept, InPool
<1>6. ASSUME NEW g \in Starts, Start(g) \/ CancelCaller(g) PROVE UNCHANGED << workCh, inHand >>
  BY <1>6 DEF Start, CancelCaller, workVars
<1>7. ASSUME NEW s \in Stops, Stop(s) PROVE UNCHANGED << workCh, inHand >>
  BY <1>7 DEF Stop, StopLock, StopCancel, StopTicker, StopWait, StopWake, StopStep, workVars
<1>8. CASE UNCHANGED vars
  BY <1>5, <1>8 DEF vars, workVars
<1>9. CASE Next
  BY <1>9, <1>1, <1>2, <1>3, <1>4, <1>5, <1>6, <1>7, TakeLosesNoTask
     DEF Next, Worker, TaskInv
<1> QED BY <1>8, <1>9

\* No task is lost between two places.
THEOREM NoTaskLost == Spec => [][TasksAreKept]_vars
<1>1. TypeInv /\ TaskInv /\ [Next]_vars => TasksAreKept BY TasksKeptStep
<1> QED BY TypeInvariant, TaskInvariant, <1>1, PTL DEF Spec
=============================================================================
