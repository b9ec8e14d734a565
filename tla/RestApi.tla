------------------------------- MODULE RestApi -------------------------------
(***************************************************************************)
(* The REST API (internal/api/handler.go) as its clients see it.  A client *)
(* sends one request after the other; a handler is a few statements on the *)
(* database, with those of other requests, of the runs in the background   *)
(* and of failures between them.                                           *)
(*                                                                         *)
(* Of the experiment manager this module has what its requests do and what *)
(* ExperimentLifecycle, which ExperimentManager implements, lets its runs  *)
(* do to the tables.  A statement that fails uses one of MaxFaults.        *)
(***************************************************************************)
EXTENDS ExperimentRepository

CONSTANTS
  Clients,
  MayAsk,           \* the requests each client sends
  Experiments,      \* the ids that uuid.New may return
  MaxTime,          \* bound: the clock
  MaxObservations,  \* bound: rows per experiment
  MaxFaults         \* bound: failing statements and queries

ASSUME BoundAssumption ==
  MaxTime \in Nat \ {0} /\ MaxObservations \in Nat /\ MaxFaults \in Nat

VARIABLES
  rows, observations, reports,   \* the tables
  activeRuns,                    \* experiments with a registered run
  now, faults,
  pc, target,                    \* the handler of each client's request
  answer,                        \* the status code sent by the last step, or 0
  told, shown,                   \* history: what each reader was last shown
  won                            \* history: start requests answered with RUNNING

tables  == << rows, observations, reports >>
handler == << pc, target >>
history == << told, shown, won >>
vars == << tables, activeRuns, now, faults, handler, answer, history >>

Exists(e) == rows[e].status # "none"

Init ==
  /\ rows = [e \in Experiments |-> NoRow]
  /\ observations = [e \in Experiments |-> << >>] /\ reports = {}
  /\ activeRuns = {} /\ now = 1 /\ faults = 0
  /\ pc = [c \in Clients |-> "idle"]
  /\ target \in [Clients -> Experiments] /\ answer = 0
  /\ told = [c \in Clients |-> [e \in Experiments |-> NoRow]]
  /\ shown = [c \in Clients |-> [e \in Experiments |-> Never]]
  /\ won = [e \in Experiments |-> 0]

(***************************************************************************)
(* Errors.  A failure of the database or of Jaeger is told by its text,    *)
(* and some of their texts say "invalid" (of a character, of an input).    *)
(***************************************************************************)
Failures == { "failed", "invalid" }

handleServiceError(error) ==
  CASE error = "was not found" -> 404
    [] error \in { "illegal transition", "already running", "not in StateCreated",
                   "not actively running" } -> 409
    [] error = "invalid" -> 400
    [] OTHER -> 500

Fault == faults < MaxFaults /\ faults' = faults + 1
NoFault == UNCHANGED faults

(***************************************************************************)
(* Steps of a handler.  First is the statement a request begins with.      *)
(***************************************************************************)
First(c, kind, e) ==
  /\ pc[c] = "idle" /\ kind \in MayAsk[c]
  /\ target' = [target EXCEPT ![c] = e]

At(c, here) == pc[c] = here /\ UNCHANGED target

Goto(c, there) ==
  /\ pc' = [pc EXCEPT ![c] = there] /\ answer' = 0

Reply(c, code) ==
  /\ pc' = [pc EXCEPT ![c] = "idle"] /\ answer' = code

ReplyError(c, error) == Reply(c, handleServiceError(error))

\* An answer that carries rows of the experiments in es.
Show(c, es) ==
  told' = [told EXCEPT ![c] = [e \in Experiments |-> IF e \in es THEN rows[e] ELSE @[e]]]

\* A statement that fails and ends the request.
FailReply(c) == Fault /\ \E error \in Failures : ReplyError(c, error)

\* GetByID, and the 404 of every handler that asks for the experiment first.
Verify(c, kind, e, next) ==
  /\ First(c, kind, e)
  /\ \/ Exists(e) /\ NoFault /\ next
     \/ ~Exists(e) /\ NoFault /\ Reply(c, 404)
     \/ FailReply(c)

(***************************************************************************)
(* transitionState of the manager, as in ExperimentManager.                *)
(***************************************************************************)
Stored(e, status, reason) ==
  rows' = [rows EXCEPT ![e] = UpdateState(@, status, reason, now)]

TransitionOk(e, status, reason) ==
  /\ \/ rows[e].status = status /\ UNCHANGED rows
     \/ CanTransition(rows[e].status, status) /\ Stored(e, status, reason)
  /\ NoFault

TransitionFails(e, status, reason, error) ==
  \/ /\ error = "illegal transition" /\ NoFault
     /\ rows[e].status # status /\ ~CanTransition(rows[e].status, status)
     /\ UNCHANGED rows
  \/ /\ error \in Failures /\ Fault
     /\ \/ UNCHANGED rows
        \/ CanTransition(rows[e].status, status) /\ Stored(e, status, reason)

Errors == Failures \union { "illegal transition" }

(***************************************************************************)
(* The requests that only read.                                            *)
(***************************************************************************)
ReadOnly == UNCHANGED << tables, activeRuns, now, won >>

GetExperiment(c, e) ==
  /\ Verify(c, "get", e, Reply(c, 200))
  /\ IF answer' = 200 THEN Show(c, {e}) ELSE UNCHANGED told
  /\ ReadOnly /\ UNCHANGED shown

ListExperiments(c) ==
  /\ First(c, "list", target[c])
  /\ \/ NoFault /\ Reply(c, 200) /\ Show(c, Experiments)
     \/ FailReply(c) /\ UNCHANGED told
  /\ ReadOnly /\ UNCHANGED shown

GetExperimentStatus(c, e) ==
  /\ Verify(c, "status", e, Goto(c, "observations"))
  /\ ReadOnly /\ UNCHANGED << told, shown >>

\* The last row of the query, or a baseline that no row is behind: without rows,
\* and also when the query fails.
StatusObservations(c) ==
  LET e == target[c]
  IN  /\ At(c, "observations") /\ Reply(c, 200)
      /\ \/ NoFault /\ shown' = [shown EXCEPT ![c][e] = Latest(observations[e])]
         \/ Fault /\ shown' = [shown EXCEPT ![c][e] = Never]
      /\ ReadOnly /\ UNCHANGED told

GetExperimentReport(c, e) ==
  /\ Verify(c, "report", e, Goto(c, "report"))
  /\ ReadOnly /\ UNCHANGED << told, shown >>

ReportRow(c) ==
  /\ At(c, "report")
  /\ \/ NoFault /\ Reply(c, IF target[c] \in reports THEN 200 ELSE 404)
     \/ FailReply(c)
  /\ ReadOnly /\ UNCHANGED << told, shown >>

(***************************************************************************)
(* POST /api/experiments.  A request the handler refuses leaves no trace.  *)
(* Its 400 stands for every refusal of a body, the 413 of a long one too.  *)
(***************************************************************************)
CreateExperiment(c, e) ==
  /\ First(c, "create", e) /\ ~Exists(e)
  /\ \/ NoFault /\ Reply(c, 400) /\ UNCHANGED rows
     \/ NoFault /\ Reply(c, 201) /\ rows' = [rows EXCEPT ![e] = Create]
     \/ FailReply(c) /\ (UNCHANGED rows \/ rows' = [rows EXCEPT ![e] = Create])
  /\ UNCHANGED << observations, reports, activeRuns, now, history >>

(***************************************************************************)
(* POST /api/experiments/{id}/start: the handler's own look at the row,    *)
(* with a body and a plan that may be refused, then the manager's steps.   *)
(***************************************************************************)
ManagerKeeps == UNCHANGED << observations, reports, now, told, shown >>

StartExperiment(c, e) ==
  /\ Verify(c, "start", e, IF rows[e].status = "CREATED"
                           THEN Goto(c, "check") \/ Reply(c, 400) ELSE Reply(c, 409))
  /\ UNCHANGED << rows, activeRuns, won >> /\ ManagerKeeps

StartCheck(c) ==
  /\ At(c, "check")
  /\ \/ NoFault /\ rows[target[c]].status = "CREATED" /\ Goto(c, "plan")
     \/ NoFault /\ rows[target[c]].status # "CREATED" /\ ReplyError(c, "not in StateCreated")
     \/ FailReply(c)
  /\ UNCHANGED << rows, activeRuns, won >> /\ ManagerKeeps

StartPlan(c) ==
  /\ At(c, "plan")
  /\ \/ TransitionOk(target[c], "PLANNED", NoReason) /\ Goto(c, "graph")
     \/ \E error \in Errors :
          TransitionFails(target[c], "PLANNED", NoReason, error) /\ ReplyError(c, error)
  /\ UNCHANGED << activeRuns, won >> /\ ManagerKeeps

\* A failing BuildGraph aborts the experiment, whatever that comes to.
StartGraph(c) ==
  LET e == target[c]
  IN  /\ At(c, "graph")
      /\ \/ Goto(c, "register") /\ NoFault /\ UNCHANGED rows
         \/ /\ \E error \in Failures : ReplyError(c, error)
            /\ \/ TransitionOk(e, "ABORTED", "failure")
               \/ \E error \in Errors : TransitionFails(e, "ABORTED", "failure", error)
      /\ UNCHANGED << activeRuns, won >> /\ ManagerKeeps

\* Mutant of StartRegister: the entry of another run is replaced.
RegisterUnchecked(c) ==
  /\ At(c, "register") /\ NoFault
  /\ Goto(c, "run") /\ activeRuns' = activeRuns \union {target[c]}
  /\ UNCHANGED << rows, won >> /\ ManagerKeeps

StartRegister(c) ==
  /\ At(c, "register") /\ NoFault
  /\ IF target[c] \in activeRuns
     THEN ReplyError(c, "already running") /\ UNCHANGED activeRuns
     ELSE Goto(c, "run") /\ activeRuns' = activeRuns \union {target[c]}
  /\ UNCHANGED << rows, won >> /\ ManagerKeeps

StartRun(c) ==
  LET e == target[c]
  IN  /\ At(c, "run")
      /\ \/ /\ TransitionOk(e, "RUNNING", NoReason) /\ Reply(c, 200)
            /\ won' = [won EXCEPT ![e] = @ + 1]
         \/ /\ \E error \in Errors : TransitionFails(e, "RUNNING", NoReason, error)
            /\ Goto(c, "unregister") /\ UNCHANGED won
      /\ UNCHANGED activeRuns /\ ManagerKeeps

StartUnregister(c) ==
  /\ At(c, "unregister") /\ NoFault
  /\ \E error \in Errors : ReplyError(c, error)
  /\ activeRuns' = activeRuns \ {target[c]}
  /\ UNCHANGED << rows, won >> /\ ManagerKeeps

(***************************************************************************)
(* POST /api/experiments/{id}/stop: the manager is asked without a look at *)
(* the row.                                                                *)
(***************************************************************************)
StopExperiment(c, e) ==
  /\ First(c, "stop", e) /\ NoFault
  /\ \/ Reply(c, 400)
     \/ Goto(c, IF e \in activeRuns THEN "stopping" ELSE "orphan")
  /\ UNCHANGED << rows, activeRuns, won >> /\ ManagerKeeps

StopTransition(c, here, status) ==
  /\ At(c, here)
  /\ \/ TransitionOk(target[c], status, "stopped") /\ Reply(c, 200)
     \/ \E error \in Errors :
          TransitionFails(target[c], status, "stopped", error) /\ ReplyError(c, error)
  /\ UNCHANGED << activeRuns, won >> /\ ManagerKeeps

StopStopping(c) == StopTransition(c, "stopping", "STOPPING")
StopAbort(c) == StopTransition(c, "abort", "ABORTED")

StopOrphan(c) ==
  /\ At(c, "orphan")
  /\ \/ /\ NoFault
        /\ IF rows[target[c]].status \in { "RUNNING", "STOPPING" }
           THEN Goto(c, "abort") ELSE ReplyError(c, "not actively running")
     \/ FailReply(c)
  /\ UNCHANGED << rows, activeRuns, won >> /\ ManagerKeeps

(***************************************************************************)
(* The runs in the background, and the process.                            *)
(***************************************************************************)
InFlight(e) == \E c \in Clients : pc[c] \in { "run", "unregister" } /\ target[c] = e
Underway(e) == e \in activeRuns /\ ~InFlight(e)

\* Mutant of RunMoves: the experiment is completed before its report is stored.
RunMovesEarly(e, status) ==
  /\ Underway(e) /\ rows[e].status # "PLANNED"
  /\ CanTransition(rows[e].status, status)
  /\ Stored(e, status, IF status = "ABORTED" THEN "failure" ELSE NoReason)
  /\ answer' = 0
  /\ UNCHANGED << observations, reports, activeRuns, now, faults, handler, history >>

\* finishExperiment moves the row on, or aborts it.
RunMoves(e, status) ==
  /\ Underway(e) /\ rows[e].status # "PLANNED"
  /\ status = "COMPLETED" => e \in reports
  /\ CanTransition(rows[e].status, status)
  /\ Stored(e, status, IF status = "ABORTED" THEN "failure" ELSE NoReason)
  /\ answer' = 0
  /\ UNCHANGED << observations, reports, activeRuns, now, faults, handler, history >>

SaveReport(e) ==
  /\ Underway(e) /\ rows[e].status \in { "REPORTING", "ABORTED" }
  /\ reports' = reports \union {e}
  /\ answer' = 0
  /\ UNCHANGED << rows, observations, activeRuns, now, faults, handler, history >>

\* A snapshot is stored some time after it was taken, possibly by the loop of an
\* earlier run of the shared watcher, and several may be under way.
SaveSnapshot(e, timestamp) ==
  /\ Underway(e) /\ rows[e].startedAt # Never
  /\ Len(observations[e]) < MaxObservations
  /\ observations' = [observations EXCEPT ![e] = SaveObservation(@, timestamp)]
  /\ answer' = 0
  /\ UNCHANGED << rows, reports, activeRuns, now, faults, handler, history >>

\* finishExperiment is done; if a statement of it failed, wherever the row is.
RunEnds(e) ==
  /\ Underway(e)
  /\ \/ IsTerminal(rows[e].status) /\ NoFault
     \/ Fault
  /\ activeRuns' = activeRuns \ {e}
  /\ answer' = 0
  /\ UNCHANGED << tables, now, handler, history >>

\* The requests in flight go unanswered.
Restart ==
  /\ activeRuns # {} \/ \E c \in Clients : pc[c] # "idle"
  /\ activeRuns' = {}
  /\ pc' = [c \in Clients |-> "idle"]
  /\ answer' = 0
  /\ UNCHANGED << tables, now, faults, target, history >>

Tick ==
  /\ now < MaxTime /\ now' = now + 1
  /\ answer' = 0
  /\ UNCHANGED << tables, activeRuns, faults, handler, history >>

HandlerStep(c) ==
  \/ \E e \in Experiments :
       \/ CreateExperiment(c, e) \/ StartExperiment(c, e) \/ StopExperiment(c, e)
       \/ GetExperiment(c, e) \/ GetExperimentStatus(c, e) \/ GetExperimentReport(c, e)
  \/ ListExperiments(c) \/ StatusObservations(c) \/ ReportRow(c)
  \/ StartCheck(c) \/ StartPlan(c) \/ StartGraph(c) \/ StartRegister(c)
  \/ StartRun(c) \/ StartUnregister(c)
  \/ StopStopping(c) \/ StopOrphan(c) \/ StopAbort(c)

RunStep(e) ==
  \/ \E status \in ExperimentStates : RunMoves(e, status)
  \/ SaveReport(e) \/ RunEnds(e)
  \/ \E timestamp \in 1 .. now : SaveSnapshot(e, timestamp)

Next ==
  \/ \E c \in Clients : HandlerStep(c)
  \/ \E e \in Experiments : RunStep(e)
  \/ Restart \/ Tick

Spec == Init /\ [][Next]_vars

-----------------------------------------------------------------------------
(* Properties.                                                             *)

\* "only CREATED experiments can be started" (internal/api/handler.go:304), an
\* answer that each of several concurrent start requests may have passed: no
\* two of them are answered with RUNNING, unless a statement failed and a run
\* left its row RUNNING behind.
StartWinsOnce == \A e \in Experiments : won[e] > 1 => faults > 0

\* What a client was shown of an experiment is a past of what it is shown later:
\* the state moved along the matrix, the two times and a reason are kept once
\* they are there, and they agree with the state.
Stage == [ none |-> 0, CREATED |-> 1, PLANNED |-> 2, RUNNING |-> 3, STOPPING |-> 4,
           ANALYZING |-> 5, REPORTING |-> 6, COMPLETED |-> 7 ]

Reaches(s, t) ==
  \/ s = t
  \/ t = "ABORTED" /\ ~IsTerminal(s)
  \/ s # "ABORTED" /\ t # "ABORTED" /\ Stage[s] < Stage[t]

Coherent(row) ==
  /\ row.endedAt # Never <=> IsTerminal(row.status)
  /\ row.status \in { "none", "CREATED", "PLANNED" } => row.startedAt = Never
  /\ row.status \in PostTraffic \union { "RUNNING", "STOPPING", "REPORTING" } => row.startedAt # Never
  /\ row.endedAt # Never => row.startedAt <= row.endedAt

PastOf(old, new) ==
  /\ Reaches(old.status, new.status)
  /\ old.startedAt \in { Never, new.startedAt } /\ old.endedAt \in { Never, new.endedAt }
  /\ old.stopReason # NoReason => new.stopReason # NoReason

\* A client's answers never contradict each other ("Retrieve completed
\* experiment report", docs/LLD.md:1171): each row is coherent and continues the
\* one before, and who has seen COMPLETED is not told that there is no report.
AnswersNeverContradict ==
  [][\A c \in Clients :
       /\ \A e \in Experiments : Coherent(told'[c][e]) /\ PastOf(told[c][e], told'[c][e])
       /\ pc[c] = "report" /\ pc'[c] = "idle" /\ answer' = 404
            => told[c][target[c]].status # "COMPLETED"]_vars

\* "latest persisted observation" (internal/api/handler.go:504): the status of an
\* experiment never goes back, to an earlier row or to the baseline of one
\* without rows, although snapshots are stored out of order, unless the query
\* for them failed.
StatusGoesForward ==
  [][\A c \in Clients, e \in Experiments :
       shown'[c][e] >= shown[c][e] \/ faults' > faults]_vars
=============================================================================
