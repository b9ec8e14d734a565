---------------------------- MODULE RestApiProofs ----------------------------
(***************************************************************************)
(* Theorems about RestApi, for any number of clients and experiments and   *)
(* whatever each client may ask.  Three invariants are proved one on top   *)
(* of the other: the types, with the rows that exist and the clock; the    *)
(* order of the steps of concurrent start requests; and what the clients   *)
(* were shown as a past of the tables.                                     *)
(***************************************************************************)
EXTENDS RestApi, InductionLemmas

-----------------------------------------------------------------------------
(* Rows.                                                                   *)

Reasons == { NoReason, "failure", "stopped" }
Statuses == ExperimentStates \union { "none" }
Row == [ status : Statuses, stopReason : Reasons, startedAt : Nat, endedAt : Nat ]

\* A legal transition moves a row ahead and keeps it coherent.
LEMMA TransitionAhead ==
  ASSUME NEW s \in ExperimentStates, NEW t, CanTransition(s, t)
  PROVE  /\ t \in ExperimentStates /\ t # s /\ ~IsTerminal(s) /\ Reaches(s, t)
         /\ t = "RUNNING" <=> s = "PLANNED" /\ t # "ABORTED"
         /\ t = "PLANNED" => s = "CREATED"
         /\ s = "CREATED" => t \in { "PLANNED", "ABORTED" }
         /\ t # "CREATED"
BY DEF ExperimentStates, CanTransition, validTransitions, IsTerminal, Reaches, Stage

LEMMA UpdateFields ==
  ASSUME NEW row \in Row, NEW s \in Statuses, NEW why \in Reasons, NEW at \in Nat
  PROVE  LET new == UpdateState(row, s, why, at)
         IN  /\ new \in Row /\ new.status = s
             /\ new.stopReason = IF why = NoReason THEN row.stopReason ELSE why
             /\ new.startedAt = IF s = "RUNNING" /\ row.startedAt = Never THEN at
                                ELSE row.startedAt
             /\ new.endedAt = IF IsTerminal(s) /\ row.endedAt = Never THEN at
                              ELSE row.endedAt
BY DEF Row, UpdateState

LEMMA UpdateKeepsCoherence ==
  ASSUME NEW row \in Row, row.status # "none", NEW s, CanTransition(row.status, s),
         NEW why \in Reasons, NEW at \in Nat \ {0}, row.startedAt <= at, Coherent(row)
  PROVE  LET new == UpdateState(row, s, why, at)
         IN  Coherent(new) /\ PastOf(row, new)
<1> DEFINE new == UpdateState(row, s, why, at)
<1>1. row.status \in ExperimentStates BY DEF Row, Statuses
<1>2. /\ s \in ExperimentStates /\ ~IsTerminal(row.status) /\ Reaches(row.status, s)
      /\ s = "RUNNING" <=> row.status = "PLANNED" /\ s # "ABORTED"
      /\ s = "PLANNED" => row.status = "CREATED"
      /\ row.status = "CREATED" => s \in { "PLANNED", "ABORTED" }
      /\ s # "CREATED"
  BY <1>1, TransitionAhead
<1>3. s \in Statuses /\ at \in Nat BY <1>2 DEF Statuses
<1>4. /\ new \in Row /\ new.status = s
      /\ new.stopReason = IF why = NoReason THEN row.stopReason ELSE why
      /\ new.startedAt = IF s = "RUNNING" /\ row.startedAt = Never THEN at ELSE row.startedAt
      /\ new.endedAt = IF IsTerminal(s) /\ row.endedAt = Never THEN at ELSE row.endedAt
  BY <1>3, UpdateFields
<1> HIDE DEF new
<1>5. row.endedAt = Never BY <1>2 DEF Coherent
<1>6. new.endedAt # Never <=> IsTerminal(new.status)
  BY <1>3, <1>4, <1>5 DEF Never
<1>7. s \in { "none", "CREATED", "PLANNED" } => new.startedAt = Never
  BY <1>2, <1>4 DEF Coherent, ExperimentStates
<1>8. s \in PostTraffic \union { "RUNNING", "STOPPING", "REPORTING" } => new.startedAt # Never
  BY <1>1, <1>2, <1>4 DEF Coherent, ExperimentStates, CanTransition, validTransitions, PostTraffic, Never
<1>9. new.endedAt # Never => new.startedAt <= new.endedAt
  BY <1>3, <1>4, <1>5 DEF Row, Never
<1>10. PastOf(row, new)
  <2>1. row.startedAt \in { Never, new.startedAt } BY <1>4
  <2>2. row.endedAt \in { Never, new.endedAt } BY <1>5
  <2>3. row.stopReason # NoReason => new.stopReason # NoReason BY <1>4
  <2>4. Reaches(row.status, new.status) BY <1>2, <1>4
  <2> QED BY <2>1, <2>2, <2>3, <2>4 DEF PastOf
<1>11. Coherent(new)
  BY <1>4, <1>6, <1>7, <1>8, <1>9 DEF Coherent
<1> QED BY <1>10, <1>11 DEF new

\* What was a past of a row is a past of what becomes of the row.
LEMMA PastIsTransitive ==
  ASSUME NEW a \in Row, NEW b \in Row, NEW c \in Row, PastOf(a, b), PastOf(b, c)
  PROVE  PastOf(a, c)
<1>1. Reaches(a.status, c.status)
  BY DEF PastOf, Reaches, Row, Statuses, ExperimentStates, IsTerminal, Stage
<1> QED BY <1>1 DEF PastOf

-----------------------------------------------------------------------------
(* The types, and what the tables, the clock and the handlers know of each *)
(* other.                                                                  *)

Steps == { "idle", "observations", "report", "check", "plan", "graph", "register", "run",
           "unregister", "stopping", "orphan", "abort" }

\* Where a handler has seen the row of its experiment.
Verified == Steps \ { "idle", "orphan" }

TypeInv ==
  /\ rows \in [Experiments -> Row] /\ observations \in [Experiments -> Seq(Nat)]
  /\ activeRuns \subseteq Experiments /\ now \in Nat \ {0} /\ faults \in Nat
  /\ pc \in [Clients -> Steps] /\ target \in [Clients -> Experiments]
  /\ told \in [Clients -> [Experiments -> Row]]
  /\ shown \in [Clients -> [Experiments -> Nat]]
  /\ won \in [Experiments -> Nat]

\* A handler that saw a row, and a run, are about an experiment that exists.
ExistInv ==
  /\ \A c \in Clients : pc[c] \in Verified => Exists(target[c])
  /\ \A e \in activeRuns : Exists(e)

\* No time is ahead of the clock, every row is coherent, and an experiment has its
\* report when it is completed.
TablesInv ==
  \A e \in Experiments :
    /\ ~Exists(e) => rows[e] = NoRow
    /\ rows[e].startedAt <= now /\ Coherent(rows[e])
    /\ rows[e].status = "COMPLETED" => e \in reports
    /\ \A i \in 1 .. Len(observations[e]) : observations[e][i] <= now

-----------------------------------------------------------------------------
(* Concurrent start requests.                                              *)

Pending == { "check", "plan", "graph", "register", "run" }
Registered == { "run", "unregister" }

\* Between its registration and its answer a request holds the registration, alone.
HoldInv ==
  /\ \A c \in Clients : pc[c] \in Registered => target[c] \in activeRuns
  /\ \A c, d \in Clients :
       pc[c] \in Registered /\ pc[d] \in Registered /\ target[c] = target[d] => c = d

\* Unless a statement failed, the run of a RUNNING experiment lasts longer than any
\* start request that began before it; and a request that won left PLANNED behind.
WinInv ==
  \A e \in Experiments :
    /\ \A c \in Clients :
         faults = 0 /\ rows[e].status = "RUNNING" /\ pc[c] \in Pending /\ target[c] = e
           => Underway(e)
    /\ won[e] > 0 => rows[e].status \notin { "none", "CREATED", "PLANNED" }
    /\ faults = 0 => won[e] <= 1

-----------------------------------------------------------------------------
(* What the clients were shown.                                            *)

PastInv ==
  \A c \in Clients, e \in Experiments :
    Coherent(told[c][e]) /\ PastOf(told[c][e], rows[e])

ShownInv ==
  \A c \in Clients, e \in Experiments :
    shown[c][e] # Never =>
      \E i \in 1 .. Len(observations[e]) : shown[c][e] <= observations[e][i]

-----------------------------------------------------------------------------
(* What the steps come to.                                                 *)

Updated(e, s) ==
  Exists(e) /\ CanTransition(rows[e].status, s) /\ \E why \in Reasons : Stored(e, s, why)

Inserted(e) == ~Exists(e) /\ rows' = [rows EXCEPT ![e] = Create]

FaultsGoOn == faults' \in { faults, faults + 1 }

\* A step of a handler that changes nothing but where the handler is.
Looks(c) ==
  \E p \in Steps \ Registered, e \in Experiments :
    /\ pc' = [pc EXCEPT ![c] = p] /\ target' = [target EXCEPT ![c] = e]
    /\ p \in Verified => Exists(e)
    /\ p \in Pending =>
         rows[e].status = "CREATED" \/ (pc[c] \in Pending /\ e = target[c])
    /\ FaultsGoOn /\ UNCHANGED << tables, activeRuns, now, won >>

\* A step of a handler that updates a row, or tries to.
Transits(c) ==
  \E p \in Steps \ Registered, s \in { "PLANNED", "STOPPING", "ABORTED" } :
    /\ pc' = [pc EXCEPT ![c] = p] /\ UNCHANGED target
    /\ Exists(target[c]) /\ (p \in Pending => pc[c] \in Pending)
    /\ UNCHANGED rows \/ Updated(target[c], s)
    /\ FaultsGoOn
    /\ UNCHANGED << observations, reports, activeRuns, now, history >>

LEMMA TransitionKinds ==
  ASSUME NEW e \in Experiments, Exists(e), NEW s, NEW why \in Reasons, NEW error,
         TypeInv,
         TransitionOk(e, s, why) \/ TransitionFails(e, s, why, error)
  PROVE  /\ UNCHANGED rows \/ Updated(e, s)
         /\ FaultsGoOn
BY DEF TransitionOk, TransitionFails, Updated, FaultsGoOn, NoFault, Fault, TypeInv

LEMMA LookKinds ==
  ASSUME TypeInv, ExistInv, NEW c \in Clients,
         \/ \E e \in Experiments :
              \/ StartExperiment(c, e) \/ StopExperiment(c, e)
              \/ GetExperiment(c, e) \/ GetExperimentStatus(c, e) \/ GetExperimentReport(c, e)
         \/ ListExperiments(c) \/ StatusObservations(c) \/ ReportRow(c)
         \/ StartCheck(c) \/ StopOrphan(c)
  PROVE  Looks(c)
<1> USE DEF TypeInv, FaultsGoOn, Fault, NoFault, Reply, ReplyError, FailReply, Goto
<1>1. ASSUME NEW e \in Experiments, NEW p \in Steps \ Registered,
             pc' = [pc EXCEPT ![c] = p], target' = [target EXCEPT ![c] = e],
             p \in Verified => Exists(e),
             p \in Pending => rows[e].status = "CREATED" \/ (pc[c] \in Pending /\ e = target[c]),
             FaultsGoOn, UNCHANGED << tables, activeRuns, now, won >>
      PROVE  Looks(c)
  BY <1>1 DEF Looks
<1>2. /\ "idle" \in Steps \ Registered /\ "idle" \notin Verified \union Pending
      /\ { "check", "plan" } \subseteq Pending \ Registered
      /\ { "observations", "report", "check", "plan", "abort", "stopping", "orphan" }
           \subseteq Steps \ Registered
      /\ "orphan" \notin Verified
      /\ { "observations", "report", "abort", "stopping", "orphan" } \intersect Pending = {}
      /\ "check" \in Verified /\ "plan" \in Verified
  BY DEF Steps, Registered, Verified, Pending
<1>3. target' = target => target' = [target EXCEPT ![c] = target[c]] /\ target[c] \in Experiments
  OBVIOUS
<1>4. ASSUME NEW e \in Experiments, StartExperiment(c, e) PROVE Looks(c)
  <2>1. UNCHANGED << tables, activeRuns, now, won >> /\ target' = [target EXCEPT ![c] = e] /\ FaultsGoOn
    BY <1>4 DEF StartExperiment, ManagerKeeps, Verify, First, tables
  <2>2. \/ pc' = [pc EXCEPT ![c] = "idle"]
        \/ pc' = [pc EXCEPT ![c] = "check"] /\ rows[e].status = "CREATED"
    BY <1>4 DEF StartExperiment, Verify
  <2>3. rows[e].status = "CREATED" => Exists(e) BY DEF Exists
  <2> QED BY <2>1, <2>2, <2>3, <1>1, <1>2
<1>5. ASSUME NEW e \in Experiments, StopExperiment(c, e) PROVE Looks(c)
  <2>1. UNCHANGED << tables, activeRuns, now, won >> /\ target' = [target EXCEPT ![c] = e] /\ FaultsGoOn
    BY <1>5 DEF StopExperiment, ManagerKeeps, First, tables
  <2>2. \/ pc' = [pc EXCEPT ![c] = "idle"] \/ pc' = [pc EXCEPT ![c] = "orphan"]
        \/ pc' = [pc EXCEPT ![c] = "stopping"] /\ e \in activeRuns
    BY <1>5 DEF StopExperiment
  <2>3. e \in activeRuns => Exists(e) BY DEF ExistInv
  <2> QED BY <2>1, <2>2, <2>3, <1>1, <1>2
<1>6. ASSUME NEW e \in Experiments,
             GetExperiment(c, e) \/ GetExperimentStatus(c, e) \/ GetExperimentReport(c, e)
      PROVE  Looks(c)
  <2>1. UNCHANGED << tables, activeRuns, now, won >> /\ target' = [target EXCEPT ![c] = e] /\ FaultsGoOn
    BY <1>6 DEF GetExperiment, GetExperimentStatus, GetExperimentReport, ReadOnly, Verify, First, tables
  <2>2. \/ pc' = [pc EXCEPT ![c] = "idle"]
        \/ Exists(e) /\ (pc' = [pc EXCEPT ![c] = "observations"] \/ pc' = [pc EXCEPT ![c] = "report"])
    BY <1>6 DEF GetExperiment, GetExperimentStatus, GetExperimentReport, Verify
  <2> QED BY <2>1, <2>2, <1>1, <1>2
<1>7. ASSUME ListExperiments(c) \/ StatusObservations(c) \/ ReportRow(c) PROVE Looks(c)
  <2>1. UNCHANGED << tables, activeRuns, now, won >> /\ target' = [target EXCEPT ![c] = target[c]] /\ FaultsGoOn
    BY <1>7 DEF ListExperiments, StatusObservations, ReportRow, ReadOnly, At, First, tables
  <2>2. pc' = [pc EXCEPT ![c] = "idle"]
    BY <1>7 DEF ListExperiments, StatusObservations, ReportRow
  <2> QED BY <2>1, <2>2, <1>1, <1>2
<1>8. ASSUME StartCheck(c) \/ StopOrphan(c) PROVE Looks(c)
  <2>1. UNCHANGED << tables, activeRuns, now, won >> /\ UNCHANGED target /\ FaultsGoOn
    BY <1>8 DEF StartCheck, StopOrphan, ManagerKeeps, At, tables
  <2>2. \/ pc' = [pc EXCEPT ![c] = "idle"]
        \/ pc' = [pc EXCEPT ![c] = "plan"] /\ rows[target[c]].status = "CREATED"
        \/ pc' = [pc EXCEPT ![c] = "abort"] /\ rows[target[c]].status \in { "RUNNING", "STOPPING" }
    BY <1>8 DEF StartCheck, StopOrphan
  <2>3. pc' # [pc EXCEPT ![c] = "idle"] => Exists(target[c]) BY <2>2 DEF Exists
  <2> QED BY <2>1, <2>2, <2>3, <1>1, <1>2, <1>3
<1> QED BY <1>4, <1>5, <1>6, <1>7, <1>8

LEMMA TransitKinds ==
  ASSUME TypeInv, ExistInv, NEW c \in Clients,
         StartPlan(c) \/ StartGraph(c) \/ StopStopping(c) \/ StopAbort(c)
  PROVE  Transits(c)
<1> DEFINE e == target[c]
<1>1. e \in Experiments BY DEF TypeInv
<1>2. pc[c] \in { "plan", "graph", "stopping", "abort" }
  BY DEF StartPlan, StartGraph, StopStopping, StopAbort, StopTransition, At
<1>3. Exists(e) BY <1>2 DEF ExistInv, Verified, Steps
<1>4. { NoReason, "failure", "stopped" } \subseteq Reasons BY DEF Reasons
<1>5. UNCHANGED target /\ UNCHANGED << observations, reports, activeRuns, now, history >>
  BY DEF StartPlan, StartGraph, StopStopping, StopAbort, StopTransition, At, ManagerKeeps, history
<1>6. \E p \in Steps \ Registered :
        pc' = [pc EXCEPT ![c] = p] /\ (p \in Pending => pc[c] \in Pending)
  <2>1. \E p \in { "idle", "graph", "register" } :
          pc' = [pc EXCEPT ![c] = p] /\ (p # "idle" => pc[c] \in { "plan", "graph" })
    BY DEF StartPlan, StartGraph, StopStopping, StopAbort, StopTransition, At, Goto, Reply, ReplyError
  <2> QED BY <2>1 DEF Steps, Registered, Pending
<1>7. \E s \in { "PLANNED", "STOPPING", "ABORTED" } :
        (UNCHANGED rows \/ Updated(e, s)) /\ FaultsGoOn
  <2>1. CASE StartPlan(c) BY <2>1, <1>1, <1>3, <1>4, TransitionKinds DEF StartPlan
  <2>2. CASE StartGraph(c)
    <3>1. CASE NoFault /\ UNCHANGED rows BY <3>1 DEF NoFault, FaultsGoOn
    <3>2. CASE \/ TransitionOk(e, "ABORTED", "failure")
               \/ \E error \in Errors : TransitionFails(e, "ABORTED", "failure", error)
      BY <3>2, <1>1, <1>3, <1>4, TransitionKinds
    <3> QED BY <2>2, <3>1, <3>2 DEF StartGraph
  <2>3. CASE StopStopping(c) \/ StopAbort(c)
    BY <2>3, <1>1, <1>3, <1>4, TransitionKinds DEF StopStopping, StopAbort, StopTransition
  <2> QED BY <2>1, <2>2, <2>3
<1> QED BY <1>3, <1>5, <1>6, <1>7 DEF Transits

LEMMA HandlerKinds ==
  ASSUME TypeInv, ExistInv, NEW c \in Clients, HandlerStep(c)
  PROVE  \/ Looks(c) \/ Transits(c)
         \/ \E e \in Experiments : CreateExperiment(c, e)
         \/ StartRegister(c) \/ StartRun(c) \/ StartUnregister(c)
BY LookKinds, TransitKinds DEF HandlerStep

\* What a step does to the tables, the clock and the count of failures.
LEMMA TablesMove ==
  ASSUME TypeInv, ExistInv, [Next]_vars
  PROVE  /\ \/ UNCHANGED rows
            \/ \E e \in Experiments :
                 \/ Inserted(e)
                 \/ \E s : Updated(e, s) /\ (s = "COMPLETED" => e \in reports)
         /\ \/ UNCHANGED observations
            \/ \E e \in Experiments, t \in 1 .. now :
                 observations' = [observations EXCEPT ![e] = SaveObservation(@, t)]
         /\ reports \subseteq reports' /\ now' \in { now, now + 1 } /\ FaultsGoOn
<1> DEFINE Goal ==
      /\ \/ UNCHANGED rows
         \/ \E e \in Experiments :
              \/ Inserted(e)
              \/ \E s : Updated(e, s) /\ (s = "COMPLETED" => e \in reports)
      /\ \/ UNCHANGED observations
         \/ \E e \in Experiments, t \in 1 .. now :
              observations' = [observations EXCEPT ![e] = SaveObservation(@, t)]
      /\ reports \subseteq reports' /\ now' \in { now, now + 1 } /\ FaultsGoOn
<1> SUFFICES Goal OBVIOUS
<1>1. ASSUME NEW c \in Clients, HandlerStep(c) PROVE Goal
  <2>1. CASE Looks(c) BY <2>1 DEF Looks, tables
  <2>2. CASE Transits(c)
    <3>1. target[c] \in Experiments BY DEF TypeInv
    <3> QED BY <2>2, <3>1 DEF Transits
  <2>3. ASSUME NEW e \in Experiments, CreateExperiment(c, e) PROVE Goal
    <3>1. UNCHANGED rows \/ Inserted(e) BY <2>3 DEF CreateExperiment, Inserted
    <3>2. FaultsGoOn BY <2>3 DEF CreateExperiment, FailReply, FaultsGoOn, Fault, NoFault
    <3> QED BY <2>3, <3>1, <3>2 DEF CreateExperiment
  <2>4. CASE StartRegister(c) \/ StartUnregister(c)
    BY <2>4 DEF StartRegister, StartUnregister, ManagerKeeps, NoFault, FaultsGoOn
  <2>5. CASE StartRun(c)
    <3>1. target[c] \in Experiments BY DEF TypeInv
    <3>2. Exists(target[c]) BY <2>5 DEF StartRun, At, ExistInv, Verified, Steps
    <3>3. NoReason \in Reasons BY DEF Reasons
    <3>4. (UNCHANGED rows \/ Updated(target[c], "RUNNING")) /\ FaultsGoOn
      BY <2>5, <3>1, <3>2, <3>3, TransitionKinds DEF StartRun
    <3> QED BY <2>5, <3>1, <3>4 DEF StartRun, ManagerKeeps
  <2> QED BY <1>1, <2>1, <2>2, <2>3, <2>4, <2>5, HandlerKinds
<1>2. ASSUME NEW e \in Experiments, RunStep(e) PROVE Goal
  <2>1. ASSUME NEW s \in ExperimentStates, RunMoves(e, s) PROVE Goal
    <3>1. Exists(e) BY <2>1 DEF RunMoves, Underway, ExistInv
    <3>2. { NoReason, "failure" } \subseteq Reasons BY DEF Reasons
    <3>3. Updated(e, s) BY <2>1, <3>1, <3>2 DEF RunMoves, Updated
    <3> QED BY <2>1, <3>3 DEF RunMoves, FaultsGoOn
  <2>2. CASE SaveReport(e) BY <2>2 DEF SaveReport, FaultsGoOn
  <2>3. CASE RunEnds(e)
    BY <2>3 DEF RunEnds, tables, FaultsGoOn, Fault, NoFault
  <2>4. ASSUME NEW t \in 1 .. now, SaveSnapshot(e, t) PROVE Goal
    BY <2>4 DEF SaveSnapshot, FaultsGoOn
  <2> QED BY <1>2, <2>1, <2>2, <2>3, <2>4 DEF RunStep
<1>3. CASE Restart BY <1>3 DEF Restart, tables, FaultsGoOn
<1>4. CASE Tick BY <1>4 DEF Tick, tables, FaultsGoOn
<1>5. CASE UNCHANGED vars BY <1>5 DEF vars, tables, FaultsGoOn
<1> QED BY <1>1, <1>2, <1>3, <1>4, <1>5 DEF Next

LEMMA InsertedRow ==
  /\ Create \in Row /\ Coherent(Create) /\ Create.status = "CREATED"
  /\ Create.startedAt = Never /\ Create.endedAt = Never
  /\ NoRow \in Row /\ Coherent(NoRow) /\ NoRow.status = "none" /\ NoRow.startedAt = Never
  /\ PastOf(NoRow, Create)
<1>1. NoReason \in Reasons BY DEF Reasons
<1>2. /\ NoRow \in Row /\ NoRow.status = "none" /\ NoRow.stopReason = NoReason
      /\ NoRow.startedAt = Never /\ NoRow.endedAt = Never
  BY <1>1 DEF NoRow, Row, Statuses, ExperimentStates, Never
<1>3. /\ Create \in Row /\ Create.status = "CREATED" /\ Create.stopReason = NoReason
      /\ Create.startedAt = Never /\ Create.endedAt = Never
  BY <1>2 DEF Create, Row, Statuses, ExperimentStates
<1>4. PastOf(NoRow, Create) BY <1>2, <1>3 DEF PastOf, Reaches, Stage
<1>5. Coherent(NoRow) /\ Coherent(Create)
  BY <1>2, <1>3 DEF Coherent, IsTerminal, PostTraffic
<1> QED BY <1>2, <1>3, <1>4, <1>5

\* Every row goes on from what it was.
RowGoesOn(e) ==
  /\ rows'[e] \in Row /\ Coherent(rows'[e]) /\ PastOf(rows[e], rows'[e])
  /\ rows'[e].startedAt <= now'
  /\ rows'[e].status = "COMPLETED" => e \in reports'
  /\ Exists(e) => rows'[e].status # "none"
  /\ rows'[e].status = "none" => rows'[e] = NoRow

LEMMA RowsGoOn ==
  ASSUME TypeInv, ExistInv, TablesInv, [Next]_vars
  PROVE  rows' \in [Experiments -> Row] /\ \A e \in Experiments : RowGoesOn(e)
<1>1. /\ now \in Nat \ {0} /\ now' \in Nat /\ now <= now' /\ reports \subseteq reports'
      /\ \A e \in Experiments : rows[e] \in Row
  BY TablesMove DEF TypeInv
<1>2. ASSUME NEW e \in Experiments, rows'[e] = rows[e] PROVE RowGoesOn(e)
  <2>1. PastOf(rows[e], rows'[e]) BY <1>2 DEF PastOf, Reaches
  <2>2. rows'[e].startedAt <= now' BY <1>1, <1>2 DEF TablesInv, Row
  <2> QED BY <1>1, <1>2, <2>1, <2>2 DEF RowGoesOn, TablesInv, Exists
<1>3. ASSUME NEW e \in Experiments, Inserted(e) PROVE RowGoesOn(e)
  <2>1. rows[e] = NoRow /\ rows'[e] = Create
    BY <1>3 DEF Inserted, TablesInv, TypeInv
  <2> QED BY <1>1, <2>1, InsertedRow DEF RowGoesOn, Exists, Never
<1>4. ASSUME NEW e \in Experiments, NEW s, Updated(e, s), s = "COMPLETED" => e \in reports
      PROVE  RowGoesOn(e)
  <2>1. PICK why \in Reasons : rows'[e] = UpdateState(rows[e], s, why, now)
    BY <1>4 DEF Updated, Stored, TypeInv
  <2>2. rows[e] \in Row /\ rows[e].status # "none" /\ CanTransition(rows[e].status, s)
    BY <1>1, <1>4 DEF Updated, Exists
  <2>3. rows[e].status \in ExperimentStates BY <2>2 DEF Row, Statuses
  <2>4. s \in ExperimentStates /\ s \in Statuses /\ s # "none"
    BY <2>2, <2>3, TransitionAhead DEF Statuses, ExperimentStates
  <2>5. rows[e].startedAt <= now /\ Coherent(rows[e]) BY DEF TablesInv
  <2>6. Coherent(rows'[e]) /\ PastOf(rows[e], rows'[e])
    BY <1>1, <2>1, <2>2, <2>5, UpdateKeepsCoherence
  <2>7. /\ rows'[e] \in Row /\ rows'[e].status = s
        /\ rows'[e].startedAt \in { now, rows[e].startedAt }
    BY <1>1, <2>1, <2>2, <2>4, UpdateFields
  <2>8. rows'[e].startedAt <= now' BY <1>1, <2>5, <2>7, <2>2 DEF Row
  <2> QED BY <1>1, <1>4, <2>4, <2>6, <2>7, <2>8 DEF RowGoesOn
<1>5. CASE UNCHANGED rows BY <1>2, <1>5 DEF TypeInv
<1>6. ASSUME NEW e \in Experiments, Inserted(e)
      PROVE  rows' \in [Experiments -> Row] /\ \A x \in Experiments : RowGoesOn(x)
  <2>1. rows' = [rows EXCEPT ![e] = Create] BY <1>6 DEF Inserted
  <2>2. \A x \in Experiments : x # e => rows'[x] = rows[x] BY <2>1 DEF TypeInv
  <2> QED BY <1>2, <1>3, <1>6, <2>1, <2>2, InsertedRow DEF TypeInv
<1>7. ASSUME NEW e \in Experiments, NEW s, Updated(e, s), s = "COMPLETED" => e \in reports
      PROVE  rows' \in [Experiments -> Row] /\ \A x \in Experiments : RowGoesOn(x)
  <2>1. \E new : rows' = [rows EXCEPT ![e] = new] BY <1>7 DEF Updated, Stored
  <2>2. \A x \in Experiments : x # e => rows'[x] = rows[x] BY <2>1 DEF TypeInv
  <2>3. \A x \in Experiments : RowGoesOn(x) BY <1>2, <1>4, <1>7, <2>2
  <2> QED BY <2>1, <2>3 DEF TypeInv, RowGoesOn
<1> QED BY <1>5, <1>6, <1>7, TablesMove

-----------------------------------------------------------------------------
(* The latest observation.                                                 *)

LEMMA LatestIsLast ==
  ASSUME NEW table \in Seq(Nat), NEW b \in Nat, \A i \in 1 .. Len(table) : table[i] <= b
  PROVE  /\ Latest(table) \in Nat
         /\ table = << >> => Latest(table) = Never
         /\ table # << >> => \E i \in 1 .. Len(table) : Latest(table) = table[i]
         /\ \A i \in 1 .. Len(table) : table[i] <= Latest(table)
<1>1. CASE table = << >> BY <1>1 DEF Latest, Never
<1>2. CASE table # << >>
  <2>1. Range(table) = { table[i] : i \in 1 .. Len(table) } BY DEF Range
  <2>2. Len(table) \in Nat /\ Len(table) # 0 /\ \A i \in 1 .. Len(table) : table[i] \in Nat BY <1>2
  <2>3. table[1] \in Range(table) BY <2>1, <2>2
  <2>4. Range(table) \in SUBSET Nat /\ Range(table) # {} BY <2>1, <2>2, <2>3
  <2>5. \A n \in Range(table) : n <= b BY <2>1
  <2>6. Latest(table) \in Range(table) /\ \A n \in Range(table) : n <= Latest(table)
    BY <1>2, <2>4, <2>5, NatMax DEF Latest
  <2> QED BY <1>2, <2>1, <2>2, <2>4, <2>6
<1> QED BY <1>1, <1>2

-----------------------------------------------------------------------------
(* The histories.                                                          *)

\* What a step shows: rows as they are, and the latest observation, unless the
\* query for it fails.
LEMMA HistoryMoves ==
  ASSUME TypeInv, ExistInv, [Next]_vars
  PROVE  /\ \/ UNCHANGED told
            \/ \E c \in Clients, es \in SUBSET Experiments : Show(c, es)
         /\ \/ UNCHANGED shown
            \/ \E c \in Clients, e \in Experiments :
                 \/ shown' = [shown EXCEPT ![c][e] = Latest(observations[e])]
                 \/ shown' = [shown EXCEPT ![c][e] = Never] /\ faults' > faults
         /\ \/ UNCHANGED won
            \/ \E c \in Clients : StartRun(c) /\ TransitionOk(target[c], "RUNNING", NoReason)
                                  /\ won' = [won EXCEPT ![target[c]] = @ + 1]
<1> DEFINE Goal ==
      /\ \/ UNCHANGED told
         \/ \E c \in Clients, es \in SUBSET Experiments : Show(c, es)
      /\ \/ UNCHANGED shown
         \/ \E c \in Clients, e \in Experiments :
              \/ shown' = [shown EXCEPT ![c][e] = Latest(observations[e])]
              \/ shown' = [shown EXCEPT ![c][e] = Never] /\ faults' > faults
      /\ \/ UNCHANGED won
         \/ \E c \in Clients : StartRun(c) /\ TransitionOk(target[c], "RUNNING", NoReason)
                               /\ won' = [won EXCEPT ![target[c]] = @ + 1]
<1> SUFFICES Goal OBVIOUS
<1>1. ASSUME NEW c \in Clients, HandlerStep(c) PROVE Goal
  <2>1. ASSUME NEW e \in Experiments, GetExperiment(c, e) PROVE Goal
    <3>1. {e} \in SUBSET Experiments OBVIOUS
    <3> QED BY <2>1, <3>1 DEF GetExperiment, ReadOnly
  <2>2. CASE ListExperiments(c) BY <2>2 DEF ListExperiments, ReadOnly
  <2>3. CASE StatusObservations(c)
    <3>1. target[c] \in Experiments BY DEF TypeInv
    <3>2. Fault => faults' > faults BY DEF Fault, TypeInv
    <3> QED BY <2>3, <3>1, <3>2 DEF StatusObservations, ReadOnly
  <2>4. CASE StartRun(c) BY <2>4 DEF StartRun, ManagerKeeps
  <2>5. ASSUME NEW e \in Experiments,
               \/ CreateExperiment(c, e) \/ StartExperiment(c, e) \/ StopExperiment(c, e)
               \/ GetExperimentStatus(c, e) \/ GetExperimentReport(c, e)
        PROVE  Goal
    BY <2>5 DEF CreateExperiment, StartExperiment, StopExperiment, GetExperimentStatus,
                GetExperimentReport, ReadOnly, ManagerKeeps, history
  <2>6. CASE \/ ReportRow(c) \/ StartCheck(c) \/ StartPlan(c) \/ StartGraph(c)
             \/ StartRegister(c) \/ StartUnregister(c)
             \/ StopStopping(c) \/ StopOrphan(c) \/ StopAbort(c)
    BY <2>6 DEF ReportRow, StartCheck, StartPlan, StartGraph, StartRegister, StartUnregister,
                StopStopping, StopOrphan, StopAbort, StopTransition, ReadOnly, ManagerKeeps
  <2> QED BY <1>1, <2>1, <2>2, <2>3, <2>4, <2>5, <2>6 DEF HandlerStep
<1>2. ASSUME NEW e \in Experiments, RunStep(e) PROVE Goal
  BY <1>2 DEF RunStep, RunMoves, SaveReport, RunEnds, SaveSnapshot, history
<1>3. CASE Restart \/ Tick BY <1>3 DEF Restart, Tick, history
<1>4. CASE UNCHANGED vars BY <1>4 DEF vars, history
<1> QED BY <1>1, <1>2, <1>3, <1>4 DEF Next

-----------------------------------------------------------------------------
(* The types and the tables are kept.                                      *)

\* Where a step leaves the handlers and the registrations.
LEMMA HandlersMove ==
  ASSUME TypeInv, ExistInv, [Next]_vars
  PROVE  /\ pc' \in [Clients -> Steps] /\ target' \in [Clients -> Experiments]
         /\ activeRuns' \subseteq Experiments
         /\ \A c \in Clients : pc'[c] \in Verified => Exists(target'[c])
         /\ \A e \in activeRuns' : Exists(e)
<1> USE DEF TypeInv, ExistInv
<1> DEFINE Goal ==
      /\ pc' \in [Clients -> Steps] /\ target' \in [Clients -> Experiments]
      /\ activeRuns' \subseteq Experiments
      /\ \A c \in Clients : pc'[c] \in Verified => Exists(target'[c])
      /\ \A e \in activeRuns' : Exists(e)
<1> SUFFICES Goal OBVIOUS
<1>0. "idle" \in Steps \ Verified /\ "run" \in Steps /\ "unregister" \in Steps
  BY DEF Steps, Verified
<1>1. ASSUME NEW c \in Clients, HandlerStep(c) PROVE Goal
  <2>1. CASE Looks(c) BY <2>1 DEF Looks
  <2>2. CASE Transits(c) BY <2>2 DEF Transits
  <2>3. ASSUME NEW e \in Experiments, CreateExperiment(c, e) PROVE Goal
    <3>1. pc' = [pc EXCEPT ![c] = "idle"] /\ target' = [target EXCEPT ![c] = e]
      BY <2>3 DEF CreateExperiment, First, Reply, FailReply, ReplyError
    <3> QED BY <2>3, <3>1, <1>0 DEF CreateExperiment
  <2>4. CASE StartRegister(c) \/ StartRun(c) \/ StartUnregister(c)
    <3>1. pc[c] \in Verified BY <2>4 DEF StartRegister, StartRun, StartUnregister, At, Verified, Steps
    <3>2. /\ \E p \in Steps : pc' = [pc EXCEPT ![c] = p]
          /\ UNCHANGED target
          /\ activeRuns' \in { activeRuns, activeRuns \union {target[c]}, activeRuns \ {target[c]} }
      BY <2>4, <1>0 DEF StartRegister, StartRun, StartUnregister, At, Goto, Reply, ReplyError
    <3> QED BY <3>1, <3>2
  <2> QED BY <1>1, <2>1, <2>2, <2>3, <2>4, HandlerKinds
<1>2. ASSUME NEW e \in Experiments, RunStep(e) PROVE Goal
  <2>1. UNCHANGED handler /\ activeRuns' \in { activeRuns, activeRuns \ {e} }
    BY <1>2 DEF RunStep, RunMoves, SaveReport, RunEnds, SaveSnapshot
  <2> QED BY <2>1 DEF handler
<1>3. CASE Restart BY <1>0, <1>3 DEF Restart
<1>4. CASE Tick BY <1>4 DEF Tick, handler
<1>5. CASE UNCHANGED vars BY <1>5 DEF vars, handler
<1> QED BY <1>1, <1>2, <1>3, <1>4, <1>5 DEF Next

LEMMA ObservationsMove ==
  ASSUME TypeInv, ExistInv, TablesInv, [Next]_vars
  PROVE  /\ observations' \in [Experiments -> Seq(Nat)]
         /\ \A e \in Experiments :
              /\ \A i \in 1 .. Len(observations'[e]) : observations'[e][i] <= now'
              /\ Len(observations[e]) <= Len(observations'[e])
              /\ \A i \in 1 .. Len(observations[e]) : observations'[e][i] = observations[e][i]
<1>1. now \in Nat /\ now' \in Nat /\ now <= now' BY TablesMove DEF TypeInv
<1>2. \A e \in Experiments : observations[e] \in Seq(Nat) BY DEF TypeInv
<1>3. ASSUME NEW e \in Experiments, observations'[e] = observations[e]
      PROVE  /\ \A i \in 1 .. Len(observations'[e]) : observations'[e][i] <= now'
             /\ Len(observations[e]) <= Len(observations'[e])
             /\ \A i \in 1 .. Len(observations[e]) : observations'[e][i] = observations[e][i]
  <2>1. \A i \in 1 .. Len(observations[e]) : observations[e][i] \in Nat /\ observations[e][i] <= now
    BY <1>2 DEF TablesInv
  <2> QED BY <1>1, <1>2, <1>3, <2>1
<1>4. CASE UNCHANGED observations BY <1>3, <1>4 DEF TypeInv
<1>5. ASSUME NEW e \in Experiments, NEW t \in 1 .. now,
             observations' = [observations EXCEPT ![e] = SaveObservation(@, t)]
      PROVE  /\ observations' \in [Experiments -> Seq(Nat)]
             /\ \A x \in Experiments :
                  /\ \A i \in 1 .. Len(observations'[x]) : observations'[x][i] <= now'
                  /\ Len(observations[x]) <= Len(observations'[x])
                  /\ \A i \in 1 .. Len(observations[x]) : observations'[x][i] = observations[x][i]
  <2> DEFINE old == observations[e]
             new == observations'[e]
  <2>1. new = Append(old, t) BY <1>5 DEF SaveObservation, TypeInv
  <2>2. old \in Seq(Nat) /\ t \in Nat /\ t <= now BY <1>1, <1>2
  <2>3. \A i \in 1 .. Len(old) : old[i] \in Nat /\ old[i] <= now BY <1>2 DEF TablesInv
  <2> HIDE DEF old, new
  <2>4. new \in Seq(Nat) /\ Len(new) = Len(old) + 1 /\ Len(old) \in Nat BY <2>1, <2>2
  <2>5. \A i \in 1 .. Len(old) : new[i] = old[i] BY <2>1, <2>2
  <2>6. new[Len(old) + 1] = t BY <2>1, <2>2
  <2>7. \A i \in 1 .. Len(new) : new[i] <= now'
    <3> SUFFICES ASSUME NEW i \in 1 .. Len(new) PROVE new[i] <= now' OBVIOUS
    <3>1. CASE i = Len(old) + 1 BY <1>1, <2>2, <2>6, <3>1
    <3>2. CASE i \in 1 .. Len(old) BY <1>1, <2>3, <2>5, <3>2
    <3> QED BY <2>4, <3>1, <3>2
  <2>8. Len(old) <= Len(new) BY <2>4
  <2>9. observations' \in [Experiments -> Seq(Nat)]
    BY <1>5, <2>1, <2>4 DEF TypeInv, SaveObservation, old, new
  <2>10. \A x \in Experiments : x # e => observations'[x] = observations[x]
    BY <1>5 DEF TypeInv
  <2> QED BY <1>3, <2>5, <2>7, <2>8, <2>9, <2>10 DEF old, new
<1> QED BY <1>4, <1>5, TablesMove

LEMMA HistoryTypes ==
  ASSUME TypeInv, ExistInv, TablesInv, [Next]_vars
  PROVE  /\ told' \in [Clients -> [Experiments -> Row]]
         /\ shown' \in [Clients -> [Experiments -> Nat]]
         /\ won' \in [Experiments -> Nat]
<1> USE DEF TypeInv
<1>1. told' \in [Clients -> [Experiments -> Row]]
  <2>1. ASSUME NEW c \in Clients, NEW es \in SUBSET Experiments, Show(c, es)
        PROVE  told' \in [Clients -> [Experiments -> Row]]
    <3>1. [e \in Experiments |-> IF e \in es THEN rows[e] ELSE told[c][e]] \in [Experiments -> Row]
      OBVIOUS
    <3> QED BY <2>1, <3>1 DEF Show
  <2> QED BY <2>1, HistoryMoves
<1>2. \A e \in Experiments : Latest(observations[e]) \in Nat
  BY LatestIsLast DEF TablesInv
<1>3. shown' \in [Clients -> [Experiments -> Nat]]
  <2>1. ASSUME NEW c \in Clients, NEW e \in Experiments, NEW n \in Nat,
               shown' = [shown EXCEPT ![c][e] = n]
        PROVE  shown' \in [Clients -> [Experiments -> Nat]]
    BY <2>1
  <2> QED BY <1>2, <2>1, HistoryMoves DEF Never
<1>4. won' \in [Experiments -> Nat]
  <2>1. \/ UNCHANGED won
        \/ \E c \in Clients : won' = [won EXCEPT ![target[c]] = @ + 1]
    BY HistoryMoves
  <2>2. ASSUME NEW e \in Experiments, won' = [won EXCEPT ![e] = @ + 1]
        PROVE  won' \in [Experiments -> Nat]
    <3>1. won \in [Experiments -> Nat] /\ won[e] + 1 \in Nat OBVIOUS
    <3> HIDE DEF TypeInv
    <3> QED BY <2>2, <3>1
  <2>3. \A c \in Clients : target[c] \in Experiments OBVIOUS
  <2> QED BY <2>1, <2>2, <2>3
<1> QED BY <1>1, <1>3, <1>4

BaseInv == TypeInv /\ ExistInv /\ TablesInv

LEMMA BaseInit == Init => BaseInv
<1> SUFFICES ASSUME Init PROVE BaseInv OBVIOUS
<1>1. rows = [e \in Experiments |-> NoRow] BY DEF Init
<1>2. TypeInv
  <2>1. "idle" \in Steps BY DEF Steps
  <2>2. << >> \in Seq(Nat) OBVIOUS
  <2>3. rows \in [Experiments -> Row] /\ observations \in [Experiments -> Seq(Nat)]
    BY <2>2, InsertedRow DEF Init
  <2>4. /\ told \in [Clients -> [Experiments -> Row]]
        /\ shown \in [Clients -> [Experiments -> Nat]] /\ won \in [Experiments -> Nat]
    BY InsertedRow DEF Init, Never
  <2>5. pc \in [Clients -> Steps] /\ target \in [Clients -> Experiments] BY <2>1 DEF Init
  <2> QED BY <2>3, <2>4, <2>5 DEF TypeInv, Init
<1>3. ExistInv BY DEF Init, ExistInv, Verified
<1>4. ASSUME NEW e \in Experiments
      PROVE  /\ rows[e] = NoRow /\ NoRow.startedAt <= now /\ NoRow.status # "COMPLETED"
             /\ \A i \in 1 .. Len(observations[e]) : FALSE
  BY <1>1, InsertedRow DEF Init, Never
<1> QED BY <1>2, <1>3, <1>4, InsertedRow DEF BaseInv, TablesInv, Exists

LEMMA BaseStep == BaseInv /\ [Next]_vars => BaseInv'
<1> SUFFICES ASSUME TypeInv, ExistInv, TablesInv, [Next]_vars PROVE BaseInv' BY DEF BaseInv
<1>1. rows' \in [Experiments -> Row] /\ \A e \in Experiments : RowGoesOn(e) BY RowsGoOn
<1>2. now' \in Nat \ {0} /\ faults' \in Nat BY TablesMove DEF TypeInv, FaultsGoOn
<1>3. TypeInv' BY <1>1, <1>2, HandlersMove, ObservationsMove, HistoryTypes DEF TypeInv
<1>4. \A e \in Experiments : Exists(e) => Exists(e)' BY <1>1 DEF RowGoesOn, Exists
<1>5. ExistInv' BY <1>3, <1>4, HandlersMove DEF ExistInv, TypeInv
<1>6. TablesInv' BY <1>1, ObservationsMove DEF TablesInv, RowGoesOn, Exists
<1> QED BY <1>3, <1>5, <1>6 DEF BaseInv

LEMMA Base == Spec => []BaseInv
BY BaseInit, BaseStep, PTL DEF Spec

-----------------------------------------------------------------------------
(* What a client was told is a past of the table.                          *)

\* A told row is an old told row or the row of the table.
LEMMA ToldIsSeen ==
  ASSUME BaseInv, [Next]_vars
  PROVE  \A c \in Clients, e \in Experiments :
           told'[c][e] = told[c][e] \/ told'[c][e] = rows[e]
<1> USE DEF BaseInv, TypeInv
<1>1. ASSUME NEW d \in Clients, NEW es \in SUBSET Experiments, Show(d, es)
      PROVE  \A c \in Clients, e \in Experiments :
               told'[c][e] = told[c][e] \/ told'[c][e] = rows[e]
  BY <1>1 DEF Show
<1>2. UNCHANGED told \/ \E d \in Clients, es \in SUBSET Experiments : Show(d, es)
  BY HistoryMoves
<1> QED BY <1>1, <1>2

LEMMA PastInit == Init => PastInv
BY InsertedRow DEF Init, PastInv, PastOf, Reaches

LEMMA PastStep == BaseInv /\ PastInv /\ [Next]_vars => PastInv'
<1> SUFFICES ASSUME BaseInv, PastInv, [Next]_vars,
                    NEW c \in Clients, NEW e \in Experiments
             PROVE  Coherent(told'[c][e]) /\ PastOf(told'[c][e], rows'[e])
  BY DEF PastInv
<1>1. RowGoesOn(e) BY RowsGoOn DEF BaseInv
<1>2. told[c][e] \in Row /\ rows[e] \in Row /\ rows'[e] \in Row /\ PastOf(rows[e], rows'[e])
  BY <1>1 DEF BaseInv, TypeInv, RowGoesOn
<1>3. CASE told'[c][e] = told[c][e]
  BY <1>2, <1>3, PastIsTransitive DEF PastInv
<1>4. CASE told'[c][e] = rows[e]
  BY <1>2, <1>4 DEF BaseInv, TablesInv
<1> QED BY <1>3, <1>4, ToldIsSeen

\* Only a look at the table of reports answers a request for one with 404.
LEMMA ReportIsMissing ==
  ASSUME BaseInv, [Next]_vars, NEW c \in Clients,
         pc[c] = "report", pc'[c] = "idle", answer' = 404
  PROVE  target[c] \notin reports
<1> USE DEF BaseInv, TypeInv
<1>1. ASSUME NEW d \in Clients, HandlerStep(d) PROVE target[c] \notin reports
  <2>1. \E p : pc' = [pc EXCEPT ![d] = p]
    <3>1. ASSUME NEW e \in Experiments, CreateExperiment(d, e)
          PROVE  \E p : pc' = [pc EXCEPT ![d] = p]
      BY <3>1 DEF CreateExperiment, Reply, FailReply, ReplyError
    <3>2. ASSUME StartRegister(d) \/ StartRun(d) \/ StartUnregister(d)
          PROVE  \E p : pc' = [pc EXCEPT ![d] = p]
      BY <3>2 DEF StartRegister, StartRun, StartUnregister, Goto, Reply, ReplyError
    <3> QED BY <1>1, <3>1, <3>2, HandlerKinds DEF Looks, Transits
  <2>2. d = c BY <2>1
  <2>3. ReportRow(c)
    BY <1>1, <2>2 DEF HandlerStep, CreateExperiment, StartExperiment, StopExperiment,
       GetExperiment, GetExperimentStatus, GetExperimentReport, Verify, First,
       ListExperiments, StatusObservations, StartCheck, StartPlan, StartGraph,
       StartRegister, StartRun, StartUnregister, StopStopping, StopOrphan, StopAbort,
       StopTransition, At
  <2>4. ~FailReply(c)
    <3>1. handleServiceError("failed") = 500 BY DEF handleServiceError
    <3>2. handleServiceError("invalid") = 400 BY DEF handleServiceError
    <3> QED BY <3>1, <3>2 DEF FailReply, ReplyError, Reply, Failures
  <2> QED BY <2>3, <2>4 DEF ReportRow, Reply
<1>2. ASSUME NEW e \in Experiments, RunStep(e) PROVE FALSE
  BY <1>2 DEF RunStep, RunMoves, SaveReport, RunEnds, SaveSnapshot, handler
<1>3. CASE Restart \/ Tick BY <1>3 DEF Restart, Tick, handler
<1>4. CASE UNCHANGED vars BY <1>4 DEF vars, handler
<1> QED BY <1>1, <1>2, <1>3, <1>4 DEF Next

\* No two answers that a client gets about an experiment contradict each other,
\* with any number of clients asking, creating, starting and stopping at once
\* (GetExperiment, ListExperiments and GetExperimentReport of the handler, over
\* transitionState and finishExperiment of the manager).
THEOREM AnswersAreConsistent == Spec => AnswersNeverContradict
<1> DEFINE Agree ==
      \A c \in Clients :
        /\ \A e \in Experiments : Coherent(told'[c][e]) /\ PastOf(told[c][e], told'[c][e])
        /\ pc[c] = "report" /\ pc'[c] = "idle" /\ answer' = 404
             => told[c][target[c]].status # "COMPLETED"
<1>1. BaseInv /\ PastInv /\ PastInv' /\ [Next]_vars => Agree
  <2> SUFFICES ASSUME BaseInv, PastInv, PastInv', [Next]_vars, NEW c \in Clients
               PROVE  /\ \A e \in Experiments :
                           Coherent(told'[c][e]) /\ PastOf(told[c][e], told'[c][e])
                      /\ pc[c] = "report" /\ pc'[c] = "idle" /\ answer' = 404
                           => told[c][target[c]].status # "COMPLETED"
    OBVIOUS
  <2>1. ASSUME NEW e \in Experiments
        PROVE  Coherent(told'[c][e]) /\ PastOf(told[c][e], told'[c][e])
    <3>1. Coherent(told'[c][e]) BY DEF PastInv
    <3>2. PastOf(told[c][e], told[c][e]) BY DEF PastOf, Reaches
    <3>3. PastOf(told[c][e], rows[e]) BY DEF PastInv
    <3> QED BY <3>1, <3>2, <3>3, ToldIsSeen
  <2>2. ASSUME pc[c] = "report", pc'[c] = "idle", answer' = 404,
               told[c][target[c]].status = "COMPLETED"
        PROVE  FALSE
    <3> DEFINE e == target[c]
    <3>1. e \in Experiments /\ rows[e] \in Row BY DEF BaseInv, TypeInv
    <3>2. rows[e].status # "COMPLETED"
      BY <2>2, <3>1, ReportIsMissing DEF BaseInv, TablesInv
    <3>3. Reaches("COMPLETED", rows[e].status) BY <2>2, <3>1 DEF PastInv, PastOf
    <3> HIDE DEF e
    <3>4. rows[e].status \in Statuses BY <3>1 DEF Row
    <3> QED BY <3>2, <3>3, <3>4 DEF Reaches, Statuses, ExperimentStates, IsTerminal, Stage
  <2> QED BY <2>1, <2>2
<1> HIDE DEF Agree
<1>2. Spec => [](BaseInv /\ PastInv)
  BY BaseInit, BaseStep, PastInit, PastStep, PTL DEF Spec
<1>3. Spec => [][Agree]_vars BY <1>1, <1>2, PTL DEF Spec
<1> QED BY <1>3 DEF Agree, AnswersNeverContradict

-----------------------------------------------------------------------------
(* At most one start request of an experiment is answered with RUNNING.    *)

StartInv == HoldInv /\ WinInv

\* What the rules of start requests are about, but for the rows.
startVars == << activeRuns, pc, target, won >>

\* A step that only moves rows on, and RUNNING only out of PLANNED, keeps the rules.
StartsStay ==
  /\ UNCHANGED << activeRuns, won >>
  /\ \A e \in Experiments : rows'[e].status = "RUNNING" => rows[e].status = "RUNNING"

LEMMA WonStays ==
  ASSUME BaseInv, [Next]_vars, NEW e \in Experiments,
         rows[e].status \notin { "none", "CREATED", "PLANNED" }
  PROVE  rows'[e].status \notin { "none", "CREATED", "PLANNED" }
<1>1. PastOf(rows[e], rows'[e]) /\ rows'[e] \in Row /\ rows[e] \in Row
  BY RowsGoOn DEF RowGoesOn, BaseInv, TypeInv
<1> QED BY <1>1 DEF PastOf, Reaches, Row, Statuses, ExperimentStates, IsTerminal, Stage

LEMMA HoldStep ==
  ASSUME BaseInv, HoldInv, [Next]_vars
  PROVE  HoldInv'
<1> USE DEF BaseInv, TypeInv, HoldInv
<1>0. "idle" \notin Registered /\ "register" \notin Registered BY DEF Registered
<1>1. ASSUME NEW c \in Clients, NEW p, p \notin Registered, UNCHANGED activeRuns,
             pc' = [pc EXCEPT ![c] = p],
             \A d \in Clients : d # c => target'[d] = target[d]
      PROVE  HoldInv'
  <2>1. \A d \in Clients : pc'[d] \in Registered =>
          d # c /\ pc[d] \in Registered /\ target'[d] = target[d]
    BY <1>1
  <2> QED BY <1>1, <2>1
<1>2. ASSUME NEW c \in Clients, HandlerStep(c) PROVE HoldInv'
  <2>1. CASE Looks(c) BY <2>1, <1>1 DEF Looks
  <2>2. CASE Transits(c) BY <2>2, <1>1 DEF Transits
  <2>3. ASSUME NEW e \in Experiments, CreateExperiment(c, e) PROVE HoldInv'
    <3>1. pc' = [pc EXCEPT ![c] = "idle"] /\ target' = [target EXCEPT ![c] = e] /\ UNCHANGED activeRuns
      BY <2>3 DEF CreateExperiment, First, Reply, FailReply, ReplyError
    <3> QED BY <3>1, <1>0, <1>1
  <2>4. CASE StartRegister(c)
    <3>1. CASE target[c] \in activeRuns
      BY <2>4, <3>1, <1>0, <1>1 DEF StartRegister, At, ReplyError, Reply
    <3>2. CASE target[c] \notin activeRuns
      <4>1. /\ pc' = [pc EXCEPT ![c] = "run"] /\ UNCHANGED target
            /\ activeRuns' = activeRuns \union {target[c]}
        BY <2>4, <3>2 DEF StartRegister, At, Goto
      <4>2. \A d \in Clients : d # c /\ pc'[d] \in Registered =>
              pc[d] \in Registered /\ target'[d] # target[c] /\ target'[d] = target[d]
        BY <3>2, <4>1
      <4> QED BY <4>1, <4>2
    <3> QED BY <3>1, <3>2
  <2>5. CASE StartRun(c)
    <3>1. pc[c] \in Registered /\ UNCHANGED << target, activeRuns >>
      BY <2>5 DEF StartRun, At, Registered
    <3>2. \E p : pc' = [pc EXCEPT ![c] = p]
      BY <2>5 DEF StartRun, Goto, Reply
    <3>3. \A d \in Clients : pc'[d] \in Registered => pc[d] \in Registered BY <3>1, <3>2
    <3> QED BY <3>1, <3>3
  <2>6. CASE StartUnregister(c)
    <3>1. pc[c] \in Registered /\ UNCHANGED target /\ activeRuns' = activeRuns \ {target[c]}
      BY <2>6 DEF StartUnregister, At, Registered
    <3>2. pc' = [pc EXCEPT ![c] = "idle"] BY <2>6 DEF StartUnregister, ReplyError, Reply
    <3>3. \A d \in Clients : pc'[d] \in Registered =>
            d # c /\ pc[d] \in Registered /\ target[d] # target[c]
      BY <3>1, <3>2, <1>0
    <3> QED BY <3>1, <3>3
  <2> QED BY <1>2, <2>1, <2>2, <2>3, <2>4, <2>5, <2>6, HandlerKinds
<1>3. ASSUME NEW e \in Experiments, RunStep(e) PROVE HoldInv'
  <2>1. CASE UNCHANGED << handler, activeRuns >> BY <2>1 DEF handler
  <2>2. CASE RunEnds(e)
    <3>1. /\ UNCHANGED << pc, target >> /\ activeRuns' = activeRuns \ {e}
          /\ \A c \in Clients : pc[c] \in Registered => target[c] # e
      BY <2>2 DEF RunEnds, Underway, InFlight, handler, Registered
    <3> QED BY <3>1
  <2> QED BY <1>3, <2>1, <2>2 DEF RunStep, RunMoves, SaveReport, SaveSnapshot
<1>4. CASE Restart BY <1>4, <1>0 DEF Restart
<1>5. CASE Tick \/ UNCHANGED vars BY <1>5 DEF Tick, vars, handler
<1> QED BY <1>2, <1>3, <1>4, <1>5 DEF Next

\* Where the row of an experiment is RUNNING after a step and no statement ever
\* failed, it was before, or a request that holds the registration made it so.
LEMMA RunningComes ==
  ASSUME BaseInv, [Next]_vars, NEW e \in Experiments,
         rows'[e].status = "RUNNING", rows[e].status # "RUNNING", faults' = 0
  PROVE  \E c \in Clients :
           /\ target[c] = e /\ StartRun(c) /\ pc' = [pc EXCEPT ![c] = "idle"]
           /\ UNCHANGED target
<1> USE DEF BaseInv, TypeInv
<1>1. PICK new : Updated(e, new) /\ rows'[e].status = new
  <2>1. ASSUME NEW x \in Experiments, Inserted(x) PROVE rows'[e].status # "RUNNING"
    BY <2>1, InsertedRow DEF Inserted
  <2>2. ASSUME NEW x \in Experiments, NEW t, Updated(x, t)
        PROVE  x = e /\ rows'[e].status = t
    <3>1. x = e BY <2>2 DEF Updated, Stored
    <3>2. rows'[e].status = t BY <2>2, <3>1 DEF Updated, Stored, UpdateState, Row
    <3> QED BY <3>1, <3>2
  <2>3. ~ UNCHANGED rows OBVIOUS
  <2> QED BY <2>1, <2>2, <2>3, TablesMove
<1>2. rows[e].status \in ExperimentStates
  BY <1>1 DEF Updated, Exists, Row, Statuses
<1>3. rows[e].status = "PLANNED" BY <1>1, <1>2, TransitionAhead DEF Updated
<1>4. ASSUME NEW c \in Clients, HandlerStep(c)
      PROVE  /\ target[c] = e /\ StartRun(c) /\ pc' = [pc EXCEPT ![c] = "idle"]
             /\ UNCHANGED target
  <2>1. ~Looks(c) BY DEF Looks, tables
  <2>2. ~Transits(c)
    <3>1. ASSUME NEW s \in { "PLANNED", "STOPPING", "ABORTED" }, Updated(target[c], s) PROVE FALSE
      BY <3>1 DEF Updated, Stored, UpdateState, Row
    <3> QED BY <3>1 DEF Transits
  <2>3. \A x \in Experiments : ~CreateExperiment(c, x)
    BY InsertedRow DEF CreateExperiment
  <2>4. StartRun(c)
    BY <1>4, <2>1, <2>2, <2>3, HandlerKinds DEF StartRegister, StartUnregister
  <2>5. \A error : ~TransitionFails(target[c], "RUNNING", NoReason, error)
    <3>1. ~Fault BY DEF Fault
    <3>2. ~UNCHANGED rows OBVIOUS
    <3> QED BY <3>1, <3>2 DEF TransitionFails
  <2>6. /\ TransitionOk(target[c], "RUNNING", NoReason) /\ pc' = [pc EXCEPT ![c] = "idle"]
        /\ UNCHANGED target
    BY <2>4, <2>5 DEF StartRun, Reply, At
  <2>7. target[c] = e BY <2>6 DEF TransitionOk, Stored
  <2> QED BY <2>4, <2>6, <2>7
<1>5. ASSUME NEW x \in Experiments, RunStep(x) PROVE FALSE
  <2>1. ASSUME NEW s \in ExperimentStates, RunMoves(x, s) PROVE FALSE
    BY <1>3, <2>1 DEF RunMoves, Stored
  <2> QED BY <1>5, <2>1 DEF RunStep, SaveReport, SaveSnapshot, RunEnds, tables
<1>6. ~Restart /\ ~Tick /\ ~UNCHANGED vars
  BY DEF Restart, Tick, vars, tables
<1> QED BY <1>4, <1>5, <1>6 DEF Next

LEMMA WinStep ==
  ASSUME BaseInv, HoldInv, WinInv, [Next]_vars
  PROVE  WinInv'
<1> USE DEF BaseInv, TypeInv
<1>1. faults \in Nat /\ faults' \in { faults, faults + 1 } /\ (faults' = 0 => faults = 0)
  BY TablesMove DEF FaultsGoOn
<1>2. ASSUME NEW e \in Experiments, NEW c \in Clients,
             faults' = 0, rows'[e].status = "RUNNING", pc'[c] \in Pending, target'[c] = e
      PROVE  Underway(e)'
  <2>1. CASE rows[e].status # "RUNNING"
    <3>1. PICK d \in Clients : /\ target[d] = e /\ StartRun(d) /\ UNCHANGED target
                               /\ pc' = [pc EXCEPT ![d] = "idle"]
      BY <1>2, <2>1, RunningComes
    <3>2. pc[d] \in Registered /\ UNCHANGED activeRuns
      BY <3>1 DEF StartRun, At, Registered
    <3>3. e \in activeRuns' BY <3>1, <3>2 DEF HoldInv
    <3>4. \A b \in Clients : pc'[b] \in Registered /\ target'[b] = e => FALSE
      BY <3>1, <3>2 DEF HoldInv, Registered
    <3> QED BY <3>3, <3>4 DEF Underway, InFlight, Registered
  <2>2. CASE rows[e].status = "RUNNING"
    <3>1. faults = 0 BY <1>1, <1>2
    <3>2. \A d \in Clients : pc[d] \in Pending /\ target[d] = e =>
            e \in activeRuns /\ \A b \in Clients : pc[b] \in Registered => target[b] # e
      BY <2>2, <3>1 DEF WinInv, Underway, InFlight, Registered
    <3>3. "idle" \notin Pending /\ "unregister" \notin Pending /\ "run" \in Pending
          /\ "register" \in Pending
      BY DEF Pending
    <3>4. ASSUME NEW d \in Clients, HandlerStep(d) PROVE Underway(e)'
      <4>1. ASSUME UNCHANGED activeRuns, NEW p, p \notin Registered,
                   pc' = [pc EXCEPT ![d] = p],
                   \A b \in Clients : b # d => target'[b] = target[b],
                   p \in Pending /\ target'[d] = e => pc[d] \in Pending /\ target[d] = e
            PROVE  Underway(e)'
        <5>1. \E b \in Clients : pc[b] \in Pending /\ target[b] = e
          BY <1>2, <4>1
        <5>2. \A b \in Clients : pc'[b] \in Registered => target'[b] # e
          BY <3>2, <4>1, <5>1
        <5> QED BY <3>2, <4>1, <5>1, <5>2 DEF Underway, InFlight, Registered
      <4>2. CASE Looks(d)
        BY <2>2, <4>1, <4>2 DEF Looks
      <4>3. CASE Transits(d) BY <4>1, <4>3 DEF Transits
      <4>4. ASSUME NEW x \in Experiments, CreateExperiment(d, x) PROVE Underway(e)'
        <5>1. /\ pc' = [pc EXCEPT ![d] = "idle"] /\ target' = [target EXCEPT ![d] = x]
              /\ UNCHANGED activeRuns
          BY <4>4 DEF CreateExperiment, First, Reply, FailReply, ReplyError
        <5>2. "idle" \notin Registered BY DEF Registered
        <5> QED BY <5>1, <5>2, <3>3, <4>1
      <4>5. CASE StartRegister(d)
        <5>1. CASE target[d] \in activeRuns
          <6>1. /\ pc' = [pc EXCEPT ![d] = "idle"] /\ UNCHANGED << target, activeRuns >>
                /\ "idle" \notin Registered
            BY <4>5, <5>1 DEF StartRegister, At, ReplyError, Reply, Registered
          <6> QED BY <6>1, <3>3, <4>1
        <5>2. CASE target[d] \notin activeRuns
          <6>1. /\ pc' = [pc EXCEPT ![d] = "run"] /\ UNCHANGED target /\ pc[d] = "register"
                /\ activeRuns' = activeRuns \union {target[d]}
            BY <4>5, <5>2 DEF StartRegister, At, Goto
          <6>2. \E b \in Clients : pc[b] \in Pending /\ target[b] = e
            BY <1>2, <3>3, <6>1
          <6>3. target[d] # e BY <3>2, <5>2, <6>2
          <6>4. \A b \in Clients : pc'[b] \in Registered => target'[b] # e
            BY <3>2, <6>1, <6>2, <6>3
          <6> QED BY <3>2, <6>1, <6>2, <6>4 DEF Underway, InFlight, Registered
        <5> QED BY <5>1, <5>2
      <4>6. CASE StartRun(d) \/ StartUnregister(d)
        <5>1. /\ pc[d] \in Registered /\ UNCHANGED target
              /\ activeRuns' \in { activeRuns, activeRuns \ {target[d]} }
          BY <4>6 DEF StartRun, StartUnregister, At, Registered
        <5>2. \E p \in { "idle", "unregister" } : pc' = [pc EXCEPT ![d] = p]
          BY <4>6 DEF StartRun, StartUnregister, Goto, Reply, ReplyError
        <5>3. \E b \in Clients : pc[b] \in Pending /\ target[b] = e
          BY <1>2, <3>3, <5>1, <5>2
        <5>4. target[d] # e BY <3>2, <5>1, <5>3
        <5>5. \A b \in Clients : pc'[b] \in Registered => target'[b] # e
          BY <3>2, <5>1, <5>2, <5>3, <5>4
        <5> QED BY <3>2, <5>1, <5>3, <5>4, <5>5 DEF Underway, InFlight, Registered
      <4> QED BY <3>4, <4>2, <4>3, <4>4, <4>5, <4>6, HandlerKinds
    <3>5. ASSUME NEW x \in Experiments, RunStep(x) PROVE Underway(e)'
      <4>1. UNCHANGED << pc, target >>
        BY <3>5 DEF RunStep, RunMoves, SaveReport, RunEnds, SaveSnapshot, handler
      <4>2. pc[c] \in Pending /\ target[c] = e BY <1>2, <4>1
      <4>3. ASSUME RunEnds(x) PROVE x # e
        <5>1. ~Fault BY <1>2 DEF Fault
        <5> QED BY <2>2, <4>3, <5>1 DEF RunEnds, IsTerminal
      <4>4. e \in activeRuns'
        BY <3>2, <3>5, <4>2, <4>3 DEF RunStep, RunMoves, SaveReport, RunEnds, SaveSnapshot
      <4> QED BY <3>2, <4>1, <4>2, <4>4 DEF Underway, InFlight, Registered
    <3>6. CASE Restart BY <1>2, <3>3, <3>6 DEF Restart
    <3>7. CASE Tick \/ UNCHANGED vars
      <4>1. UNCHANGED << pc, target, activeRuns >> BY <3>7 DEF Tick, vars, handler
      <4> QED BY <1>2, <3>2, <4>1 DEF Underway, InFlight, Registered
    <3> QED BY <3>4, <3>5, <3>6, <3>7 DEF Next
  <2> QED BY <2>1, <2>2
<1>3. ASSUME NEW e \in Experiments
      PROVE  /\ won'[e] > 0 => rows'[e].status \notin { "none", "CREATED", "PLANNED" }
             /\ faults' = 0 => won'[e] <= 1
  <2>1. won[e] \in Nat OBVIOUS
  <2>2. CASE won'[e] = won[e] BY <1>1, <2>1, <2>2, WonStays DEF WinInv
  <2>3. CASE won'[e] # won[e]
    <3>1. PICK c \in Clients : /\ StartRun(c) /\ TransitionOk(target[c], "RUNNING", NoReason)
                               /\ won' = [won EXCEPT ![target[c]] = @ + 1]
      BY <2>3, HistoryMoves
    <3>2. target[c] = e /\ won'[e] = won[e] + 1 /\ rows[e] \in Row BY <2>3, <3>1
    <3>3. pc[c] = "run" BY <3>1 DEF StartRun, At
    <3>4. rows[e].status \in ExperimentStates
      BY <3>2, <3>3 DEF ExistInv, Exists, Verified, Steps, Row, Statuses
    <3>5. \/ rows[e].status = "RUNNING" /\ UNCHANGED rows
          \/ rows[e].status = "PLANNED" /\ rows'[e].status = "RUNNING"
      <4>1. CASE UNCHANGED rows /\ rows[e].status = "RUNNING" BY <4>1
      <4>2. CASE CanTransition(rows[e].status, "RUNNING") /\ Stored(e, "RUNNING", NoReason)
        <5>1. rows[e].status = "PLANNED" BY <3>4, <4>2, TransitionAhead
        <5>2. rows'[e].status = "RUNNING"
          BY <3>2, <4>2 DEF Stored, UpdateState, Row
        <5> QED BY <5>1, <5>2
      <4> QED BY <3>1, <3>2, <4>1, <4>2 DEF TransitionOk
    <3>6. rows'[e].status = "RUNNING" BY <3>5
    <3>7. faults' = 0 => won[e] = 0
      <4>1. faults = 0 => ~(rows[e].status = "RUNNING")
        BY <3>2, <3>3 DEF WinInv, Pending, Underway, InFlight
      <4> QED BY <1>1, <2>1, <3>5, <4>1 DEF WinInv
    <3> QED BY <3>2, <3>6, <3>7
  <2> QED BY <2>2, <2>3
<1> QED BY <1>2, <1>3 DEF WinInv

LEMMA StartInit == Init => StartInv
BY DEF Init, StartInv, HoldInv, WinInv, Registered, Pending

\* However many requests to start an experiment pass the look at its row at once,
\* one is answered with RUNNING, unless a statement failed (StartExperiment of the
\* handler and of the manager, with transitionState and the map of active runs).
THEOREM OneStartWins == Spec => []StartWinsOnce
<1>1. BaseInv /\ StartInv /\ [Next]_vars => StartInv'
  BY HoldStep, WinStep DEF StartInv
<1>2. BaseInv /\ StartInv => StartWinsOnce
  BY DEF BaseInv, TypeInv, StartInv, WinInv, StartWinsOnce
<1> QED BY Base, StartInit, <1>1, <1>2, PTL DEF Spec

-----------------------------------------------------------------------------
(* The status of an experiment never goes back.                            *)

LEMMA ShownStep ==
  ASSUME BaseInv, ShownInv, [Next]_vars, NEW c \in Clients, NEW e \in Experiments
  PROVE  /\ shown'[c][e] # Never =>
              \E i \in 1 .. Len(observations'[e]) : shown'[c][e] <= observations'[e][i]
         /\ shown'[c][e] >= shown[c][e] \/ faults' > faults
<1> DEFINE old == observations[e]
           new == observations'[e]
<1>1. /\ old \in Seq(Nat) /\ now \in Nat /\ \A i \in 1 .. Len(old) : old[i] <= now
      /\ shown[c][e] \in Nat
  BY DEF BaseInv, TypeInv, TablesInv
<1>2. /\ new \in Seq(Nat) /\ Len(old) <= Len(new) /\ \A i \in 1 .. Len(old) : new[i] = old[i]
  BY ObservationsMove DEF BaseInv
<1>3. /\ Latest(old) \in Nat
      /\ old = << >> => Latest(old) = Never
      /\ old # << >> => \E i \in 1 .. Len(old) : Latest(old) = old[i]
      /\ \A i \in 1 .. Len(old) : old[i] <= Latest(old)
  BY <1>1, LatestIsLast
<1>4. shown[c][e] # Never => \E i \in 1 .. Len(old) : shown[c][e] <= old[i]
  BY DEF ShownInv
<1>5. \/ shown'[c][e] = shown[c][e]
      \/ shown'[c][e] = Latest(old)
      \/ shown'[c][e] = Never /\ faults' > faults
  <2>1. shown \in [Clients -> [Experiments -> Nat]] BY DEF BaseInv, TypeInv
  <2>2. ASSUME NEW d \in Clients, NEW x \in Experiments, NEW n,
               shown' = [shown EXCEPT ![d][x] = n]
        PROVE  shown'[c][e] = shown[c][e] \/ (d = c /\ x = e /\ shown'[c][e] = n)
    BY <2>1, <2>2
  <2>3. \/ UNCHANGED shown
        \/ \E d \in Clients, x \in Experiments :
             \/ shown' = [shown EXCEPT ![d][x] = Latest(observations[x])]
             \/ shown' = [shown EXCEPT ![d][x] = Never] /\ faults' > faults
    BY HistoryMoves DEF BaseInv
  <2> QED BY <2>2, <2>3
<1> HIDE DEF old, new
<1>6. Len(old) \in Nat /\ Len(new) \in Nat /\ \A i \in 1 .. Len(old) : old[i] \in Nat
  BY <1>1, <1>2
<1>7. \A n : (n # Never => \E i \in 1 .. Len(old) : n <= old[i])
             => (n # Never => \E i \in 1 .. Len(new) : n <= new[i])
  BY <1>2, <1>6
<1>8. CASE shown'[c][e] = shown[c][e]
  BY <1>1, <1>4, <1>7, <1>8 DEF old, new
<1>9. CASE shown'[c][e] = Latest(old)
  <2>1. Latest(old) # Never => \E i \in 1 .. Len(old) : Latest(old) <= old[i]
    BY <1>3, <1>6
  <2>2. shown[c][e] <= Latest(old)
    <3>1. CASE shown[c][e] = Never BY <1>3, <3>1 DEF Never
    <3>2. CASE shown[c][e] # Never
      <4>1. PICK i \in 1 .. Len(old) : shown[c][e] <= old[i] BY <1>4, <3>2
      <4> QED BY <1>1, <1>3, <1>6, <4>1
    <3> QED BY <3>1, <3>2
  <2>3. Latest(old) # Never => \E i \in 1 .. Len(new) : Latest(old) <= new[i]
    BY <1>7, <2>1
  <2> QED BY <1>1, <1>3, <1>9, <2>2, <2>3 DEF new
<1>10. CASE shown'[c][e] = Never /\ faults' > faults BY <1>10
<1> QED BY <1>5, <1>8, <1>9, <1>10

\* The status that a client is shown of an experiment never goes back to an older
\* observation, or to none, however late and out of order the runs store theirs,
\* unless the query failed (GetExperimentStatus of the handler over GetObservations
\* and SaveObservation of the repository).
THEOREM StatusIsForward == Spec => StatusGoesForward
<1> DEFINE Forward ==
      \A c \in Clients, e \in Experiments :
        shown'[c][e] >= shown[c][e] \/ faults' > faults
<1>1. Init => ShownInv BY DEF Init, ShownInv
<1>2. BaseInv /\ ShownInv /\ [Next]_vars => ShownInv' /\ Forward
  <2> SUFFICES ASSUME BaseInv, ShownInv, [Next]_vars PROVE ShownInv' /\ Forward OBVIOUS
  <2>1. ShownInv' BY ShownStep DEF ShownInv
  <2>2. Forward BY ShownStep
  <2> QED BY <2>1, <2>2
<1> HIDE DEF Forward
<1>3. Spec => [][Forward]_vars BY Base, <1>1, <1>2, PTL DEF Spec
<1> QED BY <1>3 DEF Forward, StatusGoesForward
=============================================================================
