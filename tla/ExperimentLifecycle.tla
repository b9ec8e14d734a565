------------------------- MODULE ExperimentLifecycle -------------------------
(***************************************************************************)
(* What the experiments table promises to a client that only reads it      *)
(* (GET /api/experiments/{id} and /report): the status moves along the     *)
(* transition matrix and nowhere else, whatever requests, engine failures, *)
(* database errors and process restarts happen, the stop reason changes    *)
(* with the status and tells what ended the experiment, and a COMPLETED    *)
(* experiment has a report.  ExperimentManager is shown to implement this  *)
(* module.                                                                 *)
(***************************************************************************)
EXTENDS ExperimentState

CONSTANT Experiments

VARIABLES
  state,       \* experiments.status, per experiment
  stopReason,  \* experiments.stop_reason, per experiment
  report       \* the experiments that have a row in experiment_reports

lifecycleVars == << state, stopReason, report >>

\* What an update to a status may be due to; "" leaves the reason as it is.  A
\* failure and a shutdown only abort, a user only stops or aborts.
Causes(target) ==
  CASE target = "STOPPING" -> { "", "user" }
    [] target = "ABORTED"  -> { "user", "failure", "shutdown" }
    [] OTHER               -> { "" }

Init ==
  /\ state = [e \in Experiments |-> "CREATED"]
  /\ stopReason = [e \in Experiments |-> ""]
  /\ report = {}

\* One committed status update.
Move(e, target, cause) ==
  /\ CanTransition(state[e], target)
  /\ target = "COMPLETED" => e \in report
  /\ state' = [state EXCEPT ![e] = target]
  /\ stopReason' = IF cause = "" THEN stopReason ELSE [stopReason EXCEPT ![e] = cause]
  /\ UNCHANGED report

\* A report is stored only for an experiment whose run reached REPORTING; a
\* cancellation may have aborted the experiment while the report was made.
Publish(e) ==
  /\ state[e] \in { "REPORTING", "ABORTED" }
  /\ report' = report \union {e}
  /\ UNCHANGED << state, stopReason >>

Next ==
  \E e \in Experiments :
    \/ \E target \in ExperimentStates : \E cause \in Causes(target) : Move(e, target, cause)
    \/ Publish(e)

Spec == Init /\ [][Next]_lifecycleVars

=============================================================================
