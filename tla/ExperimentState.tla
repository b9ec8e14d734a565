--------------------------- MODULE ExperimentState ---------------------------
(***************************************************************************)
(* The eight experiment states and the transition matrix of                *)
(* internal/experiment/experiment.go and state.go.  Every component that   *)
(* reads or writes the state of an experiment shares this module.          *)
(***************************************************************************)

ExperimentStates ==
  { "CREATED", "PLANNED", "RUNNING", "STOPPING",
    "ANALYZING", "REPORTING", "COMPLETED", "ABORTED" }

\* The nominal flow is linear; every state that is not terminal may also go
\* to ABORTED; the terminal states have no successor.
validTransitions ==
  [ CREATED   |-> { "PLANNED",   "ABORTED" },
    PLANNED   |-> { "RUNNING",   "ABORTED" },
    RUNNING   |-> { "STOPPING",  "ABORTED" },
    STOPPING  |-> { "ANALYZING", "ABORTED" },
    ANALYZING |-> { "REPORTING", "ABORTED" },
    REPORTING |-> { "COMPLETED", "ABORTED" },
    COMPLETED |-> {},
    ABORTED   |-> {} ]

CanTransition(current, target) == target \in validTransitions[current]

IsTerminal(s) == s \in { "COMPLETED", "ABORTED" }

\* The states a run passes through once its traffic must have stopped.
PostTraffic == { "ANALYZING", "REPORTING", "COMPLETED" }

=============================================================================
