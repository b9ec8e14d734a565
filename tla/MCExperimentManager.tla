------------------------- MODULE MCExperimentManager -------------------------
(***************************************************************************)
(* Instances of ExperimentManager for TLC.  The requests are named after   *)
(* the experiment they start; the configurations choose how many there are.*)
(***************************************************************************)
EXTENDS ExperimentManagerClaims

CONSTANTS e1, e2, r1, r2, r3, s1

OneTarget    == [r \in Requests |-> e1]
OneStop      == [s \in Stops |-> e1]
TwoTargets   == [r \in Requests |-> IF r = r1 THEN e1 ELSE e2]
TwoAndOne    == [r \in Requests |-> IF r = r3 THEN e2 ELSE e1]

\* The behaviours of the safety run: one start request with failing statements,
\* a stop request and a restart, all in any order; two start requests of one
\* experiment with failing statements, or with a stop request and one restart; or
\* a start request of another experiment when the run of the first is coming to
\* its end, and nothing else.
Serving == restarts = 0 /\ process = "serving" /\ \A s \in Stops : stopPc[s] = "idle"
Ending(r) == startPc[r] = "returned" /\ finishPc[r] \notin { "none", "outer", "inner" }
Scenarios ==
  /\ faults = 0 \/ Serving \/ startPc[r2] = "idle"
  /\ startPc[r3] = "idle" \/ (faults = 0 /\ Serving /\ Ending(r1) /\ startPc[r2] = "idle")
=============================================================================
