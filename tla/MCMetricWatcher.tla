--------------------------- MODULE MCMetricWatcher ---------------------------
(* Instances of MetricWatcher for TLC. *)
EXTENDS MetricWatcher

CONSTANTS r1, r2, s1, s2
=============================================================================
