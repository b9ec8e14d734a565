----------------------------- MODULE MCEventBus -----------------------------
(* Instances of EventBus for TLC: one experiment, whose key has partition p1. *)
EXTENDS EventBus

CONSTANTS a1, a2, a3, x, p1, p2, c1, c2

OneExperiment == [e \in Events |-> x]
OneKey == [k \in {x} |-> p1]
=============================================================================
