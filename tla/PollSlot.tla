------------------------------- MODULE PollSlot -------------------------------
(***************************************************************************)
(* What a poller of Prometheus promises to the code that drives it: each   *)
(* run is polled for at most once, one run is polled for at a time, and a  *)
(* poll loop whose run is over leaves.  An exclusive slot is taken again   *)
(* only when the previous loop has left it.  WatcherEngine implements the  *)
(* slot that is not exclusive, MetricWatcher the exclusive one.            *)
(***************************************************************************)
EXTENDS Naturals

CONSTANTS Runs, Exclusive

VARIABLE phase   \* "none", "polling", "leaving" or "gone", per run

Occupied == \E r \in Runs : phase[r] = "polling" \/ (Exclusive /\ phase[r] = "leaving")

Init == phase = [r \in Runs |-> "none"]

\* A loop begun with a context that is already cancelled is leaving at once.
Enter(r) ==
  /\ phase[r] = "none" /\ ~Occupied
  /\ \E p \in { "polling", "leaving" } : phase' = [phase EXCEPT ![r] = p]

Retire(r) == phase[r] = "polling" /\ phase' = [phase EXCEPT ![r] = "leaving"]

Leave(r) == phase[r] = "leaving" /\ phase' = [phase EXCEPT ![r] = "gone"]

Next == \E r \in Runs : Enter(r) \/ Retire(r) \/ Leave(r)

Spec == Init /\ [][Next]_phase

FairSpec == Spec /\ \A r \in Runs : WF_phase(Leave(r))
=============================================================================
