----------------------- MODULE ExperimentManagerClaims -----------------------
(***************************************************************************)
(* Statements the repository's documents and comments make about a run,    *)
(* which the code does not keep.  Each is checked by a run of its own that *)
(* ends in a counterexample; README.md tells what the counterexample is.   *)
(***************************************************************************)
EXTENDS ExperimentManager

\* "... a fail-safe stop rather than letting stress tests run unmonitored"
\* (internal/watcher/evaluator.go:72): as long as no run failed, traffic whose
\* run got an answer from watcher.Start is watched by a live poll loop.
TrafficIsMonitored ==
  \A r \in Requests :
    Traffic(r) /\ watchPc[r] = "returned" /\ (\A q \in Requests : failure[q] = "none") =>
      \E q \in Requests :
        loopPc[q] \notin { "none", "exited" } /\ q \notin loopStopped /\ ~ExpDone(q)

\* "Any Active State -> ABORTED: cancel context, record stop reason, clean up
\* goroutines" (docs/LLD.md:519): an aborted experiment sends no traffic.
AbortedHasNoTraffic ==
  \A r \in Requests : state[Target[r]] = "ABORTED" => ~Traffic(r)
=============================================================================
