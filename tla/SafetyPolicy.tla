---------------------------- MODULE SafetyPolicy ----------------------------
(***************************************************************************)
(* What decides whether traffic may go on: the thresholds of an experiment *)
(* (experiment.go), the snapshot that the answers of Prometheus make       *)
(* (watcher/prometheus.go), the sentinel that stands for lost              *)
(* observability (watcher/evaluator.go) and the verdict of the safety      *)
(* controller (safety/policy.go, safety/controller.go).                    *)
(*                                                                         *)
(* A ratio is a fraction with a positive denominator.  Latencies are in    *)
(* milliseconds.                                                           *)
(***************************************************************************)
EXTENDS Integers

Ratio(num, den) == [num |-> num, den |-> den]
Above(a, b) == a.num * b.den > b.num * a.den
Zero == Ratio(0, 1)
One  == Ratio(1, 1)

(***************************************************************************)
(* The thresholds.                                                         *)
(***************************************************************************)
\* ExperimentConfig.Validate, the part that is not the load plan's: a latency
\* limit is required, the two percentages may be switched off with a zero.
ValidThresholds(config) ==
  /\ config.maxP95LatencyMs > 0
  /\ config.maxErrorRatePercent \in 0 .. 100
  /\ config.minAvailabilityPct \in 0 .. 100
  /\ config.recoveryWindowSec >= 0

\* The percentages of the request become ratios.
PolicyOf(config) ==
  [ maxP95LatencyMs |-> config.maxP95LatencyMs,
    maxErrorRate    |-> Ratio(config.maxErrorRatePercent, 100),
    minAvailability |-> Ratio(config.minAvailabilityPct, 100) ]

(***************************************************************************)
(* The snapshot.  The answer to one query is Failed, Empty (no sample, or  *)
(* NaN) or a value; a latency is queried in seconds and, when that gives   *)
(* nothing, in the milliseconds of the OpenTelemetry metrics.              *)
(***************************************************************************)
CONSTANTS Failed, Empty

ValueOf(answer, nothing) == IF answer = Empty THEN nothing ELSE answer

\* A second query is made when the first one found nothing; its failure is
\* ignored.
Fallback(value, found, second) ==
  IF found \/ second = Failed THEN value ELSE ValueOf(second, value)

QuerySucceeds(answers) ==
  Failed \notin { answers.rate, answers.p95Seconds, answers.errorRate }

MetricSnapshot(rate, p95, errorRate) ==
  [ requestRate  |-> rate,
    p95LatencyMs |-> p95,
    errorRate    |-> errorRate,
    availability |-> IF Above(errorRate, One) THEN Zero
                     ELSE Ratio(errorRate.den - errorRate.num, errorRate.den) ]

QuerySnapshot(answers) ==
  LET rate  == ValueOf(answers.rate, 0)
      p95   == 1000 * ValueOf(answers.p95Seconds, 0)
      error == ValueOf(answers.errorRate, Zero)
  IN  MetricSnapshot(Fallback(rate, rate # 0, answers.otelRate),
                     Fallback(p95, p95 # 0, answers.otelP95Ms),
                     Fallback(error, error.num # 0, answers.otelErrorRate))

\* emitSyntheticBreach and BuildSyntheticBreachSnapshot: the latency stays zero.
SyntheticBreach ==
  [ requestRate |-> 0, p95LatencyMs |-> 0, errorRate |-> One, availability |-> Zero ]

(***************************************************************************)
(* The verdict: the checks in the order of the code, each switched off by  *)
(* a threshold of zero.                                                    *)
(***************************************************************************)
P95Breached(snapshot, policy) ==
  policy.maxP95LatencyMs > 0 /\ snapshot.p95LatencyMs > policy.maxP95LatencyMs

ErrorRateBreached(snapshot, policy) ==
  Above(policy.maxErrorRate, Zero) /\ Above(snapshot.errorRate, policy.maxErrorRate)

AvailabilityBreached(snapshot, policy) ==
  Above(policy.minAvailability, Zero) /\ Above(policy.minAvailability, snapshot.availability)

ShouldStop(snapshot, policy) ==
  \/ P95Breached(snapshot, policy)
  \/ ErrorRateBreached(snapshot, policy)
  \/ AvailabilityBreached(snapshot, policy)

\* The configurations under which lost observability stops the traffic.
CatchesLoss(config) ==
  config.maxErrorRatePercent \in 1 .. 99 \/ config.minAvailabilityPct > 0
=============================================================================
