--------------------------- MODULE MCWatcherEngine ---------------------------
EXTENDS WatcherEngine

CONSTANTS r1, r2

Thresholds(error, avail) ==
  [ maxP95LatencyMs |-> 500, maxErrorRatePercent |-> error, minAvailabilityPct |-> avail,
    recoveryWindowSec |-> 1 ]

\* One policy without a limit on errors, one without a limit on availability.
SomeConfig == [r \in Runs |-> IF r = r1 THEN Thresholds(0, 99) ELSE Thresholds(5, 0)]

Answer(rate, p95, error, otelRate, otelP95, otelError) ==
  [ rate |-> rate, p95Seconds |-> p95, errorRate |-> error,
    otelRate |-> otelRate, otelP95Ms |-> otelP95, otelErrorRate |-> otelError ]

\* A target that is healthy or has no samples, one whose OpenTelemetry metrics
\* show a breach of the error rate, and a query that fails.
SomeAnswers ==
  { Answer(10, Empty, Empty, Empty, 200, Failed),
    Answer(Empty, Empty, Empty, 10, Failed, Ratio(1, 10)),
    Answer(10, Failed, Zero, Empty, Empty, Empty) }
=============================================================================
