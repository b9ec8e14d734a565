----------------------------- MODULE MCAnalyses -----------------------------
EXTENDS Analyses

CONSTANTS a, b, c, d

AllPlans ==
  [ initialRate : { -1 } \union 0 .. MaxInt, maxRate : { -1 } \union 0 .. MaxInt,
    stepRate : { -1 } \union 0 .. MaxInt, stepDurationSeconds : 0 .. MaxInt ]

Span(id, service, parents) == [ id |-> id, service |-> service, parents |-> parents ]
Call(u, v) == { Span(1, u, {}), Span(2, v, {1}) }

\* A diamond, a cycle, and a trace with a span without a process and one with a
\* lost parent.
SomeTraces ==
  { Call(a, b), Call(a, c), Call(b, d), Call(c, d), Call(d, b),
    { Span(1, a, {9}), Span(2, Unnamed, {1}), Span(3, d, {2}) } }

\* The second one has the checks of errors and availability switched off.
SomePolicies ==
  { [ maxP95 |-> 11, maxError |-> 4, minAvail |-> 9 ],
    [ maxP95 |-> 12, maxError |-> 0, minAvail |-> 0 ] }

SomeConfig == [ maxRate |-> 2, recoveryWindowSec |-> 1 ]

SomeScores == { Unscored, [ score |-> 90, spof |-> TRUE ] }

Row(load, p95, error, avail) ==
  [ load |-> load, p95 |-> p95, error |-> error, avail |-> avail, cpu |-> p95 + 60, memory |-> 50 ]

\* Rates of 0, 1, 2, 3 and one that rounds to 0; latencies on both sides of
\* the policy, at its limit, and on both sides of the tolerated baseline; the
\* rates of Prometheus may be above the planned one.
SomeRows ==
  { Row(0, 10, 2, 9), Row(0, 11, 2, 9), Row(0, 30, 2, 9), Row(4, 10, 2, 9),
    Row(10, 10, 2, 9), Row(10, 4, 6, 9), Row(10, 14, 2, 9),
    Row(20, 11, 4, 9), Row(20, 10, 2, 8), Row(20, 12, 4, 9),
    Row(30, 11, 4, 8), Row(30, 30, 6, 9) }

\* Three or four rows at the first policy's limits, none at the second one's.
SomeRounding == { << "p95", 11, 4 >>, << "error", 4, 3 >> }

SomeTimes == { 0, 4, 14, 30 }
=============================================================================
