--------------------------- MODULE CapacityReport ---------------------------
(***************************************************************************)
(* internal/report/generator.go: the verdicts a report adds to the result  *)
(* of the analysis, which are its recommendations, the markers of its      *)
(* chart and the badge of every row.  Wording and layout are left out.     *)
(*                                                                         *)
(* Scores, error rates and utilisations are in hundredths.                 *)
(***************************************************************************)
EXTENDS CapacityAnalysis

Analyze(observations, policy) ==
  [ tested      |-> MaximumTestedRate(observations),
    sustainable |-> MaximumSustainableRate(observations, policy),
    degradation |-> calculateDegradationRate(sortedTiers(observations, policy)),
    boundary    |-> SafetyBoundaryRate(observations, policy),
    recovery    |-> calculateRecoveryTime(observations, policy) ]

\* A target service the dependency graph does not have.
Unscored == [ score |-> 0, spof |-> FALSE ]

Peak(observations, metric) ==
  Max({0} \union { observations[t][metric] : t \in DOMAIN observations })

(***************************************************************************)
(* The recommendations.                                                    *)
(***************************************************************************)
\* Mutant of ThroughputAdvice: the rate reached is compared with the plan only.
AdviceAgainstPlan(config, result) ==
  CASE result.sustainable = 0 /\ result.tested > 0 -> { "nothing sustained" }
    [] (result.sustainable > 0 \/ result.tested = 0)
         /\ result.sustainable < config.maxRate -> { "below the plan" }
    [] OTHER -> {}

ThroughputAdvice(config, result) ==
  CASE result.sustainable = 0 /\ result.tested > 0 -> { "nothing sustained" }
    [] result.sustainable \in 1 .. (result.tested - 1) -> { "below the peak" }
    [] result.sustainable = result.tested /\ result.sustainable < config.maxRate -> { "below the plan" }
    [] OTHER -> {}

CriticalityAdvice(matched) ==
  { a \in { "critical", "high", "single point of failure" } :
      CASE a = "critical" -> matched.score >= 85
        [] a = "high"     -> matched.score \in 65 .. 84
        [] OTHER          -> matched.spof }

RecoveryAdvice(config, result) ==
  CASE result.recovery = 0 -> {}
    [] config.recoveryWindowSec \in 1 .. (result.recovery - 1) -> { "recovery too long" }
    [] OTHER -> { "recovery stabilized" }

PeakAdvice(policy, observations) ==
  LET error  == Peak(observations, "error")
      breach == policy.maxError > 0 /\ error > policy.maxError
      applies == [ errorBreach  |-> breach,
                   errorHigh    |-> ~breach /\ error > 5,
                   p95Breach    |-> policy.maxP95 > 0 /\ Peak(observations, "p95") > policy.maxP95,
                   cpuHigh      |-> Peak(observations, "cpu") > 80,
                   memoryHigh   |-> Peak(observations, "memory") > 80 ]
  IN  { a \in DOMAIN applies : applies[a] }

generateRecommendations(config, policy, result, matched, observations) ==
  LET advice == UNION { CriticalityAdvice(matched),
                        ThroughputAdvice(config, result),
                        IF result.degradation > 0 THEN { "knee" } ELSE {},
                        IF result.boundary \in 1 .. (result.tested - 1) THEN { "boundary" } ELSE {},
                        RecoveryAdvice(config, result),
                        PeakAdvice(policy, observations) }
  IN  IF advice = {} THEN { "normal" } ELSE advice

(***************************************************************************)
(* The HTML report: risk level, vertical markers of the chart, badges.     *)
(***************************************************************************)
classifyCriticality(score) ==
  CASE score >= 85       -> "CRITICAL"
    [] score \in 65 .. 84 -> "HIGH"
    [] score \in 35 .. 64 -> "MEDIUM"
    [] OTHER              -> "LOW"

\* The chart ends at the highest rate of the rows or of the result.
maxRate(result, observations) == Max(Rates(observations) \union { result.tested })

Markers(result, observations) ==
  LET shown == 1 .. maxRate(result, observations)
  IN  { m \in { "Sustainable", "Knee", "Breach" } :
          /\ Rates(observations) # {}
          /\ CASE m = "Sustainable" -> result.sustainable \in shown
               [] m = "Knee"        -> result.degradation \in shown
               [] OTHER             -> result.boundary \in shown \ { result.sustainable } }

statusBadge(o, result) ==
  CASE Rate(o) = 0 -> "Idle / Recovery"
    [] Rate(o) > 0 /\ result.boundary \in 1 .. Rate(o) -> "SLA Breach"
    [] Rate(o) > 0 /\ result.boundary \notin 1 .. Rate(o)
         /\ result.degradation \in 1 .. Rate(o) -> "Degradation Knee"
    [] OTHER -> "Sustainable"

(***************************************************************************)
(* The report, and its page.  matched is the score of the target service.  *)
(***************************************************************************)
Generate(config, policy, matched, observations) ==
  LET result == Analyze(observations, policy)
  IN  [ result          |-> result,
        recommendations |-> generateRecommendations(config, policy, result, matched, observations),
        level           |-> classifyCriticality(matched.score),
        markers         |-> Markers(result, observations),
        badge           |-> [t \in DOMAIN observations |-> statusBadge(observations[t], result)] ]
=============================================================================
