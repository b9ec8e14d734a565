-------------------------- MODULE CapacityAnalysis --------------------------
(***************************************************************************)
(* internal/capacity: what the analyzer (analyzer.go) and the recovery     *)
(* time calculator (metrics.go) compute from the observations of an        *)
(* experiment.                                                             *)
(*                                                                         *)
(* observations maps the timestamp of each row to its metrics, so both     *)
(* sorts of the code are the order of the domain.  Timestamps and load     *)
(* rates are in tenths, of a second and of a request per second; averages  *)
(* are kept as a total and a count and compared without dividing.          *)
(* Latencies and error rates are in units far above the rounding of a      *)
(* float64, so that rounding decides a comparison only between equals.     *)
(***************************************************************************)
EXTENDS Integers, Sequences, FiniteSets, FiniteSetsExt

CONSTANT
  RoundedUp   \* << metric, value, count >>: the float64 average of as many
              \* rows of this value lies above it

\* The sum of one or two equal float64 numbers is exact, and so is its half.
ASSUME RoundingAssumption ==
  RoundedUp \subseteq { "p95", "error" } \X Nat \X (Nat \ 0 .. 2)

NoBreach == 0

\* math.Round of a count of tenths that is not negative
Round(tenths) == (tenths + 5) \div 10

Rate(o) == Round(o.load)

\* A threshold of zero switches its check off.
isSlaBreached(o, policy) ==
  \/ policy.maxP95 > 0 /\ o.p95 > policy.maxP95
  \/ policy.maxError > 0 /\ o.error > policy.maxError
  \/ policy.minAvail > 0 /\ o.avail < policy.minAvail

(***************************************************************************)
(* The tiers: the observations under load, grouped by their rounded rate.  *)
(***************************************************************************)
Rates(observations) ==
  { Rate(observations[t]) : t \in DOMAIN observations } \ {0}

At(observations, rate) ==
  { t \in DOMAIN observations : Rate(observations[t]) = rate }

aggregatedTier(observations, policy, rate) ==
  LET rows == At(observations, rate)
  IN  [ loadRate   |-> rate,
        count      |-> Cardinality(rows),
        totalP95   |-> SumFunctionOnSet([t \in rows |-> observations[t].p95], rows),
        totalError |-> SumFunctionOnSet([t \in rows |-> observations[t].error], rows),
        minAvail   |-> Min({ observations[t].avail : t \in rows }),
        hasBreach  |-> \E t \in rows : isSlaBreached(observations[t], policy) ]

\* The average of rows of which none exceeds the limit, as the code computes it:
\* it equals the limit only if all of them do, and may then be rounded up.
AverageExceeds(metric, total, count, limit) ==
  \/ total > limit * count
  \/ total = limit * count /\ << metric, limit, count >> \in RoundedUp

\* Mutant of isTierCompliant: only the averages are looked at.
AveragesCompliant(tier, policy) ==
  /\ policy.maxP95 > 0 => ~AverageExceeds("p95", tier.totalP95, tier.count, policy.maxP95)
  /\ policy.maxError > 0 => ~AverageExceeds("error", tier.totalError, tier.count, policy.maxError)
  /\ policy.minAvail > 0 => tier.minAvail >= policy.minAvail

isTierCompliant(tier, policy) ==
  /\ ~tier.hasBreach
  /\ policy.maxP95 > 0 => ~AverageExceeds("p95", tier.totalP95, tier.count, policy.maxP95)
  /\ policy.maxError > 0 => ~AverageExceeds("error", tier.totalError, tier.count, policy.maxError)
  /\ policy.minAvail > 0 => tier.minAvail >= policy.minAvail

CompliantRates(observations, policy) ==
  { r \in Rates(observations) :
      isTierCompliant(aggregatedTier(observations, policy, r), policy) }

\* The tier at i has the rate with i - 1 lower ones.
sortedTiers(observations, policy) ==
  LET rates == Rates(observations)
      sorted == [i \in 1 .. Cardinality(rates) |->
                   CHOOSE r \in rates : Cardinality({ q \in rates : q <= r }) = i]
  IN  [i \in DOMAIN sorted |-> aggregatedTier(observations, policy, sorted[i])]

MaximumTestedRate(observations) == Max(Rates(observations) \union {0})

MaximumSustainableRate(observations, policy) ==
  Max(CompliantRates(observations, policy) \union {0})

firstBreachRate(observations, policy) ==
  LET breached == Rates(observations) \ CompliantRates(observations, policy)
  IN  IF breached = {} THEN NoBreach ELSE Min(breached)

\* Mutant of SafetyBoundaryRate: the boundary is where the sustainable rates end.
BoundaryAboveSustainable(observations, policy) ==
  LET above == { r \in Rates(observations) : r > MaximumSustainableRate(observations, policy) }
  IN  IF above = {} THEN MaximumSustainableRate(observations, policy) ELSE Min(above)

SafetyBoundaryRate(observations, policy) ==
  IF firstBreachRate(observations, policy) # NoBreach
  THEN firstBreachRate(observations, policy)
  ELSE MaximumSustainableRate(observations, policy)

(***************************************************************************)
(* The knee.  The slope of the interval that begins at a tier is a         *)
(* fraction with a positive denominator.                                   *)
(***************************************************************************)
Slope(tiers, k) ==
  LET from == tiers[k]
      to   == tiers[k + 1]
  IN  [ num |-> to.totalP95 * from.count - from.totalP95 * to.count,
        den |-> from.count * to.count * (to.loadRate - from.loadRate) ]

\* The slope behind tier k is more than half as steep again as the one before.
Spikes(tiers, k) ==
  LET prev == Slope(tiers, k - 1)
      curr == Slope(tiers, k)
  IN  IF prev.num > 0 THEN 2 * curr.num * prev.den > 3 * prev.num * curr.den
                      ELSE curr.num > 0

\* Mutant of calculateDegradationRate: the tier at the far end of the interval.
KneeAtTheEnd(tiers) ==
  LET knees == { k \in 2 .. (Len(tiers) - 1) : Spikes(tiers, k) }
  IN  IF knees = {} THEN 0 ELSE tiers[Min(knees) + 1].loadRate

calculateDegradationRate(tiers) ==
  LET knees == { k \in 2 .. (Len(tiers) - 1) : Spikes(tiers, k) }
  IN  IF knees = {} THEN 0 ELSE tiers[Min(knees)].loadRate

(***************************************************************************)
(* Recovery.  Only a load of exactly zero counts as no load.               *)
(***************************************************************************)
Stressed(observations) == { t \in DOMAIN observations : observations[t].load > 0 }

zeroLoadObs(observations) ==
  { t \in DOMAIN observations :
      observations[t].load = 0 /\ \E u \in Stressed(observations) : u < t }

\* Mutant of calculateRecoveryTime: the time counts from the last row under load.
RecoveryFromLoad(observations, policy) ==
  LET zero == zeroLoadObs(observations)
      good == { t \in zero : ~isSlaBreached(observations[t], policy) }
  IN  IF zero = {} THEN 0
      ELSE Round((IF good # {} THEN Min(good) ELSE Max(zero)) - Max(Stressed(observations)))

calculateRecoveryTime(observations, policy) ==
  LET zero == zeroLoadObs(observations)
      good == { t \in zero : ~isSlaBreached(observations[t], policy) }
  IN  IF zero = {} THEN 0
      ELSE Round((IF good # {} THEN Min(good) ELSE Max(zero)) - Min(zero))

(***************************************************************************)
(* The recovery time objective.  The baseline is a total and a count, the  *)
(* tolerance a percentage.                                                 *)
(***************************************************************************)
preStressObs(observations) ==
  { t \in DOMAIN observations :
      observations[t].load = 0 /\ \A u \in Stressed(observations) : t < u }

ExtractPreTestBaseline(observations) ==
  LET before == preStressObs(observations)
  IN  [ total |-> SumFunctionOnSet([t \in before |-> observations[t].p95], before),
        count |-> Cardinality(before) ]

WithinThreshold(o, baseline, tolerance) ==
  100 * o.p95 * baseline.count <= baseline.total * (100 + tolerance)

\* The rows after the stress, a partition of the calculator's own.
postStressObs(observations) ==
  { t \in DOMAIN observations :
      observations[t].load = 0 /\ \E u \in Stressed(observations) : u < t }

\* The errors come in the order of the code: no rows, no usable baseline, no
\* stress, no end of the stress.
CalculateRTO(observations, tolerance) ==
  LET baseline == ExtractPreTestBaseline(observations)
      zero     == postStressObs(observations)
      good     == { t \in zero : WithinThreshold(observations[t], baseline, tolerance) }
  IN  IF baseline.total = 0 \/ zero = {}
      THEN [ ok |-> FALSE, recovered |-> FALSE, seconds |-> 0 ]
      ELSE [ ok |-> TRUE, recovered |-> good # {},
             seconds |-> Round((IF good # {} THEN Min(good) ELSE Max(zero)) - Min(zero)) ]
=============================================================================
