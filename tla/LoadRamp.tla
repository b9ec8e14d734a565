------------------------------ MODULE LoadRamp ------------------------------
(***************************************************************************)
(* internal/stress/ramp.go: the steps of a load plan.  A plan comes from a *)
(* request unchecked: its fields are any integers of the machine, here of  *)
(* MinInt .. MaxInt, and arithmetic wraps around.                          *)
(***************************************************************************)
EXTENDS Integers, FiniteSetsExt

CONSTANTS
  MaxInt,   \* the largest int
  Second    \* time.Second

ASSUME WidthAssumption == MaxInt \in Nat \ {0} /\ Second \in 1 .. MaxInt

MinInt == -MaxInt - 1
Ints == MinInt .. MaxInt

Wrap(x) == ((x - MinInt) % (2 * (MaxInt + 1))) + MinInt

MaxStepDurationSeconds == MaxInt \div Second

Validate(plan) ==
  /\ plan.initialRate > 0
  /\ plan.maxRate >= plan.initialRate
  /\ plan.stepRate >= 0
  /\ plan.stepRate = 0 => plan.maxRate <= plan.initialRate
  /\ plan.stepDurationSeconds \in 1 .. MaxStepDurationSeconds

Duration(plan) == Wrap(plan.stepDurationSeconds * Second)

\* Mutant of NextRate: the sum is compared instead of the difference.
NextRateBySum(plan, rate) ==
  IF Wrap(rate + plan.stepRate) > plan.maxRate THEN plan.maxRate
                                               ELSE Wrap(rate + plan.stepRate)

NextRate(plan, rate) ==
  IF Wrap(plan.maxRate - rate) < plan.stepRate THEN plan.maxRate
                                               ELSE Wrap(rate + plan.stepRate)

\* The rate of every step.  Rates that rise need no more than maxRate steps.
StepRates(plan) ==
  LET rate[n \in 1 .. plan.maxRate] ==
        Min({ plan.maxRate,
              IF n = 1 THEN plan.initialRate ELSE NextRate(plan, rate[n - 1]) })
  IN  rate

\* The steps up to the first that reaches the maximum.  A loop that goes on behind
\* maxRate steps is the empty sequence.
CalculateSteps(plan) ==
  LET rate == StepRates(plan)
      last == { n \in 1 .. plan.maxRate : rate[n] >= plan.maxRate }
  IN  IF last = {} THEN << >> ELSE [n \in 1 .. Min(last) |-> rate[n]]
=============================================================================
