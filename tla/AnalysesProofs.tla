--------------------------- MODULE AnalysesProofs ---------------------------
(***************************************************************************)
(* Proofs about Analyses and the modules it is made of, for every width of *)
(* the machine's integers and all plans, traces, policies and rows: the    *)
(* steps of a load plan, the services that a removal cuts off and their    *)
(* depths, and what the tiers of the observations say.  The recursive      *)
(* functions of the models are reasoned about with InductionLemmas.        *)
(***************************************************************************)
EXTENDS Analyses, InductionLemmas

-----------------------------------------------------------------------------
(* The steps of a load plan.                                               *)

IsPlan(p) ==
  /\ p.initialRate \in Ints /\ p.maxRate \in Ints
  /\ p.stepRate \in Ints /\ p.stepDurationSeconds \in Ints

\* A number that fits is not changed.
LEMMA WrapFits ==
  ASSUME NEW x \in Ints PROVE Wrap(x) = x
<1> DEFINE n == 2 * (MaxInt + 1)
<1>1. MaxInt \in Nat /\ n \in Nat /\ n > 0
  BY WidthAssumption
<1>2. x - MinInt \in 0 .. (n - 1)
  BY <1>1 DEF Ints, MinInt
<1>3. \A k \in 0 .. (n - 1) : k % n = k
  <2> HIDE DEF n
  <2> QED BY <1>1
<1> QED BY <1>1, <1>2, <1>3 DEF Wrap, MinInt, Ints

\* A step of an accepted plan that is not at the maximum is followed by a higher
\* one, at most stepRate above it, which is at the maximum unless it is exactly
\* stepRate above (internal/stress/ramp.go:92).
THEOREM NextRateClimbs ==
  ASSUME NEW p, IsPlan(p), Validate(p),
         NEW rate \in p.initialRate .. (p.maxRate - 1)
  PROVE  /\ NextRate(p, rate) \in (rate + 1) .. p.maxRate
         /\ NextRate(p, rate) - rate <= p.stepRate
         /\ NextRate(p, rate) \in { p.maxRate, rate + p.stepRate }
<1>1. /\ MaxInt \in Nat
      /\ p.maxRate \in 1 .. MaxInt
      /\ p.stepRate \in 1 .. MaxInt
      /\ rate \in 1 .. (p.maxRate - 1)
  BY WidthAssumption DEF IsPlan, Validate, Ints, MinInt
<1>2. p.maxRate - rate \in Ints
  BY <1>1 DEF Ints, MinInt
<1>3. Wrap(p.maxRate - rate) = p.maxRate - rate
  BY <1>2, WrapFits
<1>4. CASE p.maxRate - rate < p.stepRate
  BY <1>1, <1>3, <1>4 DEF NextRate
<1>5. CASE ~(p.maxRate - rate < p.stepRate)
  <2>1. rate + p.stepRate \in Ints /\ rate + p.stepRate <= p.maxRate
    BY <1>1, <1>5 DEF Ints, MinInt
  <2>2. Wrap(rate + p.stepRate) = rate + p.stepRate
    BY <2>1, WrapFits
  <2> QED BY <1>1, <1>3, <1>5, <2>1, <2>2 DEF NextRate
<1> QED BY <1>4, <1>5

\* The duration of a step of an accepted plan is a time.Duration
\* (internal/stress/load_plan.go:17).
THEOREM DurationFits ==
  ASSUME NEW p, IsPlan(p), Validate(p)
  PROVE  /\ Duration(p) = p.stepDurationSeconds * Second
         /\ Duration(p) > 0
<1> DEFINE d == p.stepDurationSeconds
           q == MaxInt \div Second
<1>1. MaxInt \in Nat /\ Second \in Nat \ {0}
  BY WidthAssumption
<1>2. q \in Nat /\ q * Second <= MaxInt
  BY <1>1
<1>3. d \in 1 .. q
  BY DEF Validate, MaxStepDurationSeconds
<1>4. d * Second \in 1 .. MaxInt
  <2>1. d \in Nat \ {0} /\ d <= q
    BY <1>2, <1>3
  <2> HIDE DEF d, q
  <2>2. d * Second <= q * Second /\ d * Second >= 1 /\ d * Second \in Nat
    BY <1>1, <1>2, <2>1
  <2> QED BY <1>1, <1>2, <2>2
<1>5. d * Second \in Ints
  BY <1>1, <1>4 DEF Ints, MinInt
<1>6. Wrap(d * Second) = d * Second
  BY <1>5, WrapFits
<1> QED BY <1>4, <1>6 DEF Duration

\* Min is the lesser of two numbers.
LEMMA MinOfTwo ==
  ASSUME NEW x \in Int, NEW y \in Int
  PROVE  Min({ x, y }) = IF x <= y THEN x ELSE y
<1>1. \E z \in { x, y } : \A w \in { x, y } : z <= w OBVIOUS
<1>2. Min({ x, y }) \in { x, y } /\ \A w \in { x, y } : Min({ x, y }) <= w
  BY <1>1 DEF Min
<1> QED BY <1>2

\* The loop body of CalculateSteps stays between the initial rate and the maximum.
LEMMA NextStep ==
  ASSUME NEW p, IsPlan(p), Validate(p), NEW rate \in p.initialRate .. p.maxRate
  PROVE  /\ Min({ p.maxRate, NextRate(p, rate) }) \in p.initialRate .. p.maxRate
         /\ rate < p.maxRate => Min({ p.maxRate, NextRate(p, rate) }) = NextRate(p, rate)
<1>1. /\ MaxInt \in Nat
      /\ p.maxRate \in 1 .. MaxInt /\ p.stepRate \in 0 .. MaxInt
      /\ p.initialRate \in 1 .. p.maxRate
  BY WidthAssumption DEF IsPlan, Validate, Ints, MinInt
<1>2. CASE rate < p.maxRate
  <2>1. NextRate(p, rate) \in (rate + 1) .. p.maxRate BY <1>1, <1>2, NextRateClimbs
  <2> QED BY <1>1, <1>2, <2>1, MinOfTwo
<1>3. CASE rate = p.maxRate
  <2>1. 0 \in Ints /\ p.maxRate \in Ints BY <1>1 DEF Ints, MinInt
  <2>2. Wrap(p.maxRate - rate) = 0 BY <1>1, <1>3, <2>1, WrapFits
  <2>3. p.stepRate = 0 => Wrap(rate + p.stepRate) = p.maxRate BY <1>1, <1>3, <2>1, WrapFits
  <2>4. NextRate(p, rate) = p.maxRate BY <1>1, <2>2, <2>3 DEF NextRate
  <2> QED BY <1>1, <1>3, <2>4, MinOfTwo
<1> QED BY <1>1, <1>2, <1>3

\* The rates are those of the loop body, one after the other.
AreRates(p, rate) ==
  /\ rate[1] = p.initialRate
  /\ \A n \in 1 .. p.maxRate : rate[n] \in p.initialRate .. p.maxRate
  /\ \A n \in 2 .. p.maxRate : rate[n] = Min({ p.maxRate, NextRate(p, rate[n - 1]) })

LEMMA RatesOfSteps ==
  ASSUME NEW p, IsPlan(p), Validate(p)
  PROVE  AreRates(p, StepRates(p))
<1> DEFINE V == p.initialRate .. p.maxRate
           body(r) == Min({ p.maxRate, NextRate(p, r) })
           step == [r \in V |-> body(r)]
           M == p.maxRate
           at(f, n) == Min({ p.maxRate,
                             IF n = 1 THEN p.initialRate ELSE NextRate(p, f[n - 1]) })
           Eq(f) == f = [n \in 1 .. p.maxRate |-> at(f, n)]
           rate == CHOOSE f : Eq(f)
<1>1. /\ M \in Nat /\ M >= 1 /\ p.initialRate \in 1 .. M
  BY WidthAssumption DEF IsPlan, Validate, Ints, MinInt
<1>2. \A r \in V : body(r) \in V BY NextStep
<1>3. StepRates(p) = rate BY DEF StepRates
<1>4. p.initialRate \in V /\ Min({ p.maxRate, p.initialRate }) = p.initialRate
  BY <1>1, MinOfTwo
<1>5. PICK f \in [0 .. M - 1 -> V] : Repeats(f, p.initialRate, step, M - 1)
  <2> HIDE DEF body, V
  <2>1. step \in [V -> V] BY <1>2
  <2> DEFINE N == M - 1
  <2>2. N \in Nat BY <1>1
  <2> HIDE DEF step, N
  <2>3. \E f \in [0 .. N -> V] : Repeats(f, p.initialRate, step, N)
    BY <1>4, <2>1, <2>2, Iterate
  <2> QED BY <2>3 DEF N
<1> DEFINE g == [n \in 1 .. M |-> f[n - 1]]
<1>6. g[1] = p.initialRate /\ \A n \in 1 .. M : g[n] \in V /\ (n # 1 => g[n] = body(g[n - 1]))
  <2> HIDE DEF body, V
  <2>1. g[1] = p.initialRate BY <1>1, <1>5 DEF Repeats
  <2>2. ASSUME NEW n \in 1 .. M PROVE g[n] \in V /\ (n # 1 => g[n] = body(g[n - 1]))
    <3>1. n - 1 \in 0 .. M - 1 BY <1>1
    <3>2. g[n] = f[n - 1] /\ g[n] \in V BY <1>5, <3>1
    <3>3. ASSUME n # 1 PROVE g[n] = body(g[n - 1])
      <4>1. n - 1 \in 1 .. M - 1 /\ n - 1 \in 1 .. M /\ n - 2 \in 0 .. M - 1
            /\ (n - 1) - 1 = n - 2
        BY <1>1, <3>3
      <4>2. f[n - 1] = step[f[n - 2]] BY <1>5, <4>1 DEF Repeats
      <4>3. g[n - 1] = f[n - 2] /\ f[n - 2] \in V BY <1>5, <4>1
      <4> QED BY <3>2, <4>2, <4>3
    <3> QED BY <3>2, <3>3
  <2> QED BY <2>1, <2>2
<1>7. Eq(g)
  <2>1. \A n \in 1 .. M : g[n] = at(g, n)
    <3> HIDE DEF g
    <3> QED BY <1>4, <1>6
  <2> HIDE DEF at
  <2> QED BY <2>1
<1>8. Eq(rate)
  <2> HIDE DEF Eq
  <2> QED BY <1>7
<1> HIDE DEF rate, g
<1>9. \A n \in 1 .. M : rate[n] = at(rate, n)
  <2> HIDE DEF at
  <2> QED BY <1>8
<1>10. rate[1] = p.initialRate BY <1>1, <1>4, <1>9
<1>11. \A n \in 2 .. M : rate[n] = body(rate[n - 1]) BY <1>1, <1>9
<1>12. \A n \in 1 .. M : rate[n] \in V
  <2> DEFINE P == { n \in Nat : n + 1 \in 1 .. M => rate[n + 1] \in V }
  <2> HIDE DEF body, at
  <2>1. 0 \in P BY <1>4, <1>10
  <2>2. ASSUME NEW n \in Nat, n \in P PROVE n + 1 \in P
    <3> SUFFICES ASSUME n + 2 \in 1 .. M PROVE rate[n + 2] \in V OBVIOUS
    <3>1. n + 1 \in 1 .. M /\ n + 2 \in 2 .. M /\ (n + 2) - 1 = n + 1 BY <1>1
    <3>2. rate[n + 1] \in V BY <2>2, <3>1
    <3>3. rate[n + 2] = body(rate[n + 1]) BY <1>11, <3>1
    <3> QED BY <1>2, <3>2, <3>3
  <2> HIDE DEF P, V
  <2>3. Nat \subseteq P BY <2>1, <2>2, NatInduct
  <2> SUFFICES ASSUME NEW n \in 1 .. M PROVE rate[n] \in V OBVIOUS
  <2>4. n - 1 \in Nat /\ (n - 1) + 1 = n BY <1>1
  <2> QED BY <2>3, <2>4 DEF P
<1> QED BY <1>3, <1>10, <1>11, <1>12 DEF AreRates

\* What CalculateSteps returns for an accepted plan: the rates from the initial
\* one, each a step of the loop behind the one before, to the first at the maximum.
AreSteps(p, s) ==
  /\ Len(s) \in Nat /\ Len(s) > 0
  /\ s = [n \in 1 .. Len(s) |-> s[n]]
  /\ s[1] = p.initialRate /\ s[Len(s)] = p.maxRate
  /\ \A n \in 1 .. Len(s) : s[n] \in p.initialRate .. p.maxRate
  /\ \A n \in 1 .. (Len(s) - 1) : s[n] < p.maxRate /\ s[n + 1] = NextRate(p, s[n])

LEMMA StepsOfPlan ==
  ASSUME NEW p, IsPlan(p), Validate(p)
  PROVE  AreSteps(p, CalculateSteps(p))
<1> DEFINE M == p.maxRate
           rate == StepRates(p)
           last == { n \in 1 .. M : rate[n] >= M }
           m == Min(last)
           s == [n \in 1 .. m |-> rate[n]]
<1>1. /\ M \in Nat /\ M >= 1 /\ p.initialRate \in 1 .. M
  BY WidthAssumption DEF IsPlan, Validate, Ints, MinInt
<1>2. /\ rate[1] = p.initialRate
      /\ \A n \in 1 .. M : rate[n] \in p.initialRate .. M
      /\ \A n \in 2 .. M : rate[n] = Min({ M, NextRate(p, rate[n - 1]) })
  BY RatesOfSteps DEF AreRates
<1>3. CalculateSteps(p) = IF last = {} THEN << >> ELSE s BY DEF CalculateSteps
<1> HIDE DEF rate
<1>4. \A n \in 1 .. (M - 1) :
        rate[n] < M => rate[n + 1] = NextRate(p, rate[n]) /\ rate[n + 1] > rate[n]
  <2> SUFFICES ASSUME NEW n \in 1 .. (M - 1), rate[n] < M
               PROVE  rate[n + 1] = NextRate(p, rate[n]) /\ rate[n + 1] > rate[n]
    OBVIOUS
  <2>1. n \in 1 .. M /\ n + 1 \in 2 .. M /\ (n + 1) - 1 = n BY <1>1
  <2>2. rate[n] \in p.initialRate .. p.maxRate /\ rate[n] \in p.initialRate .. (p.maxRate - 1)
    BY <1>1, <1>2, <2>1
  <2>3. rate[n + 1] = Min({ p.maxRate, NextRate(p, rate[n]) }) BY <1>2, <2>1
  <2>4. Min({ p.maxRate, NextRate(p, rate[n]) }) = NextRate(p, rate[n]) BY <2>2, NextStep
  <2>5. NextRate(p, rate[n]) \in (rate[n] + 1) .. p.maxRate BY <2>2, NextRateClimbs
  <2> QED BY <2>2, <2>3, <2>4, <2>5
<1>5. last # {}
  <2> DEFINE P == { n \in Nat : n + 1 \in 1 .. M /\ last = {} => rate[n + 1] >= n + 1 }
  <2>1. 0 \in P BY <1>1, <1>2
  <2>2. ASSUME NEW n \in Nat, n \in P PROVE n + 1 \in P
    <3> SUFFICES ASSUME n + 2 \in 1 .. M, last = {} PROVE rate[n + 2] >= n + 2 OBVIOUS
    <3>1. n + 1 \in 1 .. M /\ n + 1 \in 1 .. (M - 1) /\ (n + 1) + 1 = n + 2 BY <1>1
    <3>2. rate[n + 1] \in Nat /\ rate[n + 1] < M BY <1>1, <1>2, <3>1
    <3>3. rate[n + 1] >= n + 1 BY <2>2, <3>1
    <3>4. rate[n + 2] > rate[n + 1] BY <1>4, <3>1, <3>2
    <3>5. rate[n + 2] \in Int BY <1>1, <1>2
    <3> QED BY <3>2, <3>3, <3>4, <3>5
  <2> HIDE DEF P
  <2>3. M - 1 \in P BY <1>1, <2>1, <2>2, NatInduct
  <2> SUFFICES ASSUME last = {} PROVE FALSE OBVIOUS
  <2>4. M \in 1 .. M /\ (M - 1) + 1 = M BY <1>1
  <2>5. rate[M] >= M BY <2>3, <2>4 DEF P
  <2> QED BY <2>4, <2>5
<1>6. m \in last /\ \A n \in last : m <= n
  <2>1. last \in SUBSET Nat BY <1>1
  <2> HIDE DEF last
  <2> QED BY <1>5, <2>1, NatMin
<1>7. m \in 1 .. M /\ rate[m] = M
  <2>1. m \in 1 .. M /\ rate[m] >= M BY <1>6
  <2> QED BY <1>1, <1>2, <2>1
<1>8. \A n \in 1 .. (m - 1) : rate[n] < M
  <2> SUFFICES ASSUME NEW n \in 1 .. (m - 1), ~(rate[n] < M) PROVE FALSE OBVIOUS
  <2> HIDE DEF m
  <2>1. n \in 1 .. M /\ n < m BY <1>1, <1>7
  <2>2. rate[n] \in Nat BY <1>1, <1>2, <2>1
  <2>3. n \in last BY <1>1, <2>1, <2>2
  <2> QED BY <1>6, <1>7, <2>1, <2>3
<1> HIDE DEF m, last
<1>9. Len(s) = m /\ \A n \in 1 .. m : s[n] = rate[n]
  <2>1. m \in Nat BY <1>7
  <2> QED BY <2>1
<1>10. \A n \in 1 .. (m - 1) : s[n] < M /\ s[n + 1] = NextRate(p, s[n])
  <2> SUFFICES ASSUME NEW n \in 1 .. (m - 1)
               PROVE  s[n] < M /\ s[n + 1] = NextRate(p, s[n])
    OBVIOUS
  <2>1. n \in 1 .. m /\ n + 1 \in 1 .. m /\ n \in 1 .. (M - 1) BY <1>1, <1>7
  <2> QED BY <1>4, <1>8, <1>9, <2>1
<1>11. 1 \in 1 .. m /\ m \in 1 .. m /\ m \in Nat /\ m > 0 BY <1>7
<1>12. \A n \in 1 .. m : s[n] \in p.initialRate .. p.maxRate
  <2> SUFFICES ASSUME NEW n \in 1 .. m PROVE s[n] \in p.initialRate .. p.maxRate OBVIOUS
  <2>1. n \in 1 .. M BY <1>1, <1>7
  <2> QED BY <1>2, <1>9, <2>1
<1>13. AreSteps(p, s)
  <2>1. s = [n \in 1 .. m |-> s[n]] BY <1>9
  <2> HIDE DEF s
  <2> QED BY <1>2, <1>7, <1>9, <1>10, <1>11, <1>12, <2>1 DEF AreSteps
<1> QED BY <1>3, <1>5, <1>13

\* The run of a plan is at one of its steps, and has called its handler with the
\* ones before; only the run that is through with all of them is completed.
RampInv ==
  /\ plan \in Plans
  /\ ramp \in { "step", "wait", "completed", "ended" }
  /\ ran \in Seq(Int)
  /\ Validate(plan) =>
       LET steps == CalculateSteps(plan)
       IN  /\ Len(ran) <= Len(steps)
           /\ \A n \in 1 .. Len(ran) : ran[n] = steps[n]
           /\ ramp = "step" => Len(ran) < Len(steps)
           /\ ramp = "wait" => Len(ran) > 0
           /\ ramp = "completed" => Len(ran) = Len(steps)
  /\ ~Validate(plan) => ran = << >> /\ ramp = "step"

LEMMA RampInit == Init => RampInv
<1> SUFFICES ASSUME Init PROVE RampInv OBVIOUS
<1>1. plan \in Plans /\ ran = << >> /\ ramp = "step" BY DEF Init
<1>2. ASSUME Validate(plan) PROVE Len(CalculateSteps(plan)) > 0
  <2>1. IsPlan(plan) BY <1>1, InputAssumption DEF IsPlan
  <2> QED BY <1>2, <2>1, StepsOfPlan DEF AreSteps
<1> HIDE DEF Init
<1> DEFINE n == Len(CalculateSteps(plan))
<1>3. Validate(plan) => n \in Nat
  <2>1. IsPlan(plan) BY <1>1, InputAssumption DEF IsPlan
  <2> QED BY <2>1, StepsOfPlan DEF AreSteps
<1> QED BY <1>1, <1>2, <1>3 DEF RampInv

LEMMA RampStep == RampInv /\ [Next]_vars => RampInv'
<1> SUFFICES ASSUME RampInv, [Next]_vars PROVE RampInv' OBVIOUS
<1> DEFINE steps == CalculateSteps(plan)
<1>1. IsPlan(plan) BY InputAssumption DEF IsPlan, RampInv
<1>2. ASSUME Validate(plan) PROVE AreSteps(plan, steps) BY <1>1, <1>2, StepsOfPlan
<1>3. CASE RunStep
  <2> DEFINE k == Len(ran)
             rate == IF ran = << >> THEN plan.initialRate ELSE NextRate(plan, ran[Len(ran)])
             s == Min({ plan.maxRate, rate })
  <2>1. /\ Validate(plan) /\ ramp = "step" /\ plan' = plan
        /\ ran' = Append(ran, s) /\ ramp' \in { "wait", "ended" }
    BY <1>3 DEF RunStep, RunFrame
  <2>2. /\ ran \in Seq(Int) /\ k \in Nat /\ k < Len(steps)
        /\ \A n \in 1 .. k : ran[n] = steps[n]
    <3>1. ran \in Seq(Int) /\ k < Len(steps) /\ \A n \in 1 .. k : ran[n] = steps[n]
      BY <2>1 DEF RampInv
    <3> QED BY <3>1
  <2>3. AreSteps(plan, steps) BY <1>2, <2>1
  <2> HIDE DEF steps
  <2>4. s = steps[k + 1] /\ s \in Int
    <3>1. /\ Len(steps) \in Nat /\ steps[1] = plan.initialRate
          /\ \A n \in 1 .. Len(steps) : steps[n] \in plan.initialRate .. plan.maxRate
          /\ \A n \in 1 .. (Len(steps) - 1) : steps[n + 1] = NextRate(plan, steps[n])
      BY <2>3 DEF AreSteps
    <3>2. rate = steps[k + 1]
      <4>1. CASE ran = << >> BY <3>1, <4>1
      <4>2. CASE ran # << >>
        <5>1. k \in 1 .. (Len(steps) - 1) /\ k \in 1 .. k BY <2>2, <3>1, <4>2
        <5>2. ran[k] = steps[k] BY <2>2, <5>1
        <5> QED BY <3>1, <4>2, <5>1, <5>2
      <4> QED BY <4>1, <4>2
    <3> HIDE DEF rate
    <3>3. k + 1 \in 1 .. Len(steps) BY <2>2, <3>1
    <3>4. /\ plan.maxRate \in Int /\ plan.initialRate \in Int
      BY <1>1 DEF IsPlan, Ints, MinInt
    <3>5. rate \in Int /\ rate <= plan.maxRate BY <3>1, <3>2, <3>3, <3>4
    <3> QED BY <3>2, <3>4, <3>5, MinOfTwo
  <2> HIDE DEF s
  <2>5. /\ ran' \in Seq(Int) /\ Len(ran') = k + 1
        /\ \A n \in 1 .. (k + 1) : ran'[n] = steps[n]
    BY <2>1, <2>2, <2>4
  <2>6. Len(steps) \in Nat BY <2>3 DEF AreSteps
  <2>7. CalculateSteps(plan') = steps /\ Validate(plan') BY <2>1 DEF steps
  <2>8. plan' \in Plans BY <2>1 DEF RampInv
  <2> QED BY <2>1, <2>2, <2>5, <2>6, <2>7, <2>8 DEF RampInv
<1>4. CASE RunTimer
  <2>1. /\ ramp = "wait" /\ plan' = plan /\ ran' = ran
        /\ ramp' = IF ran[Len(ran)] >= plan.maxRate THEN "completed" ELSE "step"
    BY <1>4 DEF RunTimer, RunFrame
  <2>2. Validate(plan) BY <2>1 DEF RampInv
  <2>3. /\ ran \in Seq(Int) /\ Len(ran) > 0 /\ Len(ran) <= Len(steps)
        /\ \A n \in 1 .. Len(ran) : ran[n] = steps[n]
    BY <2>1, <2>2 DEF RampInv
  <2>4. AreSteps(plan, steps) BY <1>2, <2>2
  <2> HIDE DEF steps
  <2>5. IF ran[Len(ran)] >= plan.maxRate THEN Len(ran) = Len(steps)
                                         ELSE Len(ran) < Len(steps)
    <3>1. /\ Len(steps) \in Nat /\ steps[Len(steps)] = plan.maxRate
          /\ \A n \in 1 .. Len(steps) : steps[n] \in plan.initialRate .. plan.maxRate
          /\ \A n \in 1 .. (Len(steps) - 1) : steps[n] < plan.maxRate
      BY <2>4 DEF AreSteps
    <3>2. Len(ran) \in 1 .. Len(ran) /\ Len(ran) \in 1 .. Len(steps)
      BY <2>3, <3>1
    <3>3. ran[Len(ran)] = steps[Len(ran)] /\ steps[Len(ran)] \in plan.initialRate .. plan.maxRate
      BY <2>3, <3>1, <3>2
    <3>4. plan.maxRate \in Int /\ plan.initialRate \in Int BY <1>1 DEF IsPlan, Ints, MinInt
    <3>5. CASE Len(ran) = Len(steps) BY <3>1, <3>3, <3>4, <3>5
    <3>6. CASE Len(ran) \in 1 .. (Len(steps) - 1) BY <3>1, <3>3, <3>4, <3>6
    <3> QED BY <3>1, <3>2, <3>5, <3>6
  <2>6. CalculateSteps(plan') = steps /\ Validate(plan') BY <2>1, <2>2 DEF steps
  <2>7. plan' \in Plans BY <2>1 DEF RampInv
  <2> QED BY <2>1, <2>3, <2>5, <2>6, <2>7 DEF RampInv
<1>5. CASE RunCancelled
  <2>1. /\ Validate(plan) /\ ramp' = "ended" /\ plan' = plan /\ ran' = ran
    BY <1>5 DEF RunCancelled, RunFrame
  <2> QED BY <2>1 DEF RampInv
<1>6. CASE UNCHANGED planVars
  BY <1>6 DEF RampInv, planVars
<1>7. CASE \E s \in Services, found \in SUBSET Traces : QueryService(s, found)
  BY <1>6, <1>7 DEF QueryService
<1>8. CASE QueryFails BY <1>6, <1>8 DEF QueryFails
<1>9. CASE \E t \in Times, row \in Rows : SaveObservation(t, row)
  BY <1>6, <1>9 DEF SaveObservation
<1>10. CASE UNCHANGED vars BY <1>6, <1>10 DEF vars
<1> QED BY <1>3, <1>4, <1>5, <1>7, <1>8, <1>9, <1>10 DEF Next

LEMMA RampMeans == RampInv => AcceptedPlanClimbs
<1> SUFFICES ASSUME RampInv, Validate(plan)
             PROVE  LET steps == CalculateSteps(plan)
                        n == Len(steps)
                    IN  /\ n > 0 /\ steps[1] = plan.initialRate /\ steps[n] = plan.maxRate
                        /\ \A i \in 1 .. (n - 1) :
                             steps[i + 1] - steps[i] \in 1 .. plan.stepRate
                        /\ \A i \in 1 .. (n - 2) : steps[i + 1] - steps[i] = plan.stepRate
                        /\ Len(ran) <= n /\ ran = SubSeq(steps, 1, Len(ran))
                        /\ ramp = "completed" => ran = steps
  BY DEF AcceptedPlanClimbs
<1> DEFINE steps == CalculateSteps(plan)
           n == Len(steps)
<1>1. IsPlan(plan) BY InputAssumption DEF IsPlan, RampInv
<1>2. AreSteps(plan, steps) BY <1>1, StepsOfPlan
<1> HIDE DEF steps
<1>3. /\ n \in Nat /\ n > 0 /\ steps = [i \in 1 .. n |-> steps[i]]
      /\ steps[1] = plan.initialRate /\ steps[n] = plan.maxRate
      /\ \A i \in 1 .. n : steps[i] \in plan.initialRate .. plan.maxRate
      /\ \A i \in 1 .. (n - 1) : steps[i] < plan.maxRate /\ steps[i + 1] = NextRate(plan, steps[i])
  BY <1>2 DEF AreSteps
<1>4. plan.maxRate \in Int /\ plan.initialRate \in Int /\ plan.stepRate \in Int
  BY <1>1 DEF IsPlan, Ints, MinInt
<1>5. ASSUME NEW i \in 1 .. (n - 1)
      PROVE  /\ steps[i + 1] - steps[i] \in 1 .. plan.stepRate
             /\ steps[i + 1] \in { plan.maxRate, steps[i] + plan.stepRate }
  <2>1. i \in 1 .. n /\ steps[i] \in plan.initialRate .. plan.maxRate BY <1>3
  <2>2. steps[i] \in plan.initialRate .. (plan.maxRate - 1) BY <1>3, <1>4, <2>1
  <2>3. /\ NextRate(plan, steps[i]) \in (steps[i] + 1) .. plan.maxRate
        /\ NextRate(plan, steps[i]) - steps[i] <= plan.stepRate
        /\ NextRate(plan, steps[i]) \in { plan.maxRate, steps[i] + plan.stepRate }
    BY <1>1, <2>2, NextRateClimbs
  <2>4. steps[i + 1] = NextRate(plan, steps[i]) BY <1>3
  <2> HIDE DEF n
  <2> QED BY <1>4, <2>2, <2>3, <2>4
<1>6. ASSUME NEW i \in 1 .. (n - 2) PROVE steps[i + 1] - steps[i] = plan.stepRate
  <2>1. i \in 1 .. (n - 1) /\ i + 1 \in 1 .. (n - 1) /\ i \in 1 .. n BY <1>3
  <2>2. steps[i + 1] < plan.maxRate BY <1>3, <2>1
  <2>3. steps[i + 1] \in { plan.maxRate, steps[i] + plan.stepRate } BY <1>5, <2>1
  <2>4. steps[i] \in Int BY <1>3, <1>4, <2>1
  <2> QED BY <1>4, <2>2, <2>3, <2>4
<1>7. /\ ran \in Seq(Int) /\ Len(ran) <= n
      /\ \A i \in 1 .. Len(ran) : ran[i] = steps[i]
      /\ ramp = "completed" => Len(ran) = n
  BY DEF RampInv, steps
<1>8. steps \in Seq(Int)
  <2>1. \A i \in 1 .. n : steps[i] \in Int BY <1>3, <1>4
  <2> QED BY <1>3, <2>1
<1>9. ran = SubSeq(steps, 1, Len(ran)) BY <1>7, <1>8
<1>10. ramp = "completed" => ran = steps BY <1>7, <1>8
<1> QED BY <1>3, <1>5, <1>6, <1>7, <1>9, <1>10 DEF steps

\* The run of an accepted plan climbs from the initial rate to the maximum without
\* a jump, for integers of every width and every plan a request can hold
\* (internal/stress/ramp.go:66).
THEOREM RampClimbs == Spec => []AcceptedPlanClimbs
<1>1. Init => RampInv BY RampInit
<1>2. RampInv /\ [Next]_vars => RampInv' BY RampStep
<1>3. RampInv => AcceptedPlanClimbs BY RampMeans
<1> QED BY <1>1, <1>2, <1>3, PTL DEF Spec
-----------------------------------------------------------------------------
(* The tiers of the observations.                                          *)

IsRow(o) ==
  o \in [ load : Nat, p95 : Nat, error : Nat, avail : Nat, cpu : Nat, memory : Nat ]

\* The rows of an experiment: finitely many, none before the first second.
AreRows(obs) ==
  /\ IsFiniteSet(DOMAIN obs) /\ DOMAIN obs \subseteq Nat
  /\ \A t \in DOMAIN obs : IsRow(obs[t])

IsPolicy(p) == p.maxP95 \in Nat /\ p.maxError \in Nat /\ p.minAvail \in Nat

Clean(obs, p, rate) == \A t \in At(obs, rate) : ~isSlaBreached(obs[t], p)

LEMMA RateIsNat ==
  ASSUME NEW o, IsRow(o) PROVE Rate(o) \in Nat
BY DEF IsRow, Rate, Round

LEMMA RatesAreFinite ==
  ASSUME NEW obs, AreRows(obs)
  PROVE  Rates(obs) \in SUBSET (Nat \ {0}) /\ IsFiniteSet(Rates(obs))
<1> DEFINE all == { Rate(obs[t]) : t \in DOMAIN obs }
<1>1. all \subseteq Nat BY RateIsNat DEF AreRows
<1>2. IsFiniteSet(all)
  <2> DEFINE f == [t \in DOMAIN obs |-> Rate(obs[t])]
  <2>1. f \in Surjection(DOMAIN obs, all) BY DEF Surjection
  <2> HIDE DEF f, all
  <2> QED BY <2>1, FS_Surjection DEF AreRows
<1>3. Rates(obs) = all \ {0} BY DEF Rates
<1> HIDE DEF all
<1>4. IsFiniteSet(all \ {0}) BY <1>2, FS_Subset
<1> QED BY <1>1, <1>3, <1>4

\* The average of rows that do not exceed a limit exceeds it at most by rounding,
\* and then there are at least three rows, all of them at the limit.
LEMMA AverageWithinLimit ==
  ASSUME NEW rows, IsFiniteSet(rows), NEW w \in [rows -> Nat], NEW limit \in Nat,
         \A t \in rows : w[t] <= limit,
         NEW metric,
         AverageExceeds(metric, SumFunctionOnSet(w, rows), Cardinality(rows), limit)
  PROVE  Cardinality(rows) > 2 /\ \A t \in rows : w[t] = limit
<1> DEFINE total == SumFunctionOnSet(w, rows)
           count == Cardinality(rows)
<1>1. count \in Nat BY FS_CardinalityType
<1>2. total \in Nat /\ total <= limit * count BY SumBound
<1>3. \/ total > limit * count
      \/ total = limit * count /\ << metric, limit, count >> \in RoundedUp
  BY DEF AverageExceeds
<1> HIDE DEF total, count
<1>4. limit * count \in Nat BY <1>1
<1>5. total = limit * count /\ << metric, limit, count >> \in RoundedUp BY <1>2, <1>3, <1>4
<1>6. count \notin 0 .. 2 BY <1>5, RoundingAssumption
<1>7. \A t \in rows : w[t] = limit BY <1>5, SumAtBound DEF total, count
<1> QED BY <1>1, <1>6, <1>7 DEF count

\* The averages of a tier hide no breach of its rows, and a tier without one is
\* compliant unless its rows are at a limit.
LEMMA CompliantIsClean ==
  ASSUME NEW obs, AreRows(obs), NEW p, IsPolicy(p), NEW r \in Rates(obs)
  PROVE  /\ isTierCompliant(aggregatedTier(obs, p, r), p) => Clean(obs, p, r)
         /\ Clean(obs, p, r) /\ ~AtLimit(obs, p, r)
              => isTierCompliant(aggregatedTier(obs, p, r), p)
<1> DEFINE rows == At(obs, r)
           p95s == [t \in rows |-> obs[t].p95]
           errors == [t \in rows |-> obs[t].error]
           avails == { obs[t].avail : t \in rows }
           tier == aggregatedTier(obs, p, r)
<1>1. /\ tier.count = Cardinality(rows)
      /\ tier.totalP95 = SumFunctionOnSet(p95s, rows)
      /\ tier.totalError = SumFunctionOnSet(errors, rows)
      /\ tier.minAvail = Min(avails)
      /\ tier.hasBreach <=> \E t \in rows : isSlaBreached(obs[t], p)
  BY DEF aggregatedTier
<1>2. rows \subseteq DOMAIN obs /\ rows # {} /\ IsFiniteSet(rows)
  <2>1. rows \subseteq DOMAIN obs BY DEF At
  <2>2. rows # {} BY DEF At, Rates
  <2>3. IsFiniteSet(DOMAIN obs) BY DEF AreRows
  <2> HIDE DEF rows
  <2> QED BY <2>1, <2>2, <2>3, FS_Subset
<1> HIDE DEF rows, tier
<1>3. \A t \in rows : IsRow(obs[t]) BY <1>2 DEF AreRows
<1>4. p95s \in [rows -> Nat] /\ errors \in [rows -> Nat] /\ avails \in SUBSET Nat /\ avails # {}
  BY <1>2, <1>3 DEF IsRow
<1>5. p.maxP95 \in Nat /\ p.maxError \in Nat /\ p.minAvail \in Nat BY DEF IsPolicy
<1> DEFINE compliant ==
             /\ p.maxP95 > 0 => ~AverageExceeds("p95", tier.totalP95, tier.count, p.maxP95)
             /\ p.maxError > 0 => ~AverageExceeds("error", tier.totalError, tier.count, p.maxError)
             /\ p.minAvail > 0 => tier.minAvail >= p.minAvail
<1>6. ASSUME \A t \in rows : ~isSlaBreached(obs[t], p), ~AtLimit(obs, p, r)
      PROVE  compliant
  <2>1. \A t \in rows : /\ p.maxP95 > 0 => p95s[t] <= p.maxP95
                        /\ p.maxError > 0 => errors[t] <= p.maxError
                        /\ p.minAvail > 0 => obs[t].avail >= p.minAvail
    BY <1>3, <1>5, <1>6 DEF isSlaBreached, IsRow
  <2>5. /\ ~(/\ Cardinality(rows) > 2 /\ p.maxP95 > 0
             /\ \A t \in rows : p95s[t] = p.maxP95)
        /\ ~(/\ Cardinality(rows) > 2 /\ p.maxError > 0
             /\ \A t \in rows : errors[t] = p.maxError)
    BY <1>6 DEF AtLimit, rows
  <2> HIDE DEF p95s, errors
  <2>2. p.maxP95 > 0
          => ~AverageExceeds("p95", SumFunctionOnSet(p95s, rows), Cardinality(rows), p.maxP95)
    BY <1>2, <1>4, <1>5, <2>1, <2>5, AverageWithinLimit
  <2>3. p.maxError > 0
          => ~AverageExceeds("error", SumFunctionOnSet(errors, rows), Cardinality(rows), p.maxError)
    BY <1>2, <1>4, <1>5, <2>1, <2>5, AverageWithinLimit
  <2>4. p.minAvail > 0 => Min(avails) >= p.minAvail
    <3>1. Min(avails) \in avails
      <4> HIDE DEF avails
      <4> QED BY <1>4, NatMin
    <3>2. PICK t \in rows : Min(avails) = obs[t].avail
      <4> DEFINE least == Min(avails)
      <4>1. least \in avails BY <3>1
      <4> HIDE DEF least
      <4>2. \E t \in rows : least = obs[t].avail BY <4>1
      <4> QED BY <4>2 DEF least
    <3> HIDE DEF avails
    <3> QED BY <2>1, <3>2
  <2> HIDE DEF avails
  <2> QED BY <1>1, <2>1, <2>2, <2>3, <2>4
<1>7. Clean(obs, p, r) <=> \A t \in rows : ~isSlaBreached(obs[t], p) BY DEF Clean, rows
<1>8. isTierCompliant(tier, p) <=> ~tier.hasBreach /\ compliant BY DEF isTierCompliant
<1> HIDE DEF compliant
<1> QED BY <1>1, <1>6, <1>7, <1>8 DEF tier

\* The rates that Analyze takes from the tiers, in terms of the rows alone.
AreVerdicts(obs, p) ==
  LET tested == MaximumTestedRate(obs)
      rate == MaximumSustainableRate(obs, p)
      boundary == SafetyBoundaryRate(obs, p)
  IN  /\ tested \in Rates(obs) \union {0} /\ \A r \in Rates(obs) : r <= tested
      /\ rate \in Rates(obs) \union {0}
      /\ rate > 0 => Clean(obs, p, rate)
      /\ \A r \in Rates(obs) : Clean(obs, p, r) => r <= rate \/ AtLimit(obs, p, r)
      /\ \/ /\ \A r \in Rates(obs) : Clean(obs, p, r)
            /\ boundary = rate /\ rate = tested
         \/ /\ boundary \in Rates(obs) /\ boundary # rate
            /\ ~Clean(obs, p, boundary) \/ AtLimit(obs, p, boundary)
            /\ \A r \in Rates(obs) : ~Clean(obs, p, r) => boundary <= r

LEMMA VerdictsOfAnalyze ==
  ASSUME NEW obs, AreRows(obs), NEW p, IsPolicy(p)
  PROVE  AreVerdicts(obs, p)
<1> DEFINE rates == Rates(obs)
           good == CompliantRates(obs, p)
           bad == rates \ good
           tested == MaximumTestedRate(obs)
           rate == MaximumSustainableRate(obs, p)
           boundary == SafetyBoundaryRate(obs, p)
<1>1. rates \in SUBSET (Nat \ {0}) /\ IsFiniteSet(rates) BY RatesAreFinite
<1>2. /\ good \subseteq rates
      /\ \A r \in good : Clean(obs, p, r)
      /\ \A r \in rates : Clean(obs, p, r) => r \in good \/ AtLimit(obs, p, r)
  BY CompliantIsClean DEF CompliantRates
<1>3. /\ tested = Max(rates \union {0}) /\ rate = Max(good \union {0})
      /\ boundary = IF bad = {} THEN rate ELSE IF Min(bad) # 0 THEN Min(bad) ELSE rate
  BY DEF MaximumTestedRate, MaximumSustainableRate, SafetyBoundaryRate, firstBreachRate, NoBreach
<1> HIDE DEF rates, good, tested, rate, boundary
<1>4. ASSUME NEW S \in SUBSET rates
      PROVE  Max(S \union {0}) \in S \union {0} /\ \A r \in S \union {0} : r <= Max(S \union {0})
  <2> DEFINE T == S \union {0}
  <2>1. IsFiniteSet(S) BY <1>1, FS_Subset
  <2>2. IsFiniteSet(T) BY <2>1, FS_AddElement
  <2>3. T \in SUBSET Nat /\ T # {} BY <1>1
  <2> HIDE DEF T
  <2>4. Max(T) \in T /\ \A r \in T : r <= Max(T) BY <2>2, <2>3, FiniteMax
  <2> QED BY <2>4 DEF T
<1>5. tested \in rates \union {0} /\ \A r \in rates \union {0} : r <= tested BY <1>3, <1>4
<1>6. rate \in good \union {0} /\ \A r \in good \union {0} : r <= rate BY <1>2, <1>3, <1>4
<1>7. bad # {} => Min(bad) \in bad /\ \A r \in bad : Min(bad) <= r
  <2>1. bad \in SUBSET Nat BY <1>1
  <2> HIDE DEF bad
  <2> QED BY <2>1, NatMin
<1>8. CASE bad = {}
  <2>1. good = rates BY <1>2, <1>8
  <2>2. rate = tested BY <1>3, <2>1
  <2>3. boundary = rate BY <1>3, <1>8
  <2>4. rate > 0 => rate \in good BY <1>6
  <2>5. \A r \in rates : Clean(obs, p, r) BY <1>2, <2>1
  <2>6. rate > 0 => Clean(obs, p, rate) BY <1>2, <2>4
  <2>7. \A r \in rates : r <= rate BY <1>6, <2>1
  <2>8. rate \in rates \union {0} BY <1>6, <2>1
  <2>9. \A r \in rates : r <= tested BY <1>5
  <2>10. tested \in rates \union {0} BY <1>5
  <2> HIDE DEF bad
  <2> QED BY <2>2, <2>3, <2>5, <2>6, <2>7, <2>8, <2>9, <2>10
          DEF AreVerdicts, rates, tested, rate, boundary
<1>9. CASE bad # {}
  <2> DEFINE least == Min(bad)
  <2>1. least \in bad /\ \A r \in bad : least <= r BY <1>7, <1>9
  <2>2. least \in rates /\ (~Clean(obs, p, least) \/ AtLimit(obs, p, least)) BY <1>2, <2>1
  <2>3. least # 0 BY <1>1, <2>2
  <2>10. least # rate BY <1>6, <2>1, <2>3
  <2>4. boundary = least BY <1>3, <1>9, <2>3
  <2>5. \A r \in rates : ~Clean(obs, p, r) => least <= r BY <1>2, <2>1
  <2>6. rate > 0 => Clean(obs, p, rate) BY <1>2, <1>6
  <2>7. \A r \in rates : Clean(obs, p, r) => r <= rate \/ AtLimit(obs, p, r) BY <1>2, <1>6
  <2>8. rate \in rates \union {0} BY <1>2, <1>6
  <2>9. tested \in rates \union {0} /\ \A r \in rates : r <= tested BY <1>5
  <2> HIDE DEF least
  <2> QED BY <2>2, <2>4, <2>5, <2>6, <2>7, <2>8, <2>9, <2>10
          DEF AreVerdicts, rates, tested, rate, boundary
<1> QED BY <1>8, <1>9

\* The rows of an experiment, and a policy, are of the kinds Analyze expects.
ObservedInv == policy \in Policies /\ AreRows(observations)

LEMMA ObservedInit == Init => ObservedInv
<1> SUFFICES ASSUME Init PROVE ObservedInv OBVIOUS
<1>1. policy \in Policies /\ observations = [t \in {} |-> 0] BY DEF Init
<1>2. DOMAIN observations = {} BY <1>1
<1> QED BY <1>1, <1>2, FS_EmptySet DEF ObservedInv, AreRows

LEMMA ObservedStep == ObservedInv /\ [Next]_vars => ObservedInv'
<1> SUFFICES ASSUME ObservedInv, [Next]_vars PROVE ObservedInv' OBVIOUS
<1>1. CASE \E t \in Times, row \in Rows : SaveObservation(t, row)
  <2>1. PICK t \in Times, row \in Rows : SaveObservation(t, row) BY <1>1
  <2>2. /\ policy' = policy
        /\ observations' = [u \in DOMAIN observations \union {t} |->
                              IF u = t THEN row ELSE observations[u]]
    BY <2>1 DEF SaveObservation
  <2>3. IsRow(row) /\ t \in Nat
    BY InputAssumption DEF IsRow
  <2>4. /\ IsFiniteSet(DOMAIN observations) /\ DOMAIN observations \subseteq Nat
        /\ \A u \in DOMAIN observations : IsRow(observations[u])
    BY DEF ObservedInv, AreRows
  <2>5. DOMAIN observations' = DOMAIN observations \union {t} BY <2>2
  <2>6. IsFiniteSet(DOMAIN observations') BY <2>4, <2>5, FS_AddElement
  <2>7. \A u \in DOMAIN observations' : IsRow(observations'[u])
    <3> SUFFICES ASSUME NEW u \in DOMAIN observations' PROVE IsRow(observations'[u]) OBVIOUS
    <3>1. observations'[u] = IF u = t THEN row ELSE observations[u] BY <2>2, <2>5
    <3> QED BY <2>3, <2>4, <2>5, <3>1
  <2>8. DOMAIN observations' \subseteq Nat BY <2>3, <2>4, <2>5
  <2>9. AreRows(observations)' BY <2>6, <2>7, <2>8 DEF AreRows
  <2> QED BY <2>2, <2>9 DEF ObservedInv
<1>2. CASE UNCHANGED << policy, observations >> BY <1>2 DEF ObservedInv
<1>3. CASE RunStep \/ RunTimer \/ RunCancelled
  BY <1>2, <1>3 DEF RunStep, RunTimer, RunCancelled, RunFrame
<1>4. CASE \E s \in Services, found \in SUBSET Traces : QueryService(s, found)
  BY <1>2, <1>4 DEF QueryService
<1>5. CASE QueryFails BY <1>2, <1>5 DEF QueryFails
<1>6. CASE UNCHANGED vars BY <1>2, <1>6 DEF vars
<1> QED BY <1>1, <1>3, <1>4, <1>5, <1>6 DEF Next

LEMMA ObservedVerdicts ==
  ObservedInv => AreRows(observations) /\ IsPolicy(policy) /\ AreVerdicts(observations, policy)
<1> SUFFICES ASSUME ObservedInv
             PROVE  AreRows(observations) /\ IsPolicy(policy) /\ AreVerdicts(observations, policy)
  OBVIOUS
<1>1. AreRows(observations) BY DEF ObservedInv
<1>2. IsPolicy(policy) BY InputAssumption DEF ObservedInv, IsPolicy
<1> QED BY <1>1, <1>2, VerdictsOfAnalyze

\* The averages of the tiers hide no breach, and add none but by the rounding of an
\* average that is the limit itself, for any number of rows and every policy
\* (internal/capacity/analyzer.go:108).
THEOREM SustainableIsClean == Spec => []SustainableRateIsClean
<1>1. ObservedInv => SustainableRateIsClean
  <2> SUFFICES ASSUME ObservedInv PROVE SustainableRateIsClean OBVIOUS
  <2> DEFINE rate == MaximumSustainableRate(observations, policy)
             clean(r) == \A t \in At(observations, r) : ~isSlaBreached(observations[t], policy)
  <2>1. Rates(observations) \in SUBSET (Nat \ {0}) BY ObservedVerdicts, RatesAreFinite
  <2>2. /\ rate \in Rates(observations) \union {0}
        /\ rate > 0 => Clean(observations, policy, rate)
        /\ \A r \in Rates(observations) :
             Clean(observations, policy, r) => r <= rate \/ AtLimit(observations, policy, r)
    BY ObservedVerdicts DEF AreVerdicts
  <2>3. \A r : Clean(observations, policy, r) <=> clean(r) BY DEF Clean
  <2> HIDE DEF rate, clean
  <2>4. rate > 0 => rate \in Rates(observations) /\ clean(rate) BY <2>2, <2>3
  <2>5. \A r \in Rates(observations) :
          r > rate => ~clean(r) \/ AtLimit(observations, policy, r)
    BY <2>1, <2>2, <2>3
  <2> QED BY <2>4, <2>5 DEF SustainableRateIsClean, rate, clean
<1> QED BY <1>1, ObservedInit, ObservedStep, PTL DEF Spec

\* The boundary is the lowest rate that breached, or the highest one tested, or one
\* at a limit below both, for any number of rows and every policy
\* (internal/capacity/analyzer.go:123).
THEOREM BoundaryIsLowest == Spec => []BoundaryIsLowestBreach
<1>1. ObservedInv => BoundaryIsLowestBreach
  <2> SUFFICES ASSUME ObservedInv PROVE BoundaryIsLowestBreach OBVIOUS
  <2> DEFINE tested == MaximumTestedRate(observations)
             boundary == SafetyBoundaryRate(observations, policy)
             breached == { t \in DOMAIN observations : isSlaBreached(observations[t], policy)
                                                         /\ Rate(observations[t]) > 0 }
             unclean == { r \in Rates(observations) : ~Clean(observations, policy, r) }
             limits == { r \in Rates(observations) : AtLimit(observations, policy, r) }
  <2>1. Rates(observations) \in SUBSET (Nat \ {0}) BY ObservedVerdicts, RatesAreFinite
  <2>2. \/ unclean = {} /\ boundary = tested
        \/ boundary \in unclean \union limits /\ \A r \in unclean : boundary <= r
    BY ObservedVerdicts DEF AreVerdicts
  <2>3. \A r \in unclean : \E t \in breached : r = Rate(observations[t])
    BY <2>1 DEF Clean, At
  <2>4. \A t \in breached : Rate(observations[t]) \in unclean
    BY DEF Clean, At, Rates
  <2> HIDE DEF breached, unclean, limits, boundary
  <2>5. \A t \in breached : boundary <= Rate(observations[t]) BY <2>2, <2>4
  <2>6. \/ \E t \in breached : boundary = Rate(observations[t])
        \/ breached = {} /\ boundary = tested
        \/ boundary \in limits
    BY <2>2, <2>3, <2>4
  <2> QED BY <2>5, <2>6 DEF BoundaryIsLowestBreach, breached, limits, boundary
<1> QED BY <1>1, ObservedInit, ObservedStep, PTL DEF Spec

\* A metric of a row is at most its peak.
LEMMA PeakBounds ==
  ASSUME NEW obs, AreRows(obs), NEW t \in DOMAIN obs
  PROVE  obs[t].p95 <= Peak(obs, "p95") /\ obs[t].error <= Peak(obs, "error")
         /\ Peak(obs, "p95") \in Nat /\ Peak(obs, "error") \in Nat
<1>1. /\ IsFiniteSet(DOMAIN obs)
      /\ \A u \in DOMAIN obs : obs[u].p95 \in Nat /\ obs[u].error \in Nat
  BY DEF AreRows, IsRow
<1>2. ASSUME NEW f, f \in { "p95", "error" }
      PROVE  Peak(obs, f) \in Nat /\ obs[t][f] <= Peak(obs, f)
  <2> DEFINE S == { obs[u][f] : u \in DOMAIN obs }
             T == {0} \union S
             g == [u \in DOMAIN obs |-> obs[u][f]]
  <2>1. \A u \in DOMAIN obs : obs[u][f] \in Nat
    <3>1. CASE f = "p95" BY <1>1, <3>1
    <3>2. CASE f = "error" BY <1>1, <3>2
    <3> QED BY <1>2, <3>1, <3>2
  <2>2. g \in Surjection(DOMAIN obs, S) BY DEF Surjection
  <2>3. S \subseteq Nat /\ obs[t][f] \in S BY <2>1
  <2> HIDE DEF S, g
  <2>4. IsFiniteSet(S) BY <1>1, <2>2, FS_Surjection
  <2>5. IsFiniteSet(S \union {0}) BY <2>4, FS_AddElement
  <2>6. T = S \union {0} BY DEF T
  <2>7. IsFiniteSet(T) BY <2>5, <2>6
  <2>8. T \in SUBSET Nat /\ T # {} /\ obs[t][f] \in T BY <2>3
  <2>9. Peak(obs, f) = Max(T) BY DEF Peak, S
  <2> HIDE DEF T
  <2>10. Max(T) \in T /\ \A n \in T : n <= Max(T) BY <2>7, <2>8, FiniteMax
  <2> QED BY <2>8, <2>9, <2>10
<1>3. obs[t]["p95"] = obs[t].p95 /\ obs[t]["error"] = obs[t].error OBVIOUS
<1> QED BY <1>2, <1>3

\* Who is recommended nothing sustained every rate, up to the planned one, and its
\* rows are within the limits of latency and errors.
LEMMA NormalAdvice ==
  ASSUME NEW config, config.maxRate \in Nat, NEW p, IsPolicy(p), NEW obs, AreRows(obs),
         NEW result, result.tested \in Nat, result.sustainable \in 0 .. result.tested,
         NEW matched,
         generateRecommendations(config, p, result, matched, obs) = { "normal" }
  PROVE  /\ result.sustainable = result.tested /\ result.sustainable >= config.maxRate
         /\ result.boundary \notin 1 .. (result.tested - 1)
         /\ \A t \in DOMAIN obs : /\ p.maxP95 > 0 => obs[t].p95 <= p.maxP95
                                  /\ p.maxError > 0 => obs[t].error <= p.maxError
<1> DEFINE throughput == ThroughputAdvice(config, result)
           boundary == IF result.boundary \in 1 .. (result.tested - 1) THEN { "boundary" } ELSE {}
           peak == PeakAdvice(p, obs)
           advice == UNION { CriticalityAdvice(matched), throughput,
                             IF result.degradation > 0 THEN { "knee" } ELSE {},
                             boundary, RecoveryAdvice(config, result), peak }
<1>1. (IF advice = {} THEN { "normal" } ELSE advice) = { "normal" }
  BY DEF generateRecommendations
<1>2. throughput \subseteq advice /\ boundary \subseteq advice /\ peak \subseteq advice
  <2> HIDE DEF throughput, boundary, peak
  <2> QED OBVIOUS
<1>3. ASSUME NEW a \in advice PROVE a # "normal"
  <2>1. CriticalityAdvice(matched) \subseteq { "critical", "high", "single point of failure" }
    BY DEF CriticalityAdvice
  <2>2. throughput \subseteq { "nothing sustained", "below the peak", "below the plan" }
    <3>1. CASE result.sustainable = 0 /\ result.tested > 0 BY <3>1 DEF ThroughputAdvice
    <3>2. CASE result.sustainable \in 1 .. (result.tested - 1) BY <3>2 DEF ThroughputAdvice
    <3>3. CASE /\ ~(result.sustainable = 0 /\ result.tested > 0)
               /\ result.sustainable \notin 1 .. (result.tested - 1)
      BY <3>3 DEF ThroughputAdvice
    <3> QED BY <3>1, <3>2, <3>3
  <2>3. RecoveryAdvice(config, result) \subseteq { "recovery too long", "recovery stabilized" }
    BY DEF RecoveryAdvice
  <2>4. peak \subseteq { "errorBreach", "errorHigh", "p95Breach", "cpuHigh", "memoryHigh" }
    BY DEF PeakAdvice
  <2> HIDE DEF throughput, peak
  <2> QED BY <1>3, <2>1, <2>2, <2>3, <2>4
<1>4. advice = {}
  <2> HIDE DEF advice
  <2> QED BY <1>1, <1>3
<1>5. throughput = {} /\ boundary = {} /\ peak = {}
  <2> HIDE DEF advice, throughput, boundary, peak
  <2> QED BY <1>2, <1>4
<1>6. result.sustainable = result.tested /\ result.sustainable >= config.maxRate
  <2>1. ~(result.sustainable = 0 /\ result.tested > 0)
    <3> SUFFICES ASSUME result.sustainable = 0 /\ result.tested > 0 PROVE FALSE OBVIOUS
    <3>1. "nothing sustained" \in throughput BY DEF ThroughputAdvice
    <3> QED BY <1>5, <3>1
  <2>2. result.sustainable \notin 1 .. (result.tested - 1)
    <3> SUFFICES ASSUME result.sustainable \in 1 .. (result.tested - 1) PROVE FALSE OBVIOUS
    <3>1. "below the peak" \in throughput BY <2>1 DEF ThroughputAdvice
    <3> QED BY <1>5, <3>1
  <2>3. ~(result.sustainable = result.tested /\ result.sustainable < config.maxRate)
    <3> SUFFICES ASSUME result.sustainable = result.tested,
                        result.sustainable < config.maxRate
                 PROVE FALSE
      OBVIOUS
    <3>1. "below the plan" \in throughput BY <2>1, <2>2 DEF ThroughputAdvice
    <3> QED BY <1>5, <3>1
  <2> QED BY <2>1, <2>2, <2>3
<1>7. result.boundary \notin 1 .. (result.tested - 1) BY <1>5
<1>8. ASSUME NEW t \in DOMAIN obs
      PROVE  /\ p.maxP95 > 0 => obs[t].p95 <= p.maxP95
             /\ p.maxError > 0 => obs[t].error <= p.maxError
  <2>1. "errorBreach" \notin peak /\ "p95Breach" \notin peak BY <1>5
  <2>2. ~(p.maxError > 0 /\ Peak(obs, "error") > p.maxError) BY <2>1 DEF PeakAdvice
  <2>3. ~(p.maxP95 > 0 /\ Peak(obs, "p95") > p.maxP95) BY <2>1 DEF PeakAdvice
  <2>4. /\ obs[t].p95 <= Peak(obs, "p95") /\ obs[t].error <= Peak(obs, "error")
        /\ Peak(obs, "p95") \in Nat /\ Peak(obs, "error") \in Nat
    BY PeakBounds
  <2>5. obs[t].p95 \in Nat /\ obs[t].error \in Nat /\ p.maxP95 \in Nat /\ p.maxError \in Nat
    BY DEF AreRows, IsRow, IsPolicy
  <2> QED BY <2>2, <2>3, <2>4, <2>5
<1> QED BY <1>6, <1>7, <1>8

\* A report hides no breach, for any number of rows and every policy
\* (internal/report/generator.go:387).
THEOREM ReportIsHonest == Spec => []ReportHidesNoBreach
<1>1. ObservedInv => ReportHidesNoBreach
  <2> SUFFICES ASSUME ObservedInv, NEW matched \in Scores
               PROVE  LET report   == Generate(Config, policy, matched, observations)
                          breached == { t \in DOMAIN observations :
                                          isSlaBreached(observations[t], policy) }
                          loaded   == { t \in breached : Rate(observations[t]) > 0 }
                      IN  /\ report.recommendations = { "normal" } =>
                               /\ loaded = {} /\ report.result.sustainable >= Config.maxRate
                               /\ \A t \in breached : observations[t].avail < policy.minAvail
                          /\ loaded # {} => "Breach" \in report.markers
                          /\ "Breach" \in report.markers =>
                               \/ loaded # {}
                               \/ \E r \in Rates(observations) : AtLimit(observations, policy, r)
                          /\ \A t \in loaded : report.badge[t] = "SLA Breach"
    BY DEF ReportHidesNoBreach
  <2> DEFINE report   == Generate(Config, policy, matched, observations)
             breached == { t \in DOMAIN observations : isSlaBreached(observations[t], policy) }
             loaded   == { t \in breached : Rate(observations[t]) > 0 }
             result   == Analyze(observations, policy)
             rates    == Rates(observations)
             unclean  == { r \in rates : ~Clean(observations, policy, r) }
             limits   == { r \in rates : AtLimit(observations, policy, r) }
  <2>1. /\ report.result = result /\ report.markers = Markers(result, observations)
        /\ report.badge = [t \in DOMAIN observations |-> statusBadge(observations[t], result)]
        /\ report.recommendations
             = generateRecommendations(Config, policy, result, matched, observations)
    BY DEF Generate
  <2>2. /\ result.tested = MaximumTestedRate(observations)
        /\ result.sustainable = MaximumSustainableRate(observations, policy)
        /\ result.boundary = SafetyBoundaryRate(observations, policy)
    BY DEF Analyze
  <2> HIDE DEF report, result
  <2>3. rates \in SUBSET (Nat \ {0}) /\ IsFiniteSet(rates) BY ObservedVerdicts, RatesAreFinite
  <2>4. AreRows(observations) /\ IsPolicy(policy) BY ObservedVerdicts
  <2>5. /\ result.tested \in rates \union {0} /\ \A r \in rates : r <= result.tested
        /\ result.sustainable \in rates \union {0}
        /\ result.sustainable \notin unclean
        /\ \/ unclean = {} /\ result.boundary = result.sustainable
           \/ /\ result.boundary \in unclean \union limits
              /\ result.boundary # result.sustainable
              /\ \A r \in unclean : result.boundary <= r
    BY <2>2, <2>3, ObservedVerdicts DEF AreVerdicts
  <2>6. \A r \in unclean : \E t \in loaded : r = Rate(observations[t])
    BY <2>3 DEF Clean, At
  <2>7. \A t \in loaded : Rate(observations[t]) \in unclean
    BY DEF Clean, At, Rates
  <2>8. unclean \subseteq rates /\ limits \subseteq rates OBVIOUS
  <2>9. loaded \subseteq breached /\ breached \subseteq DOMAIN observations
    OBVIOUS
  <2>10. \A t \in breached : isSlaBreached(observations[t], policy) OBVIOUS
  <2> HIDE DEF loaded, unclean, limits, rates, breached
  <2>11. /\ result.tested \in Nat /\ result.sustainable \in 0 .. result.tested
         /\ result.sustainable \in Nat
    <3>1. result.tested \in Nat /\ result.sustainable \in Nat
      <4>1. rates \union {0} \subseteq Nat BY <2>3
      <4>2. result.tested \in rates \union {0} /\ result.sustainable \in rates \union {0} BY <2>5
      <4> QED BY <4>1, <4>2
    <3>2. result.sustainable <= result.tested BY <2>5, <3>1
    <3> QED BY <3>1, <3>2
  <2>12. ASSUME report.recommendations = { "normal" }
         PROVE  /\ loaded = {} /\ report.result.sustainable >= Config.maxRate
                /\ \A t \in breached : observations[t].avail < policy.minAvail
    <3>1. generateRecommendations(Config, policy, result, matched, observations) = { "normal" }
      BY <2>1, <2>12
    <3>2. Config.maxRate \in Nat BY InputAssumption
    <3>3. /\ result.sustainable = result.tested /\ result.sustainable >= Config.maxRate
          /\ result.boundary \notin 1 .. (result.tested - 1)
          /\ \A t \in DOMAIN observations :
               /\ policy.maxP95 > 0 => observations[t].p95 <= policy.maxP95
               /\ policy.maxError > 0 => observations[t].error <= policy.maxError
      BY <2>4, <2>11, <3>1, <3>2, NormalAdvice
    <3>4. unclean = {}
      <4> SUFFICES ASSUME unclean # {} PROVE FALSE OBVIOUS
      <4>1. result.boundary \in rates /\ result.boundary # result.sustainable BY <2>5, <2>8
      <4>2. result.boundary \in Nat \ {0} /\ result.boundary <= result.tested
        BY <2>3, <2>5, <4>1
      <4>3. result.boundary = result.sustainable BY <2>11, <3>3, <4>2
      <4> QED BY <4>1, <4>3
    <3>5. loaded = {} BY <2>7, <3>4
    <3>6. ASSUME NEW t \in breached PROVE observations[t].avail < policy.minAvail
      <4>1. t \in DOMAIN observations /\ isSlaBreached(observations[t], policy)
        BY <2>9, <2>10
      <4>2. IsRow(observations[t]) BY <2>4, <4>1 DEF AreRows
      <4>3. /\ observations[t].p95 \in Nat /\ observations[t].error \in Nat
            /\ observations[t].avail \in Nat
        BY <4>2 DEF IsRow
      <4>4. policy.maxP95 \in Nat /\ policy.maxError \in Nat /\ policy.minAvail \in Nat
        BY <2>4 DEF IsPolicy
      <4> QED BY <3>3, <4>1, <4>3, <4>4 DEF isSlaBreached
    <3> QED BY <2>1, <3>3, <3>5, <3>6
  <2>13. /\ loaded # {} => "Breach" \in report.markers
         /\ "Breach" \in report.markers => loaded # {} \/ limits # {}
    <3> DEFINE top == maxRate(result, observations)
    <3>1. "Breach" \in report.markers <=>
            rates # {} /\ result.boundary \in (1 .. top) \ { result.sustainable }
      BY <2>1 DEF Markers, rates
    <3>2. top \in Nat /\ \A r \in rates : r <= top
      <4> DEFINE T == rates \union { result.tested }
      <4>1. IsFiniteSet(T) BY <2>3, FS_AddElement
      <4>2. T \in SUBSET Nat /\ T # {} BY <2>3, <2>11
      <4>3. top = Max(T) BY DEF maxRate, rates
      <4>4. rates \subseteq T OBVIOUS
      <4> HIDE DEF T, top
      <4>5. Max(T) \in T /\ \A n \in T : n <= Max(T) BY <4>1, <4>2, FiniteMax
      <4> QED BY <4>2, <4>3, <4>4, <4>5
    <3> HIDE DEF top
    <3>3. ASSUME loaded # {}
          PROVE  rates # {} /\ result.boundary \in (1 .. top) \ { result.sustainable }
      <4>1. unclean # {} BY <2>7, <3>3
      <4>3. result.boundary \in rates /\ result.boundary # result.sustainable
        BY <2>5, <2>8, <4>1
      <4>4. result.boundary \in Nat \ {0} BY <2>3, <4>3
      <4> QED BY <3>2, <4>3, <4>4
    <3>4. ASSUME loaded = {}, limits = {} PROVE result.boundary = result.sustainable
      <4>1. unclean = {} BY <2>6, <3>4
      <4> QED BY <2>5, <3>4, <4>1
    <3> QED BY <3>1, <3>3, <3>4
  <2>14. ASSUME NEW t \in loaded PROVE report.badge[t] = "SLA Breach"
    <3> DEFINE o == observations[t]
    <3>1. t \in DOMAIN observations BY <2>9
    <3>2. report.badge[t] = statusBadge(o, result) BY <2>1, <3>1
    <3>3. Rate(o) \in unclean BY <2>7
    <3> HIDE DEF o
    <3>4. result.boundary \in rates /\ result.boundary <= Rate(o) BY <2>5, <2>8, <3>3
    <3>5. Rate(o) \in Nat \ {0} /\ result.boundary \in Nat \ {0} BY <2>3, <2>8, <3>3, <3>4
    <3>6. Rate(o) # 0 /\ Rate(o) > 0 /\ result.boundary \in 1 .. Rate(o) BY <3>4, <3>5
    <3>7. statusBadge(o, result) = "SLA Breach" BY <3>6 DEF statusBadge
    <3> QED BY <3>2, <3>7
  <2> QED BY <2>12, <2>13, <2>14 DEF report, breached, loaded, limits, rates
<1> QED BY <1>1, ObservedInit, ObservedStep, PTL DEF Spec

\* The recovery time of the analyzer and the recovery time objective agree, for any
\* number of rows and every tolerance (internal/capacity/metrics.go:82).
THEOREM RecoveryIsObjective == Spec => []RecoveryAgreesWithRTO
<1>1. ObservedInv => RecoveryAgreesWithRTO
  <2> DEFINE obs == observations
             baseline == ExtractPreTestBaseline(obs)
             rto == CalculateRTO(obs, Tolerance)
             scaled == [t \in DOMAIN obs |-> [obs[t] EXCEPT !.p95 = 100 * @ * baseline.count]]
             limit == baseline.total * (100 + Tolerance)
             p == [ maxP95 |-> limit, maxError |-> 0, minAvail |-> 0 ]
             zero == zeroLoadObs(obs)
             good == { t \in zero : WithinThreshold(obs[t], baseline, Tolerance) }
             time == Round((IF good # {} THEN Min(good) ELSE Max(zero)) - Min(zero))
  <2> SUFFICES ASSUME ObservedInv, rto.ok PROVE calculateRecoveryTime(scaled, p) = rto.seconds
    BY DEF RecoveryAgreesWithRTO
  <2>1. AreRows(obs) BY DEF ObservedInv
  <2>0. postStressObs(obs) = zero BY DEF postStressObs, zeroLoadObs
  <2>2. baseline.total # 0 /\ zero # {} /\ rto.seconds = time BY <2>0 DEF CalculateRTO
  <2>3. baseline.total \in Nat /\ baseline.count \in Nat
    <3> DEFINE before == preStressObs(obs)
               p95s == [t \in before |-> obs[t].p95]
    <3>1. before \subseteq DOMAIN obs BY DEF preStressObs
    <3>2. IsFiniteSet(before) /\ \A t \in before : obs[t].p95 \in Nat
      <4> HIDE DEF before
      <4>1. IsFiniteSet(before) BY <2>1, <3>1, FS_Subset DEF AreRows
      <4> QED BY <2>1, <3>1, <4>1 DEF AreRows, IsRow
    <3>3. baseline.total = SumFunctionOnSet(p95s, before) /\ baseline.count = Cardinality(before)
      BY DEF ExtractPreTestBaseline
    <3> HIDE DEF before
    <3>4. p95s \in [before -> Nat] BY <3>2
    <3> HIDE DEF p95s
    <3>5. SumFunctionOnSet(p95s, before) \in Nat
      <4>1. 0 \in Nat OBVIOUS
      <4> QED BY <3>2, <3>4, <4>1, SumBound
    <3> QED BY <3>2, <3>3, <3>5, FS_CardinalityType
  <2>4. limit \in Nat /\ limit > 0
    <3>1. Tolerance \in Nat BY InputAssumption
    <3> DEFINE n == baseline.total
               m == 100 + Tolerance
    <3>2. n \in Nat \ {0} /\ m \in Nat \ {0} BY <2>2, <2>3, <3>1
    <3> HIDE DEF n, m
    <3>3. n * m \in Nat /\ n * m > 0 BY <3>2
    <3> QED BY <3>3 DEF n, m
  <2>5. DOMAIN scaled = DOMAIN obs OBVIOUS
  <2>6. \A t \in DOMAIN obs : /\ scaled[t].load = obs[t].load
                              /\ scaled[t].p95 = 100 * obs[t].p95 * baseline.count
    <3>1. \A t \in DOMAIN obs : scaled[t] = [obs[t] EXCEPT !.p95 = 100 * @ * baseline.count]
      OBVIOUS
    <3> SUFFICES ASSUME NEW t \in DOMAIN obs
                 PROVE  /\ scaled[t].load = obs[t].load
                        /\ scaled[t].p95 = 100 * obs[t].p95 * baseline.count
      OBVIOUS
    <3>2. IsRow(obs[t]) BY <2>1 DEF AreRows
    <3> HIDE DEF scaled, baseline
    <3> QED BY <3>1, <3>2 DEF IsRow
  <2> HIDE DEF scaled, baseline
  <2>7. Stressed(scaled) = Stressed(obs) BY <2>5, <2>6 DEF Stressed
  <2>8. zeroLoadObs(scaled) = zero BY <2>5, <2>6, <2>7 DEF zeroLoadObs
  <2>9. zero \subseteq DOMAIN obs BY DEF zeroLoadObs
  <2>10. ASSUME NEW t \in zero
         PROVE  ~isSlaBreached(scaled[t], p) <=> WithinThreshold(obs[t], baseline, Tolerance)
    <3>1. t \in DOMAIN obs BY <2>9
    <3>2. obs[t].p95 \in Nat BY <2>1, <3>1 DEF AreRows, IsRow
    <3> DEFINE x == 100 * obs[t].p95 * baseline.count
    <3>3. x \in Int
      <4> DEFINE l == obs[t].p95
                 c == baseline.count
      <4>1. l \in Nat /\ c \in Nat BY <2>3, <3>2
      <4> HIDE DEF l, c
      <4>2. 100 * l * c \in Int BY <4>1
      <4> QED BY <4>2 DEF l, c
    <3>4. scaled[t].p95 = x BY <2>6, <3>1
    <3>5. WithinThreshold(obs[t], baseline, Tolerance) <=> x <= limit BY DEF WithinThreshold
    <3>6. p.maxP95 = limit /\ ~(p.maxError > 0) /\ ~(p.minAvail > 0) OBVIOUS
    <3> HIDE DEF x, limit, p
    <3>7. isSlaBreached(scaled[t], p) <=> x > limit BY <2>4, <3>4, <3>6 DEF isSlaBreached
    <3> QED BY <2>4, <3>3, <3>5, <3>7
  <2> HIDE DEF zero, limit, p
  <2>11. { t \in zero : ~isSlaBreached(scaled[t], p) } = good BY <2>10
  <2>12. calculateRecoveryTime(scaled, p) = time
    BY <2>2, <2>8, <2>11 DEF calculateRecoveryTime
  <2> QED BY <2>2, <2>12
<1> QED BY <1>1, ObservedInit, ObservedStep, PTL DEF Spec
-----------------------------------------------------------------------------
(* The search for the services that calls lead to.                         *)

IsGraph(g) == g \in [ node : SUBSET Services, calls : [ Services \X Services -> Nat ] ]

LEMMA GraphIsFinite ==
  ASSUME NEW g, IsGraph(g) PROVE IsFiniteSet(g.node) /\ Cardinality(g.node) \in Nat
<1>1. g.node \subseteq Services BY DEF IsGraph
<1>2. IsFiniteSet(g.node) BY <1>1, ServiceAssumption, FS_Subset
<1> QED BY <1>2, FS_CardinalityType

\* The services visited and the level reached, N levels far.
AreLevels(g, roots, exclude, visited, level) ==
  LET N == Cardinality(g.node)
  IN  /\ visited[0] = roots \ exclude /\ level[0] = roots \ exclude
      /\ \A k \in 0 .. N : visited[k] \in SUBSET g.node /\ level[k] \in SUBSET g.node
      /\ \A k \in 0 .. (N - 1) :
           /\ \A w : w \in level[k + 1] <=> /\ \E v \in level[k] : w \in Callees(g, v)
                                          /\ w \notin exclude /\ w \notin visited[k]
           /\ visited[k + 1] = visited[k] \union level[k + 1]

LEMMA LevelsOfSearch ==
  ASSUME NEW g, IsGraph(g), NEW roots \in SUBSET g.node, NEW exclude
  PROVE  /\ \E visited : AreLevels(g, roots, exclude, visited, Levels(g, roots, exclude))
         /\ DOMAIN Levels(g, roots, exclude) = 0 .. Cardinality(g.node)
         /\ getReachableNodes(g, roots, exclude)
              = { v \in g.node : \E k \in 0 .. Cardinality(g.node) :
                                   v \in Levels(g, roots, exclude)[k] }
<1> DEFINE N == Cardinality(g.node)
           V == [ visited : SUBSET g.node, level : SUBSET g.node ]
           first == [ visited |-> roots \ exclude, level |-> roots \ exclude ]
           body(s) == [ visited |-> s.visited \union NextLevel(g, exclude, s),
                        level |-> NextLevel(g, exclude, s) ]
           at(f, k) == IF k = 0 THEN first ELSE body(f[k - 1])
           Eq(f) == f = [k \in 0 .. N |-> at(f, k)]
           search == CHOOSE f : Eq(f)
           step == [s \in V |-> body(s)]
<1>1. N \in Nat BY GraphIsFinite
<1>2. Search(g, roots, exclude) = search BY DEF Search
<1>3. first \in V OBVIOUS
<1>4. \A s \in V : body(s) \in V
  <2> SUFFICES ASSUME NEW s \in V PROVE body(s) \in V OBVIOUS
  <2>1. NextLevel(g, exclude, s) \in SUBSET g.node BY DEF NextLevel, Callees
  <2> QED BY <2>1
<1> HIDE DEF first, body, V, N
<1>5. PICK f \in [0 .. N -> V] : Repeats(f, first, step, N)
  <2>1. step \in [V -> V] BY <1>4
  <2> HIDE DEF step
  <2> QED BY <1>1, <1>3, <2>1, Iterate
<1>6. Eq(f)
  <2>1. \A k \in 0 .. N : f[k] = at(f, k)
    <3> SUFFICES ASSUME NEW k \in 0 .. N PROVE f[k] = at(f, k) OBVIOUS
    <3>1. CASE k = 0 BY <1>5, <3>1 DEF Repeats
    <3>2. CASE k # 0
      <4>1. k \in 1 .. N /\ k - 1 \in 0 .. N BY <1>1, <3>2
      <4>2. f[k] = step[f[k - 1]] BY <1>5, <4>1 DEF Repeats
      <4>3. f[k - 1] \in V BY <1>5, <4>1
      <4> QED BY <3>2, <4>2, <4>3
    <3> QED BY <3>1, <3>2
  <2> HIDE DEF at
  <2> QED BY <1>5, <2>1
<1>7. Eq(search)
  <2> HIDE DEF Eq
  <2> QED BY <1>6
<1> HIDE DEF search
<1>8. \A k \in 0 .. N : search[k] = at(search, k)
  <2> HIDE DEF at
  <2> QED BY <1>7
<1>9. search[0] = first /\ \A k \in 0 .. (N - 1) : search[k + 1] = body(search[k])
  <2>1. 0 \in 0 .. N BY <1>1
  <2>2. ASSUME NEW k \in 0 .. (N - 1) PROVE search[k + 1] = body(search[k])
    <3>1. k + 1 \in 0 .. N /\ k + 1 # 0 /\ (k + 1) - 1 = k BY <1>1
    <3> QED BY <1>8, <3>1
  <2> QED BY <1>8, <2>1, <2>2
<1>10. \A k \in 0 .. N : search[k] \in V
  <2> DEFINE P == { n \in Nat : n \in 0 .. N => search[n] \in V }
  <2>1. 0 \in P BY <1>3, <1>9
  <2>2. ASSUME NEW n \in Nat, n \in P PROVE n + 1 \in P
    <3> SUFFICES ASSUME n + 1 \in 0 .. N PROVE search[n + 1] \in V OBVIOUS
    <3>1. n \in 0 .. (N - 1) /\ n \in 0 .. N BY <1>1
    <3>2. search[n] \in V BY <2>2, <3>1
    <3> QED BY <1>4, <1>9, <3>1, <3>2
  <2> HIDE DEF P
  <2>3. Nat \subseteq P BY <2>1, <2>2, NatInduct
  <2> QED BY <2>3 DEF P
<1> DEFINE visited == [k \in 0 .. N |-> search[k].visited]
           level == [k \in 0 .. N |-> search[k].level]
<1>11. Levels(g, roots, exclude) = level BY <1>2 DEF Levels, N
<1>12. AreLevels(g, roots, exclude, visited, level)
  <2>1. 0 \in 0 .. N BY <1>1
  <2>2. visited[0] = roots \ exclude /\ level[0] = roots \ exclude BY <1>9, <2>1 DEF first
  <2>3. \A k \in 0 .. N : visited[k] \in SUBSET g.node /\ level[k] \in SUBSET g.node
    BY <1>10 DEF V
  <2>4. ASSUME NEW k \in 0 .. (N - 1)
        PROVE  /\ \A w : w \in level[k + 1] <=> /\ \E v \in level[k] : w \in Callees(g, v)
                                              /\ w \notin exclude /\ w \notin visited[k]
               /\ visited[k + 1] = visited[k] \union level[k + 1]
    <3>1. k \in 0 .. N /\ k + 1 \in 0 .. N BY <1>1
    <3>2. search[k + 1] = body(search[k]) BY <1>9
    <3>3. /\ level[k + 1] = NextLevel(g, exclude, search[k])
          /\ visited[k + 1] = search[k].visited \union NextLevel(g, exclude, search[k])
      BY <3>1, <3>2 DEF body
    <3>4. \A w : w \in NextLevel(g, exclude, search[k])
                   <=> /\ \E v \in search[k].level : w \in Callees(g, v)
                       /\ w \notin exclude /\ w \notin search[k].visited
      <4> DEFINE s == search[k]
                 called == UNION { Callees(g, v) : v \in s.level }
      <4> HIDE DEF s
      <4>1. NextLevel(g, exclude, s) = called \ (exclude \union s.visited) BY DEF NextLevel
      <4>2. ASSUME NEW w PROVE w \in called <=> \E v \in s.level : w \in Callees(g, v)
        OBVIOUS
      <4> HIDE DEF called
      <4>3. ASSUME NEW w
            PROVE  w \in NextLevel(g, exclude, s)
                     <=> w \in called /\ w \notin exclude /\ w \notin s.visited
        BY <4>1
      <4> QED BY <4>2, <4>3 DEF s
    <3>5. level[k] = search[k].level /\ visited[k] = search[k].visited BY <3>1
    <3> HIDE DEF level, visited
    <3> QED BY <3>3, <3>4, <3>5
  <2> HIDE DEF level, visited
  <2> QED BY <2>2, <2>3, <2>4 DEF AreLevels, N
<1>13. DOMAIN level = 0 .. N OBVIOUS
<1>14. getReachableNodes(g, roots, exclude) = UNION { level[k] : k \in 0 .. N }
  BY <1>11, <1>13 DEF getReachableNodes
<1>15. \A k \in 0 .. N : level[k] \subseteq g.node BY <1>10 DEF V
<1> HIDE DEF level, visited
<1>16. UNION { level[k] : k \in 0 .. N }
         = { v \in g.node : \E k \in 0 .. N : v \in level[k] }
  BY <1>15
<1> QED BY <1>11, <1>12, <1>13, <1>14, <1>16 DEF N

\* What the levels are: a service is in one level at most, behind its first caller,
\* and the last one is empty.
LEMMA LevelsProperties ==
  ASSUME NEW g, IsGraph(g), NEW roots \in SUBSET g.node, NEW exclude,
         NEW visited, NEW level, AreLevels(g, roots, exclude, visited, level)
  PROVE  LET N == Cardinality(g.node)
         IN  /\ level[N] = {}
             /\ \A k \in 0 .. N : /\ level[k] \intersect exclude = {}
                                  /\ \A v : v \in visited[k]
                                              <=> \E j \in 0 .. k : v \in level[j]
             /\ \A k \in 0 .. N : \A j \in 0 .. (k - 1) : level[k] \intersect level[j] = {}
<1> DEFINE N == Cardinality(g.node)
<1>1. N \in Nat /\ IsFiniteSet(g.node) BY GraphIsFinite
<1>2. /\ visited[0] = roots \ exclude /\ level[0] = roots \ exclude
      /\ \A k \in 0 .. N : visited[k] \in SUBSET g.node /\ level[k] \in SUBSET g.node
  BY DEF AreLevels
<1>3. ASSUME NEW k \in 0 .. (N - 1)
      PROVE  /\ \A w : w \in level[k + 1] <=> /\ \E v \in level[k] : w \in Callees(g, v)
                                            /\ w \notin exclude /\ w \notin visited[k]
             /\ visited[k + 1] = visited[k] \union level[k + 1]
  BY DEF AreLevels
<1> HIDE DEF N
<1> DEFINE P == { n \in Nat : n \in 0 .. N =>
                    /\ level[n] \intersect exclude = {}
                    /\ \A v : v \in visited[n] <=> \E j \in 0 .. n : v \in level[j]
                    /\ level[n] # {} => Cardinality(visited[n]) >= n + 1 }
<1>4. 0 \in P
  <2>1. level[0] \intersect exclude = {} BY <1>2
  <2>2. \A v : v \in visited[0] <=> \E j \in 0 .. 0 : v \in level[j] BY <1>2
  <2>3. ASSUME level[0] # {} PROVE Cardinality(visited[0]) >= 0 + 1
    <3>1. visited[0] # {} /\ visited[0] \in SUBSET g.node BY <1>1, <1>2, <2>3
    <3>2. IsFiniteSet(visited[0]) BY <1>1, <3>1, FS_Subset
    <3>3. Cardinality(visited[0]) \in Nat /\ Cardinality(visited[0]) # 0
      BY <3>1, <3>2, FS_CardinalityType, FS_EmptySet
    <3> QED BY <3>3
  <2> QED BY <2>1, <2>2, <2>3
<1>5. ASSUME NEW n \in Nat, n \in P PROVE n + 1 \in P
  <2> SUFFICES ASSUME n + 1 \in 0 .. N
               PROVE  /\ level[n + 1] \intersect exclude = {}
                      /\ \A v : v \in visited[n + 1] <=> \E j \in 0 .. (n + 1) : v \in level[j]
                      /\ level[n + 1] # {} => Cardinality(visited[n + 1]) >= (n + 1) + 1
    OBVIOUS
  <2>1. n \in 0 .. (N - 1) /\ n \in 0 .. N BY <1>1
  <2>2. /\ \A w : w \in level[n + 1] <=> /\ \E v \in level[n] : w \in Callees(g, v)
                                       /\ w \notin exclude /\ w \notin visited[n]
        /\ visited[n + 1] = visited[n] \union level[n + 1]
    BY <1>3, <2>1
  <2>3. /\ \A v : v \in visited[n] <=> \E j \in 0 .. n : v \in level[j]
        /\ level[n] # {} => Cardinality(visited[n]) >= n + 1
    BY <1>5, <2>1
  <2>4. level[n + 1] \intersect exclude = {} /\ level[n + 1] \intersect visited[n] = {}
    BY <2>2
  <2>5. \A v : v \in visited[n + 1] <=> \E j \in 0 .. (n + 1) : v \in level[j]
    <3>1. \A j : j \in 0 .. (n + 1) <=> j \in 0 .. n \/ j = n + 1 OBVIOUS
    <3> QED BY <2>2, <2>3, <3>1
  <2>6. ASSUME level[n + 1] # {} PROVE Cardinality(visited[n + 1]) >= (n + 1) + 1
    <3>1. level[n] # {} BY <2>2, <2>6
    <3>2. visited[n + 1] \in SUBSET g.node BY <1>2
    <3>3. IsFiniteSet(visited[n + 1]) BY <1>1, <3>2, FS_Subset
    <3>4. visited[n] \in SUBSET visited[n + 1] /\ visited[n] # visited[n + 1]
      BY <2>2, <2>4, <2>6
    <3>5. /\ Cardinality(visited[n]) <= Cardinality(visited[n + 1])
          /\ Cardinality(visited[n]) # Cardinality(visited[n + 1])
      BY <3>3, <3>4, FS_Subset
    <3>6. IsFiniteSet(visited[n]) BY <3>3, <3>4, FS_Subset
    <3>7. Cardinality(visited[n]) \in Nat /\ Cardinality(visited[n + 1]) \in Nat
      BY <3>3, <3>6, FS_CardinalityType
    <3> QED BY <2>3, <3>1, <3>5, <3>7
  <2> QED BY <2>4, <2>5, <2>6
<1> HIDE DEF P
<1>6. \A k \in 0 .. N :
        /\ level[k] \intersect exclude = {}
        /\ \A v : v \in visited[k] <=> \E j \in 0 .. k : v \in level[j]
        /\ level[k] # {} => Cardinality(visited[k]) >= k + 1
  <2>1. Nat \subseteq P BY <1>4, <1>5, NatInduct
  <2> SUFFICES ASSUME NEW k \in 0 .. N
               PROVE  /\ level[k] \intersect exclude = {}
                      /\ \A v : v \in visited[k] <=> \E j \in 0 .. k : v \in level[j]
                      /\ level[k] # {} => Cardinality(visited[k]) >= k + 1
    OBVIOUS
  <2>2. k \in P BY <1>1, <2>1
  <2> QED BY <2>2 DEF P
<1>7. level[N] = {}
  <2>1. N \in 0 .. N BY <1>1
  <2>2. visited[N] \in SUBSET g.node BY <1>2, <2>1
  <2>3. Cardinality(visited[N]) <= N /\ IsFiniteSet(visited[N])
    BY <1>1, <2>2, FS_Subset DEF N
  <2>4. Cardinality(visited[N]) \in Nat BY <2>3, FS_CardinalityType
  <2>5. ~(Cardinality(visited[N]) >= N + 1) BY <1>1, <2>3, <2>4
  <2> QED BY <1>6, <2>1, <2>5
<1>8. ASSUME NEW k \in 0 .. N, NEW j \in 0 .. (k - 1) PROVE level[k] \intersect level[j] = {}
  <2>1. k - 1 \in 0 .. (N - 1) /\ k - 1 \in 0 .. N /\ (k - 1) + 1 = k BY <1>1
  <2>2. level[k] \intersect visited[k - 1] = {} BY <1>3, <2>1
  <2>3. level[j] \subseteq visited[k - 1] BY <1>6, <2>1
  <2> QED BY <2>2, <2>3
<1>9. \A k \in 0 .. N : \A j \in 0 .. (k - 1) : level[k] \intersect level[j] = {} BY <1>8
<1> QED BY <1>6, <1>7, <1>9 DEF N

\* The set has the roots and, with a service, all it calls, but for what is excluded.
Closed(g, roots, exclude, T) ==
  /\ roots \ exclude \subseteq T
  /\ \A v \in T : Callees(g, v) \ exclude \subseteq T

\* The services reached are the least such set.
Reached(g, roots, exclude, R) ==
  /\ R \in SUBSET (g.node \ exclude)
  /\ Closed(g, roots, exclude, R)
  /\ \A T : Closed(g, roots, exclude, T) => R \subseteq T

LEMMA ReachableIsLeast ==
  ASSUME NEW g, IsGraph(g), NEW roots \in SUBSET g.node, NEW exclude
  PROVE  Reached(g, roots, exclude, getReachableNodes(g, roots, exclude))
<1> DEFINE N == Cardinality(g.node)
           level == Levels(g, roots, exclude)
           R == getReachableNodes(g, roots, exclude)
<1>1. N \in Nat BY GraphIsFinite
<1>2. /\ R = { v \in g.node : \E k \in 0 .. N : v \in level[k] }
      /\ \E visited : AreLevels(g, roots, exclude, visited, level)
  BY LevelsOfSearch
<1>3. PICK visited : AreLevels(g, roots, exclude, visited, level) BY <1>2
<1> HIDE DEF level, R
<1>4. /\ level[N] = {}
      /\ \A k \in 0 .. N : /\ level[k] \intersect exclude = {}
                           /\ \A v : v \in visited[k] <=> \E j \in 0 .. k : v \in level[j]
  BY <1>3, LevelsProperties
<1>5. /\ level[0] = roots \ exclude
      /\ \A k \in 0 .. N : level[k] \in SUBSET g.node
      /\ \A k \in 0 .. (N - 1) :
           \A w : w \in level[k + 1] <=> /\ \E v \in level[k] : w \in Callees(g, v)
                                       /\ w \notin exclude /\ w \notin visited[k]
  BY <1>3 DEF AreLevels
<1> HIDE DEF N
<1>6. R \in SUBSET (g.node \ exclude) BY <1>2, <1>4
<1>7. roots \ exclude \subseteq R
  <2>1. 0 \in 0 .. N BY <1>1
  <2> QED BY <1>2, <1>5, <2>1
<1>8. ASSUME NEW v \in R, NEW w \in Callees(g, v) \ exclude PROVE w \in R
  <2>1. PICK k \in 0 .. N : v \in level[k] BY <1>2
  <2>2. k \in 0 .. (N - 1) /\ k + 1 \in 0 .. N BY <1>1, <1>4, <2>1
  <2>3. w \in g.node BY <1>8 DEF Callees
  <2>4. CASE w \in visited[k]
    <3>1. PICK j \in 0 .. k : w \in level[j] BY <1>4, <2>1, <2>4
    <3>2. j \in 0 .. N BY <1>1, <2>2
    <3> QED BY <1>2, <2>3, <3>1, <3>2
  <2>5. CASE w \notin visited[k]
    <3>1. w \in level[k + 1] BY <1>5, <1>8, <2>1, <2>2, <2>5
    <3> QED BY <1>2, <2>2, <2>3, <3>1
  <2> QED BY <2>4, <2>5
<1>9. ASSUME NEW T, Closed(g, roots, exclude, T) PROVE R \subseteq T
  <2>0. roots \ exclude \subseteq T /\ \A v \in T : Callees(g, v) \ exclude \subseteq T
    BY <1>9 DEF Closed
  <2> DEFINE P == { n \in Nat : n \in 0 .. N => level[n] \subseteq T }
  <2>1. 0 \in P BY <1>5, <2>0
  <2>2. ASSUME NEW n \in Nat, n \in P PROVE n + 1 \in P
    <3> SUFFICES ASSUME n + 1 \in 0 .. N, NEW w \in level[n + 1] PROVE w \in T OBVIOUS
    <3>1. n \in 0 .. (N - 1) /\ n \in 0 .. N BY <1>1
    <3>2. level[n] \subseteq T BY <2>2, <3>1
    <3>3. w \notin exclude /\ \E v \in level[n] : w \in Callees(g, v) BY <1>5, <3>1
    <3> QED BY <2>0, <3>2, <3>3
  <2> HIDE DEF P
  <2>3. Nat \subseteq P BY <2>1, <2>2, NatInduct
  <2>4. \A k \in 0 .. N : level[k] \subseteq T BY <2>3 DEF P
  <2> QED BY <1>2, <2>4
<1> QED BY <1>6, <1>7, <1>8, <1>9 DEF Reached, Closed, R

\* The services of a graph are known, and it has no call of the empty name, which
\* is the caller of no edge (internal/graph/analyser.go:135).
GraphInv ==
  /\ IsGraph(graph)
  /\ \A w \in Services : graph.calls[<< Unnamed, w >>] = 0

LEMMA RootsAreServices ==
  ASSUME NEW g, IsGraph(g)
  PROVE  IngressRoots(g) \in SUBSET g.node /\ SearchRoots(g) \in SUBSET g.node
BY DEF IngressRoots, SearchRoots

\* What a cut-off service would itself cut off goes down with it, for every graph.
LEMMA NestedIsolation ==
  ASSUME NEW g, IsGraph(g), NEW a \in g.node, NEW b \in g.node, b \in Isolated(g, a)
  PROVE  Isolated(g, b) \subseteq Isolated(g, a)
<1> DEFINE roots == SearchRoots(g)
           U == getReachableNodes(g, roots, {Unnamed})
           A == getReachableNodes(g, roots, {a})
           B == getReachableNodes(g, roots, {b})
<1>1. roots \in SUBSET g.node BY RootsAreServices
<1> HIDE DEF roots
<1>2. Reached(g, roots, {Unnamed}, U) /\ Reached(g, roots, {a}, A) /\ Reached(g, roots, {b}, B)
  BY <1>1, ReachableIsLeast
<1> HIDE DEF U, A, B
<1>3. b \in U /\ b # a /\ b \notin A /\ Isolated(g, a) = U \ ({a} \union A)
  BY DEF Isolated, roots, U, A
<1>4. Isolated(g, b) = {} \/ Isolated(g, b) = U \ ({b} \union B)
  BY DEF Isolated, roots, U, B
<1>5. \* Behind a nothing but b's surroundings are left, and b is not among them.
      ASSUME NEW x, NEW y, NEW X, NEW Y, Reached(g, roots, {x}, X), Reached(g, roots, {y}, Y),
             x # y, y \notin X
      PROVE  X \subseteq Y
  <2>1. Closed(g, roots, {x}, X) /\ Closed(g, roots, {y}, Y) BY <1>5 DEF Reached
  <2>2. Closed(g, roots, {x}, X \intersect Y)
    <3>1. roots \ {x} \subseteq X /\ roots \ {y} \subseteq Y BY <2>1 DEF Closed
    <3>2. roots \ {x} \subseteq X \intersect Y BY <1>5, <3>1
    <3>3. ASSUME NEW v \in X \intersect Y PROVE Callees(g, v) \ {x} \subseteq X \intersect Y
      <4>1. Callees(g, v) \ {x} \subseteq X /\ Callees(g, v) \ {y} \subseteq Y
        BY <2>1 DEF Closed
      <4> QED BY <1>5, <4>1
    <3> QED BY <3>2, <3>3 DEF Closed
  <2>3. X \subseteq X \intersect Y BY <1>5, <2>2 DEF Reached
  <2> QED BY <2>3
<1>6. A \subseteq B BY <1>2, <1>3, <1>5
<1>7. a \in U => a \in B
  <2> SUFFICES ASSUME a \in U, a \notin B PROVE FALSE OBVIOUS
  <2>1. B \subseteq A BY <1>2, <1>3, <1>5
  <2>2. A = B BY <1>6, <2>1
  <2>3. Closed(g, roots, {a}, A) /\ Closed(g, roots, {b}, A) BY <1>2, <2>2 DEF Reached
  <2>4. Closed(g, roots, {Unnamed}, A)
    <3>1. roots \ {a} \subseteq A /\ roots \ {b} \subseteq A BY <2>3 DEF Closed
    <3>2. roots \subseteq A BY <1>3, <3>1
    <3>3. ASSUME NEW v \in A PROVE Callees(g, v) \subseteq A
      <4>1. Callees(g, v) \ {a} \subseteq A /\ Callees(g, v) \ {b} \subseteq A
        BY <2>3 DEF Closed
      <4> QED BY <1>3, <4>1
    <3> QED BY <3>2, <3>3 DEF Closed
  <2>5. U \subseteq A BY <1>2, <2>4 DEF Reached
  <2> QED BY <2>2, <2>5
<1> QED BY <1>3, <1>4, <1>6, <1>7

\* Two services that cut off a third do so one behind the other, for every graph.
LEMMA CutsAreComparable ==
  ASSUME NEW g, IsGraph(g), NEW a \in g.node, NEW b \in g.node,
         NEW x, x \in Isolated(g, a), x \in Isolated(g, b), a # b
  PROVE  b \in Isolated(g, a) \/ a \in Isolated(g, b)
<1> DEFINE roots == SearchRoots(g)
           U == getReachableNodes(g, roots, {Unnamed})
           A == getReachableNodes(g, roots, {a})
           B == getReachableNodes(g, roots, {b})
<1>1. roots \in SUBSET g.node BY RootsAreServices
<1> HIDE DEF roots
<1>2. Reached(g, roots, {Unnamed}, U) /\ Reached(g, roots, {a}, A) /\ Reached(g, roots, {b}, B)
  BY <1>1, ReachableIsLeast
<1> HIDE DEF U, A, B
<1>3. Isolated(g, a) = U \ ({a} \union A)
  BY DEF Isolated, roots, U, A
<1>4. Isolated(g, b) = U \ ({b} \union B)
  BY DEF Isolated, roots, U, B
<1>5. x \in U /\ x \notin A /\ x \notin B BY <1>3, <1>4
<1> SUFFICES ASSUME b \notin U \ A, a \notin U \ B PROVE FALSE BY <1>3, <1>4
<1>6. /\ Closed(g, roots, {Unnamed}, U) /\ Closed(g, roots, {a}, A) /\ Closed(g, roots, {b}, B)
      /\ \A T : Closed(g, roots, {Unnamed}, T) => U \subseteq T
  BY <1>2 DEF Reached
<1>7. /\ roots \ {Unnamed} \subseteq U /\ roots \ {a} \subseteq A /\ roots \ {b} \subseteq B
  BY <1>6 DEF Closed
<1>8. ASSUME NEW y, NEW Y, Closed(g, roots, {y}, Y), y \notin U PROVE U \subseteq Y
  <2>1. roots \ {y} \subseteq Y BY <1>8 DEF Closed
  <2>2. roots \ {Unnamed} \subseteq U \intersect Y BY <1>7, <1>8, <2>1
  <2>3. ASSUME NEW v \in U \intersect Y PROVE Callees(g, v) \ {Unnamed} \subseteq U \intersect Y
    <3>1. Callees(g, v) \ {Unnamed} \subseteq U /\ Callees(g, v) \ {y} \subseteq Y
      BY <1>6, <1>8 DEF Closed
    <3> QED BY <1>8, <3>1
  <2>4. Closed(g, roots, {Unnamed}, U \intersect Y) BY <2>2, <2>3 DEF Closed
  <2>5. U \subseteq U \intersect Y BY <1>6, <2>4
  <2> QED BY <2>5
<1>9. a \in U /\ b \in U BY <1>5, <1>6, <1>8
<1>10. a \in B /\ b \in A BY <1>9
<1>11. Closed(g, roots, {Unnamed}, A \union B)
  <2>1. roots \subseteq A \union B BY <1>7, <1>10
  <2>2. ASSUME NEW v \in A \union B PROVE Callees(g, v) \subseteq A \union B
    <3>1. CASE v \in A
      <4>1. Callees(g, v) \ {a} \subseteq A BY <1>6, <3>1 DEF Closed
      <4> QED BY <1>10, <4>1
    <3>2. CASE v \in B
      <4>1. Callees(g, v) \ {b} \subseteq B BY <1>6, <3>2 DEF Closed
      <4> QED BY <1>10, <4>1
    <3> QED BY <3>1, <3>2
  <2> QED BY <2>1, <2>2 DEF Closed
<1>12. U \subseteq A \union B BY <1>6, <1>11
<1> QED BY <1>5, <1>12

\* A service that a root can reach is one call behind the nearest of its callers
\* that a root can reach, for every graph.
LEMMA DepthOfService ==
  ASSUME NEW g, IsGraph(g), NEW v \in g.node
  PROVE  LET roots == IngressRoots(g)
             depth == computeDepths(g)
             reached == getReachableNodes(g, roots, {})
         IN  IF v \in reached \ roots
             THEN depth[v] = 1 + Min({ depth[u] : u \in Callers(g, v) \intersect reached })
             ELSE depth[v] = 0
<1> DEFINE roots == IngressRoots(g)
           depth == computeDepths(g)
           reached == getReachableNodes(g, roots, {})
           N == Cardinality(g.node)
           level == Levels(g, roots, {})
<1>1. N \in Nat BY GraphIsFinite
<1>2. roots \in SUBSET g.node BY RootsAreServices
<1>3. /\ reached = { u \in g.node : \E k \in 0 .. N : u \in level[k] }
      /\ DOMAIN level = 0 .. N
      /\ \E visited : AreLevels(g, roots, {}, visited, level)
  <2> HIDE DEF roots
  <2> QED BY <1>2, LevelsOfSearch
<1>4. \A u \in g.node : depth[u] = Max({0} \union { k \in 0 .. N : u \in level[k] })
  BY <1>3 DEF computeDepths
<1>5. PICK visited : AreLevels(g, roots, {}, visited, level) BY <1>3
<1> HIDE DEF roots, depth, reached, level
<1>6. /\ level[N] = {}
      /\ \A k \in 0 .. N : \A u : u \in visited[k] <=> \E j \in 0 .. k : u \in level[j]
      /\ \A k \in 0 .. N : \A j \in 0 .. (k - 1) : level[k] \intersect level[j] = {}
  BY <1>2, <1>5, LevelsProperties
<1>7. /\ level[0] = roots
      /\ \A k \in 0 .. (N - 1) :
           \A w : w \in level[k + 1] <=> /\ \E u \in level[k] : w \in Callees(g, u)
                                         /\ w \notin visited[k]
  BY <1>5 DEF AreLevels
<1> HIDE DEF N
<1>8. ASSUME NEW u \in g.node, NEW k \in 0 .. N, u \in level[k] PROVE depth[u] = k
  <2>1. ASSUME NEW j \in 0 .. N, u \in level[j] PROVE j = k
    <3>1. ~(j < k)
      <4> SUFFICES ASSUME j < k PROVE FALSE OBVIOUS
      <4>1. j \in 0 .. (k - 1) BY <1>1
      <4> QED BY <1>6, <1>8, <2>1, <4>1
    <3>2. ~(k < j)
      <4> SUFFICES ASSUME k < j PROVE FALSE OBVIOUS
      <4>1. k \in 0 .. (j - 1) BY <1>1
      <4> QED BY <1>6, <1>8, <2>1, <4>1
    <3> QED BY <1>1, <3>1, <3>2
  <2>2. { j \in 0 .. N : u \in level[j] } = {k} BY <1>8, <2>1
  <2>3. depth[u] = Max({0} \union {k}) BY <1>4, <2>2
  <2> DEFINE T == {0} \union {k}
  <2>4. T \in SUBSET Nat /\ T # {} /\ k \in T /\ \A n \in T : n <= k BY <1>1
  <2> HIDE DEF T
  <2>5. Max(T) \in T /\ \A n \in T : n <= Max(T) BY <1>1, <2>4, NatMax
  <2>6. Max(T) = k
    <3>1. k <= Max(T) /\ Max(T) <= k /\ Max(T) \in Nat BY <2>4, <2>5
    <3>2. k \in Nat BY <1>1
    <3> QED BY <3>1, <3>2
  <2> QED BY <2>3, <2>6 DEF T
<1>9. CASE v \in reached \ roots
  <2>1. PICK k \in 0 .. N : v \in level[k] BY <1>3, <1>9
  <2>2. k # 0 /\ k - 1 \in 0 .. (N - 1) /\ k - 1 \in 0 .. N /\ (k - 1) + 1 = k
    BY <1>1, <1>7, <1>9, <2>1
  <2>3. depth[v] = k BY <1>8, <2>1
  <2> DEFINE callers == Callers(g, v) \intersect reached
             T == { depth[u] : u \in callers }
  <2>4. ASSUME NEW u PROVE u \in callers <=> u \in reached /\ v \in Callees(g, u)
    <3>1. reached \subseteq g.node BY <1>3
    <3> QED BY <3>1 DEF Callers, Callees
  <2>5. \E u \in callers : depth[u] = k - 1
    <3>1. PICK u \in level[k - 1] : v \in Callees(g, u) BY <1>7, <2>1, <2>2
    <3>2. u \in g.node
      <4>1. level[k - 1] \in SUBSET g.node BY <1>5, <2>2 DEF AreLevels, N
      <4> QED BY <3>1, <4>1
    <3>3. u \in reached BY <1>3, <2>2, <3>1, <3>2
    <3>4. depth[u] = k - 1 BY <1>8, <2>2, <3>1, <3>2
    <3> QED BY <2>4, <3>1, <3>3, <3>4
  <2>6. ASSUME NEW u \in callers PROVE depth[u] \in Nat /\ k - 1 <= depth[u]
    <3>1. u \in reached /\ v \in Callees(g, u) BY <2>4
    <3>2. PICK j \in 0 .. N : u \in level[j] /\ u \in g.node BY <1>3, <3>1
    <3>3. depth[u] = j BY <1>8, <3>2
    <3>4. j \in 0 .. (N - 1) /\ j + 1 \in 0 .. N BY <1>1, <1>6, <3>2
    <3>5. CASE v \in visited[j]
      <4>1. PICK i \in 0 .. j : v \in level[i] BY <1>6, <3>2, <3>5
      <4>2. i \in 0 .. N BY <1>1, <3>4
      <4>3. i = k BY <1>8, <2>3, <4>1, <4>2
      <4> QED BY <1>1, <3>3, <4>1, <4>3
    <3>6. CASE v \notin visited[j]
      <4>1. v \in level[j + 1] BY <1>7, <3>1, <3>2, <3>4, <3>6
      <4>2. j + 1 = k BY <1>8, <2>3, <3>4, <4>1
      <4> QED BY <1>1, <3>3, <3>4, <4>2
    <3> QED BY <3>5, <3>6
  <2>7. T \in SUBSET Nat /\ T # {} /\ k - 1 \in T /\ \A n \in T : k - 1 <= n
    BY <2>5, <2>6
  <2> HIDE DEF T
  <2>8. Min(T) \in T /\ \A n \in T : Min(T) <= n BY <2>7, NatMin
  <2>9. Min(T) = k - 1
    <3>1. k - 1 <= Min(T) /\ Min(T) <= k - 1 /\ Min(T) \in Nat BY <2>7, <2>8
    <3>2. k - 1 \in Nat BY <1>1, <2>2
    <3> QED BY <3>1, <3>2
  <2>10. depth[v] = 1 + Min(T) BY <1>1, <2>3, <2>9
  <2> QED BY <1>9, <2>10 DEF T, roots, depth, reached
<1>10. CASE v \in roots
  <2>1. 0 \in 0 .. N BY <1>1
  <2>2. depth[v] = 0 BY <1>7, <1>8, <1>10, <2>1
  <2> QED BY <1>10, <2>2 DEF roots, depth, reached
<1>11. CASE v \notin reached
  <2>1. { k \in 0 .. N : v \in level[k] } = {} BY <1>3, <1>11
  <2>2. depth[v] = Max({0} \union {}) BY <1>4, <2>1
  <2> DEFINE T == {0} \union {}
  <2>3. T \in SUBSET Nat /\ T # {} /\ \A n \in T : n <= 0 OBVIOUS
  <2>4. T = {0} OBVIOUS
  <2> HIDE DEF T
  <2>5. 0 \in Nat OBVIOUS
  <2>6. Max(T) \in T BY <2>3, <2>5, NatMax
  <2>7. depth[v] = 0 BY <2>2, <2>4, <2>6 DEF T
  <2> QED BY <1>11, <2>7 DEF roots, depth, reached
<1> QED BY <1>9, <1>10, <1>11

\* A trace has finitely many references, and none is a call of the empty name.
LEMMA ReferencesCount ==
  ASSUME NEW trace \in Traces, NEW u, NEW v
  PROVE  /\ Cardinality(References(trace, u, v)) \in Nat
         /\ u = Unnamed => Cardinality(References(trace, u, v)) = 0
<1> DEFINE parents == { s.parents : s \in trace }
           P == UNION parents
           R == References(trace, u, v)
<1>1. IsFiniteSet(trace) /\ \A s \in trace : IsFiniteSet(s.parents) BY InputAssumption
<1>2. IsFiniteSet(parents)
  <2> DEFINE f == [s \in trace |-> s.parents]
  <2>1. f \in Surjection(trace, parents) BY DEF Surjection
  <2> HIDE DEF f, parents
  <2> QED BY <1>1, <2>1, FS_Surjection
<1>3. \A T \in parents : IsFiniteSet(T) BY <1>1
<1>4. R \subseteq trace \X P BY DEF References
<1> HIDE DEF parents
<1>5. IsFiniteSet(P) BY <1>2, <1>3, FS_UNION
<1> HIDE DEF P
<1>6. IsFiniteSet(trace \X P) BY <1>1, <1>5, FS_Product
<1>7. u = Unnamed => R = {} BY DEF References
<1> HIDE DEF R
<1>8. IsFiniteSet(R) BY <1>4, <1>6, FS_Subset
<1>9. Cardinality(R) \in Nat BY <1>8, FS_CardinalityType
<1> QED BY <1>7, <1>9, FS_EmptySet DEF R

\* The graphs that have what g has, and no other calls of the empty name.
Grown(g) ==
  { h \in [ node : SUBSET Services, calls : [ Services \X Services -> Nat ] ] :
      /\ g.node \subseteq h.node
      /\ \A p \in Services \X Services : g.calls[p] <= h.calls[p]
      /\ \A w \in Services : h.calls[<< Unnamed, w >>] = g.calls[<< Unnamed, w >>] }

LEMMA AddTraceGrows ==
  ASSUME NEW g, IsGraph(g), NEW h \in Grown(g), NEW trace \in Traces
  PROVE  AddTrace(h, trace) \in Grown(g)
<1> DEFINE n(p) == Cardinality(References(trace, p[1], p[2]))
           new == AddTrace(h, trace)
           calls == [p \in Services \X Services |-> h.calls[p] + n(p)]
<1>1. new = [ node |-> h.node \union ServicesOf(trace), calls |-> calls ] BY DEF AddTrace
<1>2. \A p \in Services \X Services : n(p) \in Nat BY ReferencesCount
<1>3. ASSUME NEW w \in Services PROVE n(<< Unnamed, w >>) = 0 BY ReferencesCount
<1> HIDE DEF n
<1>4. /\ h.node \subseteq Services /\ g.node \subseteq h.node
      /\ h.calls \in [ Services \X Services -> Nat ]
      /\ \A p \in Services \X Services : g.calls[p] <= h.calls[p]
      /\ \A w \in Services : h.calls[<< Unnamed, w >>] = g.calls[<< Unnamed, w >>]
  BY DEF Grown
<1>5. ServicesOf(trace) \subseteq Services BY InputAssumption
<1>6. ASSUME NEW p \in Services \X Services PROVE calls[p] \in Nat /\ g.calls[p] <= calls[p]
  <2>1. calls[p] = h.calls[p] + n(p) OBVIOUS
  <2>2. h.calls[p] \in Nat /\ g.calls[p] \in Nat /\ g.calls[p] <= h.calls[p] /\ n(p) \in Nat
    BY <1>2, <1>4 DEF IsGraph
  <2> HIDE DEF calls
  <2> QED BY <2>1, <2>2
<1>7. ASSUME NEW w \in Services
      PROVE  calls[<< Unnamed, w >>] = g.calls[<< Unnamed, w >>]
  <2> DEFINE p == << Unnamed, w >>
  <2>1. p \in Services \X Services BY ServiceAssumption
  <2>2. n(p) = 0 /\ h.calls[p] = g.calls[p] BY <1>3, <1>4
  <2>3. h.calls[p] \in Nat BY <1>4, <2>1
  <2> HIDE DEF p
  <2>4. calls[p] = h.calls[p] + n(p) BY <2>1
  <2>5. calls[p] = g.calls[p]
    <3> HIDE DEF calls
    <3> QED BY <2>2, <2>3, <2>4
  <2> QED BY <2>5 DEF p
<1>8. calls = [p \in Services \X Services |-> calls[p]] OBVIOUS
<1> HIDE DEF calls, new
<1>9. calls \in [ Services \X Services -> Nat ] BY <1>6, <1>8
<1> QED BY <1>1, <1>4, <1>5, <1>6, <1>7, <1>9 DEF Grown, new

\* So do the traces of one query, in whatever order they are added.
LEMMA QueryGrows ==
  ASSUME NEW g, IsGraph(g), NEW found \in SUBSET Traces
  PROVE  FoldSet(LAMBDA trace, h : AddTrace(h, trace), g, found) \in Grown(g)
<1> DEFINE V == Grown(g)
           Ch(s) == CHOOSE x \in s : TRUE
           ch == [s \in (SUBSET found) \ {{}} |-> Ch(s)]
           step == [t \in found |-> [h \in V |-> AddTrace(h, t)]]
           Folds(it) == it = [s \in SUBSET found |-> IF s = {} THEN g
                                ELSE AddTrace(it[s \ {Ch(s)}], Ch(s))]
           fold == CHOOSE it : Folds(it)
<1>1. FoldSet(LAMBDA trace, h : AddTrace(h, trace), g, found) = fold[found]
  BY DEF FoldSet, MapThenFoldSet
<1>2. \A s \in (SUBSET found) \ {{}} : Ch(s) \in s OBVIOUS
<1>3. IsFiniteSet(found)
  <2>1. IsFiniteSet(Traces) BY InputAssumption
  <2> QED BY <2>1, FS_Subset
<1>4. g \in V BY DEF Grown, IsGraph
<1>5. \A t \in found : \A h \in V : AddTrace(h, t) \in V BY AddTraceGrows
<1> HIDE DEF V
<1>6. PICK f \in [SUBSET found -> V] : FoldsOver(f, found, g, ch, step)
  <2> HIDE DEF Ch
  <2>1. /\ ch \in [(SUBSET found) \ {{}} -> found]
        /\ \A s \in (SUBSET found) \ {{}} : ch[s] \in s
    BY <1>2
  <2>2. step \in [found -> [V -> V]] BY <1>5
  <2> HIDE DEF ch, step
  <2> QED BY <1>3, <1>4, <2>1, <2>2, SetRecursion
<1>7. Folds(f)
  <2> HIDE DEF Ch
  <2>1. f[{}] = g BY <1>6 DEF FoldsOver
  <2>2. ASSUME NEW s \in SUBSET found, s # {} PROVE f[s] = AddTrace(f[s \ {Ch(s)}], Ch(s))
    <3>1. Ch(s) \in found /\ s \ {Ch(s)} \in SUBSET found /\ f[s \ {Ch(s)}] \in V BY <1>2, <2>2
    <3>2. f[s] = step[ch[s]][f[s \ {ch[s]}]] BY <1>6, <2>2 DEF FoldsOver
    <3> QED BY <2>2, <3>1, <3>2
  <2> QED BY <2>1, <2>2
<1>8. Folds(fold)
  <2> HIDE DEF Folds
  <2> QED BY <1>7
<1> HIDE DEF fold
<1>9. /\ fold[{}] = g
      /\ \A s \in (SUBSET found) \ {{}} : fold[s] = AddTrace(fold[s \ {Ch(s)}], Ch(s))
  <2> HIDE DEF Ch
  <2> QED BY <1>8
<1> DEFINE P == { s \in SUBSET found : fold[s] \in V }
<1> HIDE DEF Ch
<1>10. {} \in P BY <1>4, <1>9
<1>11. ASSUME NEW s \in (SUBSET found) \ {{}}, \A x \in s : s \ {x} \in P PROVE s \in P
  <2>1. Ch(s) \in s /\ Ch(s) \in found /\ fold[s \ {Ch(s)}] \in V BY <1>2, <1>11
  <2>2. fold[s] = AddTrace(fold[s \ {Ch(s)}], Ch(s)) BY <1>9
  <2>3. fold[s] \in V BY <1>5, <2>1, <2>2
  <2> QED BY <2>3
<1> HIDE DEF P
<1>12. Hereditary(P, found) BY <1>10, <1>11 DEF Hereditary
<1>13. found \in P BY <1>3, <1>12, SetInduct
<1> QED BY <1>1, <1>13 DEF P, V

LEMMA GraphInit == Init => GraphInv
<1> SUFFICES ASSUME Init PROVE GraphInv OBVIOUS
<1>1. graph = EmptyGraph BY DEF Init
<1>2. IsGraph(EmptyGraph) BY DEF IsGraph, EmptyGraph
<1>3. \A w \in Services : EmptyGraph.calls[<< Unnamed, w >>] = 0
  BY ServiceAssumption DEF EmptyGraph
<1> QED BY <1>1, <1>2, <1>3 DEF GraphInv

\* What a step does to the graph: nothing, or it drops it, or it lets it grow.
LEMMA GraphStep ==
  GraphInv /\ [Next]_vars =>
    GraphInv' /\ (graph' = graph \/ graph' = EmptyGraph \/ graph' \in Grown(graph))
<1> SUFFICES ASSUME GraphInv, [Next]_vars
             PROVE  GraphInv' /\ (graph' = graph \/ graph' = EmptyGraph \/ graph' \in Grown(graph))
  OBVIOUS
<1>1. CASE graph' = graph BY <1>1 DEF GraphInv
<1>2. CASE \E s \in Services, found \in SUBSET Traces : QueryService(s, found)
  <2>1. PICK s \in Services, found \in SUBSET Traces : QueryService(s, found) BY <1>2
  <2>2. graph' = FoldSet(LAMBDA trace, h : AddTrace(h, trace), graph, found)
    BY <2>1 DEF QueryService
  <2>3. IsGraph(graph) BY DEF GraphInv
  <2>4. graph' \in Grown(graph) BY <2>2, <2>3, QueryGrows
  <2>5. IsGraph(graph') /\ \A w \in Services :
                             graph'.calls[<< Unnamed, w >>] = graph.calls[<< Unnamed, w >>]
    BY <2>4 DEF Grown, IsGraph
  <2>6. GraphInv' BY <2>5 DEF GraphInv, IsGraph
  <2> QED BY <2>4, <2>6
<1>3. CASE QueryFails
  <2>1. graph' = EmptyGraph BY <1>3 DEF QueryFails
  <2>2. IsGraph(EmptyGraph) BY DEF IsGraph, EmptyGraph
  <2>3. \A w \in Services : EmptyGraph.calls[<< Unnamed, w >>] = 0
    BY ServiceAssumption DEF EmptyGraph
  <2>4. GraphInv' BY <2>1, <2>2, <2>3 DEF GraphInv, IsGraph
  <2> QED BY <2>1, <2>4
<1>4. CASE RunStep \/ RunTimer \/ RunCancelled
  BY <1>1, <1>4 DEF RunStep, RunTimer, RunCancelled, RunFrame, graphVars
<1>5. CASE \E t \in Times, row \in Rows : SaveObservation(t, row)
  BY <1>1, <1>5 DEF SaveObservation, graphVars
<1>6. CASE UNCHANGED vars BY <1>1, <1>6 DEF vars, graphVars
<1> QED BY <1>2, <1>3, <1>4, <1>5, <1>6 DEF Next

LEMMA GraphAlways == Spec => []GraphInv
<1>1. GraphInv /\ [Next]_vars => GraphInv' BY GraphStep
<1> QED BY <1>1, GraphInit, PTL DEF Spec

\* The depths the scores use are those of the shortest calls from a root, for every
\* graph and any number of services (internal/graph/scoring.go:380).
THEOREM DepthsAreShortest == Spec => []DepthIsShortest
<1>1. GraphInv => DepthIsShortest
  <2> SUFFICES ASSUME GraphInv PROVE DepthIsShortest OBVIOUS
  <2>1. IsGraph(graph) BY DEF GraphInv
  <2>2. ASSUME NEW v \in graph.node
        PROVE  LET roots == IngressRoots(graph)
                   depth == computeDepths(graph)
                   reached == getReachableNodes(graph, roots, {})
               IN  IF v \in reached \ roots
                   THEN depth[v] = 1 + Min({ depth[u] : u \in Callers(graph, v) \intersect reached })
                   ELSE depth[v] = 0
    BY <2>1, DepthOfService
  <2> QED BY <2>2 DEF DepthIsShortest
<1> QED BY <1>1, GraphAlways, PTL

\* What removals cut off is nested or apart, for every graph and any number of
\* services (internal/graph/scoring.go:282).
THEOREM IsolationNests == Spec => []IsolationIsNested
<1>1. GraphInv => IsolationIsNested
  <2> SUFFICES ASSUME GraphInv PROVE IsolationIsNested OBVIOUS
  <2> DEFINE cut == [v \in graph.node |-> Isolated(graph, v)]
  <2>1. IsGraph(graph) BY DEF GraphInv
  <2>2. ASSUME NEW a \in graph.node, NEW b \in graph.node, b \in cut[a]
        PROVE  cut[b] \subseteq cut[a]
    <3>1. b \in Isolated(graph, a) BY <2>2
    <3>2. Isolated(graph, b) \subseteq Isolated(graph, a) BY <2>1, <3>1, NestedIsolation
    <3> QED BY <3>2
  <2>3. ASSUME NEW a \in graph.node, NEW b \in graph.node, cut[a] \intersect cut[b] # {}
        PROVE  cut[a] \subseteq cut[b] \/ cut[b] \subseteq cut[a]
    <3>1. CASE a = b BY <3>1
    <3>2. CASE a # b
      <4>1. cut[a] = Isolated(graph, a) /\ cut[b] = Isolated(graph, b) OBVIOUS
      <4>2. PICK x : x \in Isolated(graph, a) /\ x \in Isolated(graph, b) BY <2>3, <4>1
      <4>3. b \in Isolated(graph, a) \/ a \in Isolated(graph, b)
        BY <2>1, <3>2, <4>2, CutsAreComparable
      <4> QED BY <2>2, <4>1, <4>3
    <3> QED BY <3>1, <3>2
  <2> HIDE DEF cut
  <2>4. \A a, b \in graph.node :
          /\ b \in cut[a] => cut[b] \subseteq cut[a]
          /\ cut[a] \intersect cut[b] # {} => cut[a] \subseteq cut[b] \/ cut[b] \subseteq cut[a]
    BY <2>2, <2>3
  <2> QED BY <2>4 DEF IsolationIsNested, cut
<1> QED BY <1>1, GraphAlways, PTL

\* With more calls between the same services, and the same roots, a removal cuts off
\* no service a root could reach before, unless it did so before.
LEMMA MoreCalls ==
  ASSUME NEW g, IsGraph(g), \A w \in Services : g.calls[<< Unnamed, w >>] = 0,
         NEW h \in Grown(g), h.node = g.node, IngressRoots(h) = IngressRoots(g),
         NEW v \in g.node
  PROVE  Isolated(h, v) \intersect getReachableNodes(g, SearchRoots(g), {}) \subseteq Isolated(g, v)
<1> DEFINE roots == SearchRoots(g)
           All == getReachableNodes(g, roots, {})
           U == getReachableNodes(g, roots, {Unnamed})
           A == getReachableNodes(g, roots, {v})
           HU == getReachableNodes(h, roots, {Unnamed})
           HA == getReachableNodes(h, roots, {v})
<1>1. SearchRoots(h) = roots BY DEF SearchRoots
<1>2. roots \in SUBSET g.node /\ roots \in SUBSET h.node BY RootsAreServices
<1>3. IsGraph(h) BY DEF Grown, IsGraph
<1> HIDE DEF roots
<1>4. /\ Reached(g, roots, {}, All) /\ Reached(g, roots, {Unnamed}, U) /\ Reached(g, roots, {v}, A)
      /\ Reached(h, roots, {Unnamed}, HU) /\ Reached(h, roots, {v}, HA)
  BY <1>2, <1>3, ReachableIsLeast
<1> HIDE DEF All, U, A, HU, HA
<1>5. ASSUME NEW u \in g.node PROVE Callees(g, u) \subseteq Callees(h, u)
  <2> SUFFICES ASSUME NEW w \in g.node, g.calls[<< u, w >>] > 0 PROVE h.calls[<< u, w >>] > 0
    BY DEF Callees
  <2> DEFINE p == << u, w >>
  <2>1. p \in Services \X Services BY DEF IsGraph
  <2>2. g.calls[p] \in Nat /\ h.calls[p] \in Nat /\ g.calls[p] <= h.calls[p]
    BY <1>3, <2>1 DEF IsGraph, Grown
  <2> HIDE DEF p
  <2>3. g.calls[p] > 0 BY DEF p
  <2>4. h.calls[p] > 0 BY <2>2, <2>3
  <2> QED BY <2>4 DEF p
<1>6. A \subseteq HA
  <2>1. HA \subseteq g.node /\ Closed(h, roots, {v}, HA) BY <1>4 DEF Reached
  <2>2. Closed(g, roots, {v}, HA)
    <3>1. roots \ {v} \subseteq HA BY <2>1 DEF Closed
    <3>2. ASSUME NEW u \in HA PROVE Callees(g, u) \ {v} \subseteq HA
      <4>1. Callees(h, u) \ {v} \subseteq HA BY <2>1 DEF Closed
      <4>2. Callees(g, u) \subseteq Callees(h, u) BY <1>5, <2>1
      <4> QED BY <4>1, <4>2
    <3> QED BY <3>1, <3>2 DEF Closed
  <2> QED BY <1>4, <2>2 DEF Reached
<1>7. All \subseteq U \union {Unnamed}
  <2>1. U \subseteq g.node /\ Closed(g, roots, {Unnamed}, U) BY <1>4 DEF Reached
  <2>2. Callees(g, Unnamed) = {}
    <3>1. ASSUME NEW w \in g.node PROVE ~(g.calls[<< Unnamed, w >>] > 0)
      <4>1. w \in Services BY DEF IsGraph
      <4> QED BY <4>1
    <3> QED BY <3>1 DEF Callees
  <2>3. Closed(g, roots, {}, U \union {Unnamed})
    <3>1. roots \ {} \subseteq U \union {Unnamed} BY <2>1 DEF Closed
    <3>2. ASSUME NEW u \in U \union {Unnamed}
          PROVE  Callees(g, u) \ {} \subseteq U \union {Unnamed}
      <4>1. CASE u \in U
        <5>1. Callees(g, u) \ {Unnamed} \subseteq U BY <2>1, <4>1 DEF Closed
        <5> QED BY <5>1
      <4>2. CASE u = Unnamed BY <2>2, <4>2
      <4> QED BY <4>1, <4>2
    <3> QED BY <3>1, <3>2 DEF Closed
  <2> QED BY <1>4, <2>3 DEF Reached
<1>8. Unnamed \notin HU BY <1>4 DEF Reached
<1> SUFFICES ASSUME NEW x, x \in Isolated(h, v), x \in All PROVE x \in Isolated(g, v)
  BY DEF All, roots
<1>9. /\ ~(Cardinality(g.node) <= 2 \/ roots = {v})
      /\ x \in HU /\ x # v /\ x \notin HA
  BY <1>1 DEF Isolated, HU, HA
<1>10. x \in U \ ({v} \union A) BY <1>6, <1>7, <1>8, <1>9
<1> QED BY <1>9, <1>10 DEF Isolated, U, A, roots

\* Calls observed later make no service depend on one more single point, for every
\* graph and all traces (internal/graph/scoring.go:282).
THEOREM RedundancyIsolatesNone == Spec => RedundancyIsolatesNobody
<1> DEFINE Step ==
      \/ graph'.node # graph.node
      \/ IngressRoots(graph') # IngressRoots(graph)
      \/ \A v \in graph.node :
           Isolated(graph', v) \intersect getReachableNodes(graph, SearchRoots(graph), {})
             \subseteq Isolated(graph, v)
<1>1. GraphInv /\ [Next]_vars => [Step]_graph
  <2> SUFFICES ASSUME GraphInv, [Next]_vars, graph' # graph, graph'.node = graph.node,
                      IngressRoots(graph') = IngressRoots(graph), NEW v \in graph.node
               PROVE  Isolated(graph', v)
                        \intersect getReachableNodes(graph, SearchRoots(graph), {})
                        \subseteq Isolated(graph, v)
    OBVIOUS
  <2>1. graph' = EmptyGraph \/ graph' \in Grown(graph) BY GraphStep
  <2>2. graph' # EmptyGraph
    <3>1. EmptyGraph.node = {} BY DEF EmptyGraph
    <3> QED BY <3>1
  <2>3. IsGraph(graph) /\ \A w \in Services : graph.calls[<< Unnamed, w >>] = 0 BY DEF GraphInv
  <2> QED BY <2>1, <2>2, <2>3, MoreCalls
<1>2. RedundancyIsolatesNobody <=> [][Step]_graph BY DEF RedundancyIsolatesNobody
<1> QED BY <1>1, <1>2, GraphAlways, PTL DEF Spec
-----------------------------------------------------------------------------
(* The knee of the latency.                                                *)

\* The tiers are those of all rates, from the lowest to the highest.
LEMMA TiersAreSorted ==
  ASSUME NEW obs, AreRows(obs), NEW p
  PROVE  LET tiers == sortedTiers(obs, p)
         IN  /\ Len(tiers) \in Nat
             /\ \A i \in 1 .. Len(tiers) :
                  \E r \in Rates(obs) : tiers[i] = aggregatedTier(obs, p, r)
             /\ \A i \in 1 .. Len(tiers) : \A j \in 1 .. Len(tiers) :
                  i < j => tiers[i].loadRate < tiers[j].loadRate
<1> DEFINE rates == Rates(obs)
           n == Cardinality(rates)
           below(r) == { q \in rates : q <= r }
           rank(r) == Cardinality(below(r))
           at(i) == CHOOSE r \in rates : rank(r) = i
           sorted == [i \in 1 .. n |-> at(i)]
           tiers == [i \in DOMAIN sorted |-> aggregatedTier(obs, p, sorted[i])]
           f == [r \in rates |-> rank(r)]
<1>0. sortedTiers(obs, p) = tiers BY DEF sortedTiers
<1>1. rates \in SUBSET (Nat \ {0}) /\ IsFiniteSet(rates) /\ n \in Nat
  BY RatesAreFinite, FS_CardinalityType
<1> HIDE DEF rates
<1>2. \A r \in rates : IsFiniteSet(below(r)) /\ rank(r) \in 1 .. n
  <2> SUFFICES ASSUME NEW r \in rates PROVE IsFiniteSet(below(r)) /\ rank(r) \in 1 .. n OBVIOUS
  <2>1. below(r) \in SUBSET rates /\ r \in below(r) BY <1>1
  <2> HIDE DEF below
  <2>2. IsFiniteSet(below(r)) /\ Cardinality(below(r)) <= n BY <1>1, <2>1, FS_Subset
  <2>3. Cardinality(below(r)) \in Nat /\ Cardinality(below(r)) # 0
    BY <2>1, <2>2, FS_CardinalityType, FS_EmptySet
  <2> QED BY <1>1, <2>2, <2>3
<1>3. ASSUME NEW r \in rates, NEW s \in rates, r < s PROVE rank(r) < rank(s)
  <2>0. r \in Nat /\ s \in Nat /\ \A q \in rates : q \in Nat BY <1>1
  <2>1. below(r) \in SUBSET below(s) /\ s \in below(s) /\ s \notin below(r)
    <3>1. ASSUME NEW q \in rates, q <= r PROVE q <= s BY <1>3, <2>0, <3>1
    <3>2. s <= s /\ ~(s <= r) BY <1>3, <2>0
    <3> QED BY <3>1, <3>2
  <2>2. IsFiniteSet(below(s)) BY <1>2
  <2> HIDE DEF below
  <2>3. Cardinality(below(r)) <= Cardinality(below(s))
        /\ Cardinality(below(r)) # Cardinality(below(s))
    BY <2>1, <2>2, FS_Subset
  <2>4. rank(r) \in Nat /\ rank(s) \in Nat BY <1>1, <1>2
  <2> QED BY <2>3, <2>4
<1> HIDE DEF rank
<1>4. f \in Injection(rates, 1 .. n)
  <2>1. f \in [rates -> 1 .. n] BY <1>2
  <2>2. ASSUME NEW r \in rates, NEW s \in rates, f[r] = f[s] PROVE r = s
    <3>1. r \in Nat /\ s \in Nat BY <1>1
    <3>2. rank(r) = rank(s) /\ rank(r) \in Nat
      <4>1. f[r] = rank(r) /\ f[s] = rank(s) OBVIOUS
      <4>2. rank(r) \in 1 .. n BY <1>2
      <4> HIDE DEF f
      <4>3. n \in Nat BY <1>1
      <4> HIDE DEF n
      <4>4. rank(r) \in Nat BY <4>2, <4>3
      <4> QED BY <2>2, <4>1, <4>4
    <3>3. ~(r < s) /\ ~(s < r) BY <1>3, <3>2
    <3> QED BY <3>1, <3>3
  <2> HIDE DEF f
  <2> QED BY <2>1, <2>2 DEF Injection, IsInjective
<1>5. IsFiniteSet(1 .. n) /\ Cardinality(1 .. n) = n
  <2>1. 1 \in Int /\ n \in Int BY <1>1
  <2> HIDE DEF n
  <2>2. IsFiniteSet(1 .. n) /\ Cardinality(1 .. n) = IF 1 > n THEN 0 ELSE n - 1 + 1
    BY <2>1, FS_Interval
  <2> QED BY <1>1, <2>2
<1>6. f \in Surjection(rates, 1 .. n)
  <2>1. Cardinality(rates) = Cardinality(1 .. n) BY <1>5
  <2> HIDE DEF f, n
  <2> QED BY <1>4, <1>5, <2>1, FS_Injection
<1> HIDE DEF n
<1>7. ASSUME NEW i \in 1 .. n PROVE at(i) \in rates /\ rank(at(i)) = i
  <2>1. \E r \in rates : rank(r) = i BY <1>6 DEF Surjection
  <2> QED BY <2>1
<1> HIDE DEF at
<1>8. Len(tiers) = n /\ \A i \in 1 .. n : tiers[i] = aggregatedTier(obs, p, at(i))
  BY <1>1
<1>9. \A r : aggregatedTier(obs, p, r).loadRate = r BY DEF aggregatedTier
<1> HIDE DEF tiers
<1>10. ASSUME NEW i \in 1 .. n, NEW j \in 1 .. n, i < j
       PROVE  tiers[i].loadRate < tiers[j].loadRate
  <2>1. tiers[i].loadRate = at(i) /\ tiers[j].loadRate = at(j) BY <1>8, <1>9
  <2>2. at(i) \in rates /\ at(j) \in rates /\ rank(at(i)) = i /\ rank(at(j)) = j BY <1>7
  <2>3. at(i) \in Nat /\ at(j) \in Nat BY <1>1, <2>2
  <2>4. at(j) # at(i) BY <1>1, <1>10, <2>2
  <2>5. ~(at(j) < at(i))
    <3> SUFFICES ASSUME at(j) < at(i) PROVE FALSE OBVIOUS
    <3>1. rank(at(j)) < rank(at(i)) BY <1>3, <2>2
    <3> QED BY <1>1, <1>10, <2>2, <3>1
  <2> QED BY <2>1, <2>3, <2>4, <2>5
<1>11. \A i \in 1 .. n : \E r \in rates : tiers[i] = aggregatedTier(obs, p, r) BY <1>7, <1>8
<1> QED BY <1>0, <1>1, <1>8, <1>10, <1>11 DEF rates

\* The product of two factors is at most that of two that are as large.
LEMMA TimesGrows ==
  ASSUME NEW x \in Nat, NEW y \in Nat, NEW a \in Nat, NEW b \in Nat, x <= a, y <= b
  PROVE  x * y \in Nat /\ x * y <= a * b
<1>1. x * y <= a * y OBVIOUS
<1>2. a * y <= a * b OBVIOUS
<1>3. x * y \in Nat /\ a * y \in Nat /\ a * b \in Nat OBVIOUS
<1> QED BY <1>1, <1>2, <1>3

LEMMA TierTypes ==
  ASSUME NEW obs, AreRows(obs), NEW p, NEW i \in 1 .. Len(sortedTiers(obs, p))
  PROVE  LET tier == sortedTiers(obs, p)[i]
         IN  tier.loadRate \in Nat /\ tier.count \in Nat \ {0} /\ tier.totalP95 \in Nat
<1> DEFINE tiers == sortedTiers(obs, p)
<1>1. \A j \in 1 .. Len(tiers) : \E r \in Rates(obs) : tiers[j] = aggregatedTier(obs, p, r)
  BY TiersAreSorted
<1>2. PICK r \in Rates(obs) : tiers[i] = aggregatedTier(obs, p, r) BY <1>1
<1> HIDE DEF tiers
<1> DEFINE rows == At(obs, r)
           p95s == [t \in rows |-> obs[t].p95]
<1>3. /\ tiers[i].loadRate = r /\ tiers[i].count = Cardinality(rows)
      /\ tiers[i].totalP95 = SumFunctionOnSet(p95s, rows)
  BY <1>2 DEF aggregatedTier
<1>4. rows \subseteq DOMAIN obs /\ rows # {} BY DEF At, Rates
<1> HIDE DEF rows
<1>5. IsFiniteSet(rows) /\ \A t \in rows : obs[t].p95 \in Nat
  <2>1. IsFiniteSet(rows) BY <1>4, FS_Subset DEF AreRows
  <2> QED BY <1>4, <2>1 DEF AreRows, IsRow
<1>6. p95s \in [rows -> Nat] BY <1>5
<1> HIDE DEF p95s
<1>7. SumFunctionOnSet(p95s, rows) \in Nat
  <2>1. 0 \in Nat OBVIOUS
  <2> QED BY <1>5, <1>6, <2>1, SumBound
<1>8. Cardinality(rows) \in Nat \ {0} BY <1>4, <1>5, FS_CardinalityType, FS_EmptySet
<1>9. r \in Nat BY RatesAreFinite
<1> QED BY <1>3, <1>7, <1>8, <1>9 DEF tiers

LEMMA SlopeOfTiers ==
  ASSUME NEW obs, AreRows(obs), NEW p, NEW k \in 1 .. (Len(sortedTiers(obs, p)) - 1)
  PROVE  /\ Slope(sortedTiers(obs, p), k).num \in Int
         /\ Slope(sortedTiers(obs, p), k).den \in Nat \ {0}
<1> DEFINE tiers == sortedTiers(obs, p)
<1>1. /\ Len(tiers) \in Nat
      /\ \A i \in 1 .. Len(tiers) :
           \E r \in Rates(obs) : tiers[i] = aggregatedTier(obs, p, r)
      /\ \A i \in 1 .. Len(tiers) : \A j \in 1 .. Len(tiers) :
           i < j => tiers[i].loadRate < tiers[j].loadRate
  BY TiersAreSorted
<1> HIDE DEF tiers
<1>2. k \in 1 .. Len(tiers) /\ k + 1 \in 1 .. Len(tiers) BY <1>1 DEF tiers
<1>3. \A i \in 1 .. Len(tiers) :
        tiers[i].loadRate \in Nat /\ tiers[i].count \in Nat \ {0} /\ tiers[i].totalP95 \in Nat
  BY TierTypes DEF tiers
<1> DEFINE c1 == tiers[k].count
           c2 == tiers[k + 1].count
           t1 == tiers[k].totalP95
           t2 == tiers[k + 1].totalP95
           r1 == tiers[k].loadRate
           r2 == tiers[k + 1].loadRate
<1>4. /\ c1 \in Nat \ {0} /\ c2 \in Nat \ {0} /\ t1 \in Nat /\ t2 \in Nat
      /\ r1 \in Nat /\ r2 \in Nat
  BY <1>2, <1>3
<1>5. r1 < r2
  <2>1. k < k + 1 BY <1>2
  <2> QED BY <1>1, <1>2, <2>1
<1>6. /\ Slope(tiers, k).num = t2 * c1 - t1 * c2
      /\ Slope(tiers, k).den = c1 * c2 * (r2 - r1)
  BY DEF Slope
<1> HIDE DEF c1, c2, t1, t2, r1, r2
<1>7. t2 * c1 - t1 * c2 \in Int BY <1>4
<1> DEFINE d == r2 - r1
           c == c1 * c2
<1>8. d \in Nat \ {0} BY <1>4, <1>5
<1>9. c \in Nat \ {0} BY <1>4
<1>10. c * d \in Nat \ {0}
  <2> HIDE DEF c, d
  <2> QED BY <1>8, <1>9
<1> QED BY <1>6, <1>7, <1>10 DEF tiers

\* The degradation begins strictly inside the tested rates, where the latency rises,
\* for any number of rows (internal/capacity/analyzer.go:180).
THEOREM DegradationIsInside == Spec => []KneeIsInside
<1>1. ObservedInv => KneeIsInside
  <2> DEFINE tiers == sortedTiers(observations, policy)
             knee == calculateDegradationRate(tiers)
             knees == { k \in 2 .. (Len(tiers) - 1) : Spikes(tiers, k) }
             k == Min(knees)
  <2> SUFFICES ASSUME ObservedInv, knee # 0
               PROVE  \E j \in 2 .. (Len(tiers) - 1) :
                        /\ tiers[j].loadRate = knee
                        /\ tiers[j + 1].totalP95 * tiers[j].count
                             > tiers[j].totalP95 * tiers[j + 1].count
    BY DEF KneeIsInside
  <2>1. AreRows(observations) BY DEF ObservedInv
  <2>2. knees # {} /\ knee = tiers[k].loadRate BY DEF calculateDegradationRate
  <2>3. Len(tiers) \in Nat BY <2>1, TiersAreSorted
  <2>4. \A i \in 1 .. (Len(tiers) - 1) :
          Slope(tiers, i).num \in Int /\ Slope(tiers, i).den \in Nat \ {0}
    BY <2>1, SlopeOfTiers
  <2> HIDE DEF tiers, knee
  <2>5. k \in knees
    <3>1. knees \in SUBSET Nat BY <2>3
    <3> HIDE DEF knees
    <3> QED BY <2>2, <3>1, NatMin
  <2>6. k \in 2 .. (Len(tiers) - 1) /\ Spikes(tiers, k) BY <2>5
  <2> HIDE DEF knees, k
  <2> DEFINE pn == Slope(tiers, k - 1).num
             pd == Slope(tiers, k - 1).den
             cn == Slope(tiers, k).num
             cd == Slope(tiers, k).den
  <2>7. pn \in Int /\ pd \in Nat \ {0} /\ cn \in Int /\ cd \in Nat \ {0}
    <3>1. k \in 1 .. (Len(tiers) - 1) /\ k - 1 \in 1 .. (Len(tiers) - 1) BY <2>3, <2>6
    <3> QED BY <2>4, <3>1
  <2>8. IF pn > 0 THEN 2 * cn * pd > 3 * pn * cd ELSE cn > 0 BY <2>6 DEF Spikes
  <2>9. cn = tiers[k + 1].totalP95 * tiers[k].count - tiers[k].totalP95 * tiers[k + 1].count
    BY DEF Slope
  <2> HIDE DEF pn, pd, cn, cd
  <2>10. cn > 0
    <3>1. CASE pn > 0
      <4> SUFFICES ASSUME ~(cn > 0) PROVE FALSE OBVIOUS
      <4>1. 3 * pn * cd > 0
        <5>1. 3 * pn \in Nat \ {0} BY <2>7, <3>1
        <5> DEFINE y == 3 * pn
        <5> HIDE DEF y
        <5>2. y * cd > 0 BY <2>7, <5>1 DEF y
        <5> QED BY <5>2 DEF y
      <4>2. 2 * cn * pd <= 0
        <5> DEFINE y == - (2 * cn)
        <5>1. y \in Nat BY <2>7
        <5>2. 2 * cn * pd = - (y * pd) BY <2>7
        <5> HIDE DEF y
        <5>3. y * pd \in Nat BY <2>7, <5>1
        <5> QED BY <5>2, <5>3
      <4>3. 2 * cn * pd \in Int /\ 3 * pn * cd \in Int BY <2>7
      <4> QED BY <2>8, <3>1, <4>1, <4>2, <4>3
    <3>2. CASE ~(pn > 0) BY <2>8, <3>2
    <3> QED BY <3>1, <3>2
  <2>11. tiers[k + 1].totalP95 * tiers[k].count > tiers[k].totalP95 * tiers[k + 1].count
    <3> DEFINE x == tiers[k + 1].totalP95 * tiers[k].count
               y == tiers[k].totalP95 * tiers[k + 1].count
    <3>1. x \in Int /\ y \in Int
      <4>1. \A i \in 1 .. Len(tiers) : tiers[i].count \in Nat /\ tiers[i].totalP95 \in Nat
        BY <2>1, TierTypes DEF tiers
      <4>2. k \in 1 .. Len(tiers) /\ k + 1 \in 1 .. Len(tiers) BY <2>3, <2>6
      <4> QED BY <4>1, <4>2
    <3>2. cn = x - y BY <2>9
    <3> HIDE DEF x, y
    <3>3. x > y BY <2>10, <3>1, <3>2
    <3> QED BY <3>3 DEF x, y
  <2> QED BY <2>2, <2>6, <2>11
<1> QED BY <1>1, ObservedInit, ObservedStep, PTL DEF Spec
-----------------------------------------------------------------------------
(* The scores.                                                             *)

Metrics == { "inDegree", "outDegree", "callFreq", "depth", "spof" }

LEMMA MetricsAreCounts ==
  ASSUME NEW g, IsGraph(g), NEW v \in g.node
  PROVE  /\ DOMAIN NodeMetrics(g) = g.node
         /\ \A f \in Metrics : NodeMetrics(g)[v][f] \in Nat
         /\ NodeMetrics(g)[v].spof <= 1
<1> DEFINE in == Callers(g, v)
           out == Callees(g, v)
           w == [u \in g.node |-> g.calls[<< u, v >>]]
           calls == SumFunctionOnSet(w, g.node)
           N == Cardinality(g.node)
           level == Levels(g, IngressRoots(g), {})
           depth == computeDepths(g)[v]
           spof == IF IsSPOF(g, v) THEN 1 ELSE 0
<1>1. IsFiniteSet(g.node) /\ N \in Nat BY GraphIsFinite
<1>2. Cardinality(in) \in Nat /\ Cardinality(out) \in Nat
  <2>1. in \in SUBSET g.node /\ out \in SUBSET g.node BY DEF Callers, Callees
  <2> HIDE DEF in, out
  <2>2. IsFiniteSet(in) /\ IsFiniteSet(out) BY <1>1, <2>1, FS_Subset
  <2> QED BY <2>2, FS_CardinalityType
<1>3. calls \in Nat
  <2>1. \A u \in g.node : g.calls[<< u, v >>] \in Nat BY DEF IsGraph
  <2>2. w \in [g.node -> Nat] BY <2>1
  <2>3. 0 \in Nat OBVIOUS
  <2> HIDE DEF w
  <2> QED BY <1>1, <2>2, <2>3, SumBound
<1>4. depth \in Nat
  <2> DEFINE T == {0} \union { k \in DOMAIN level : v \in level[k] }
  <2>1. IngressRoots(g) \in SUBSET g.node BY RootsAreServices
  <2>2. DOMAIN level = 0 .. N BY <2>1, LevelsOfSearch
  <2>3. depth = Max(T) BY DEF computeDepths
  <2> HIDE DEF level, N
  <2>4. T \in SUBSET Nat /\ T # {} /\ \A k \in T : k <= N BY <1>1, <2>2
  <2> HIDE DEF T
  <2>5. Max(T) \in T BY <1>1, <2>4, NatMax
  <2> QED BY <2>3, <2>4, <2>5
<1>5. spof \in Nat /\ spof <= 1 OBVIOUS
<1>6. /\ DOMAIN NodeMetrics(g) = g.node
      /\ NodeMetrics(g)[v] = [ inDegree |-> Cardinality(in), outDegree |-> Cardinality(out),
                               callFreq |-> calls, depth |-> depth, spof |-> spof ]
  BY DEF NodeMetrics
<1> HIDE DEF in, out, calls, depth, spof
<1> DEFINE m == NodeMetrics(g)[v]
<1>7. /\ m["inDegree"] \in Nat /\ m["outDegree"] \in Nat /\ m["callFreq"] \in Nat
      /\ m["depth"] \in Nat /\ m["spof"] \in Nat /\ m.spof <= 1
  BY <1>2, <1>3, <1>4, <1>5, <1>6
<1> QED BY <1>6, <1>7 DEF Metrics

\* No metric is above the largest one, and no largest one is zero.
LEMMA MaximaBound ==
  ASSUME NEW g, IsGraph(g), NEW v \in g.node, NEW f \in Metrics
  PROVE  /\ Maxima(NodeMetrics(g))[f] \in Nat \ {0}
         /\ NodeMetrics(g)[v][f] <= Maxima(NodeMetrics(g))[f]
<1> DEFINE m == NodeMetrics(g)
           S == { m[u][f] : u \in DOMAIN m }
           T == S \union {1}
           at == [u \in DOMAIN m |-> m[u][f]]
<1>1. DOMAIN m = g.node /\ \A u \in g.node : m[u][f] \in Nat BY MetricsAreCounts
<1>2. IsFiniteSet(g.node) BY GraphIsFinite
<1>3. m[v].spof <= 1 BY MetricsAreCounts
<1>4. f # "spof" => Maxima(m)[f] = Max(T)
  <2>1. CASE f = "inDegree" BY <2>1 DEF Maxima
  <2>2. CASE f = "outDegree" BY <2>2 DEF Maxima
  <2>3. CASE f = "callFreq" BY <2>3 DEF Maxima
  <2>4. CASE f = "depth" BY <2>4 DEF Maxima
  <2> QED BY <2>1, <2>2, <2>3, <2>4 DEF Metrics
<1>5. f = "spof" => Maxima(m)[f] = 1 BY DEF Maxima
<1> HIDE DEF m
<1>6. /\ Max(T) \in Nat /\ 1 <= Max(T) /\ m[v][f] <= Max(T)
  <2>1. at \in Surjection(DOMAIN m, S) BY DEF Surjection
  <2>2. S \subseteq Nat /\ m[v][f] \in S BY <1>1
  <2> HIDE DEF at, S
  <2>3. IsFiniteSet(S) BY <1>1, <1>2, <2>1, FS_Surjection
  <2>4. IsFiniteSet(T) BY <2>3, FS_AddElement
  <2>5. T \in SUBSET Nat /\ T # {} /\ 1 \in T /\ m[v][f] \in T BY <2>2
  <2> HIDE DEF T
  <2>6. Max(T) \in T /\ \A n \in T : n <= Max(T) BY <2>4, <2>5, FiniteMax
  <2> QED BY <2>5, <2>6
<1> HIDE DEF T
<1>7. CASE f = "spof"
  <2>1. m[v][f] = m[v].spof BY <1>7
  <2> QED BY <1>3, <1>5, <1>7, <2>1 DEF m
<1>8. CASE f # "spof"
  <2>1. Max(T) \in Nat \ {0} BY <1>6
  <2> QED BY <1>4, <1>6, <1>8, <2>1 DEF m
<1> QED BY <1>7, <1>8

IsMetrics(m) ==
  /\ m.inDegree \in Nat /\ m.outDegree \in Nat /\ m.callFreq \in Nat
  /\ m.depth \in Nat /\ m.spof \in Nat

LEMMA ProductGrows ==
  ASSUME NEW m, IsMetrics(m), NEW n, IsMetrics(n),
         /\ m.inDegree <= n.inDegree /\ m.outDegree <= n.outDegree
         /\ m.callFreq <= n.callFreq /\ m.depth <= n.depth /\ m.spof <= n.spof
  PROVE  Product(m) \in Nat /\ Product(n) \in Nat /\ Product(m) <= Product(n)
<1> DEFINE m2 == m.inDegree * m.outDegree
           m3 == m2 * m.callFreq
           m4 == m3 * m.depth
           n2 == n.inDegree * n.outDegree
           n3 == n2 * n.callFreq
           n4 == n3 * n.depth
<1>1. /\ m.inDegree \in Nat /\ m.outDegree \in Nat /\ m.callFreq \in Nat
      /\ m.depth \in Nat /\ m.spof \in Nat
      /\ n.inDegree \in Nat /\ n.outDegree \in Nat /\ n.callFreq \in Nat
      /\ n.depth \in Nat /\ n.spof \in Nat
  BY DEF IsMetrics
<1>2. m2 \in Nat /\ n2 \in Nat /\ m2 <= n2 BY <1>1, TimesGrows
<1> HIDE DEF m2, n2
<1>3. m3 \in Nat /\ n3 \in Nat /\ m3 <= n3 BY <1>1, <1>2, TimesGrows
<1> HIDE DEF m3, n3
<1>4. m4 \in Nat /\ n4 \in Nat /\ m4 <= n4 BY <1>1, <1>3, TimesGrows
<1> HIDE DEF m4, n4
<1>5. m4 * m.spof \in Nat /\ n4 * n.spof \in Nat /\ m4 * m.spof <= n4 * n.spof
  BY <1>1, <1>4, TimesGrows
<1>6. Product(m) = m4 * m.spof /\ Product(n) = n4 * n.spof
  BY DEF Product, m2, m3, m4, n2, n3, n4
<1> QED BY <1>5, <1>6

\* The bounds the code puts around the raw score are idle, for every graph and any
\* number of services (internal/graph/scoring.go:124).
THEOREM ScoresAreBounded == Spec => []BoundsAreIdle
<1>1. GraphInv => BoundsAreIdle
  <2> SUFFICES ASSUME GraphInv, NEW v \in graph.node
               PROVE  LET raw == rawScore(graph, v) IN 0 <= raw.num /\ raw.num <= 100 * raw.den
    BY DEF BoundsAreIdle
  <2> DEFINE m == NodeMetrics(graph)[v]
             n == Maxima(NodeMetrics(graph))
             part(f) == Product([n EXCEPT ![f] = m[f]])
             raw == rawScore(graph, v)
             den == Product(n)
  <2>1. IsGraph(graph) BY DEF GraphInv
  <2>2. \A f \in Metrics : n[f] \in Nat /\ m[f] \in Nat /\ m[f] <= n[f]
    BY <2>1, MetricsAreCounts, MaximaBound
  <2>3. DOMAIN n = Metrics BY DEF Maxima, Metrics
  <2>4. /\ raw.num = 11 * part("inDegree") + 7 * part("outDegree") + 36 * part("callFreq")
                       + 36 * part("depth") + 10 * part("spof")
        /\ raw.den = den
    BY DEF rawScore, DefaultCriticalityWeights
  <2> HIDE DEF m, n, raw
  <2>5. IsMetrics(n) BY <2>2 DEF IsMetrics, Metrics
  <2>6. ASSUME NEW f \in Metrics PROVE part(f) \in Nat /\ den \in Nat /\ part(f) <= den
    <3> DEFINE r == [n EXCEPT ![f] = m[f]]
    <3>1. \A e \in Metrics : r[e] = IF e = f THEN m[f] ELSE n[e] BY <2>3
    <3> HIDE DEF r
    <3>2. \A e \in Metrics : r[e] \in Nat /\ r[e] <= n[e] BY <2>2, <3>1
    <3>3. /\ IsMetrics(r)
          /\ r.inDegree <= n.inDegree /\ r.outDegree <= n.outDegree
          /\ r.callFreq <= n.callFreq /\ r.depth <= n.depth /\ r.spof <= n.spof
      BY <3>2 DEF IsMetrics, Metrics
    <3>4. Product(r) \in Nat /\ den \in Nat /\ Product(r) <= den
      BY <2>5, <3>3, ProductGrows
    <3> QED BY <3>4 DEF r
  <2> HIDE DEF part, den
  <2>7. "inDegree" \in Metrics /\ "outDegree" \in Metrics /\ "callFreq" \in Metrics
        /\ "depth" \in Metrics /\ "spof" \in Metrics
    BY DEF Metrics
  <2>8. /\ part("inDegree") \in Nat /\ part("inDegree") <= den
        /\ part("outDegree") \in Nat /\ part("outDegree") <= den
        /\ part("callFreq") \in Nat /\ part("callFreq") <= den
        /\ part("depth") \in Nat /\ part("depth") <= den
        /\ part("spof") \in Nat /\ part("spof") <= den /\ den \in Nat
    BY <2>6, <2>7
  <2> QED BY <2>4, <2>8 DEF raw
<1> QED BY <1>1, GraphAlways, PTL
=============================================================================
