------------------------------ MODULE Analyses ------------------------------
(***************************************************************************)
(* The computations of an experiment on the inputs they get: the load plan *)
(* of a request, the dependency graph while Jaeger is queried service by   *)
(* service, and the observations while they come in.  A behaviour is about *)
(* one of the three.                                                       *)
(***************************************************************************)
EXTENDS LoadRamp, ServiceGraph, CapacityReport

CONSTANTS
  Plans,      \* load plans of requests
  Traces,     \* traces Jaeger may return
  Policies,   \* safety policies
  Config,     \* the planned maximum and the recovery window of the experiment
  Scores,     \* scores the target service may have
  Rows,       \* what a row of observations may hold
  Times,      \* the timestamps of the rows, in tenths of a second
  Tolerance,  \* TolerancePercentage
  MaxRows     \* bound: rows of an experiment

\* The integers of a request are those of the machine; a query returns finitely many
\* traces of finitely many spans; the metrics of a row, its time and the limits of a
\* policy count from zero.
ASSUME InputAssumption ==
  /\ Plans \subseteq [ initialRate : Ints, maxRate : Ints, stepRate : Ints,
                       stepDurationSeconds : Ints ]
  /\ IsFiniteSet(Traces)
  /\ \A trace \in Traces :
       /\ IsFiniteSet(trace) /\ ServicesOf(trace) \subseteq Services
       /\ \A s \in trace : IsFiniteSet(s.parents)
  /\ Policies \subseteq [ maxP95 : Nat, maxError : Nat, minAvail : Nat ]
  /\ Rows \subseteq [ load : Nat, p95 : Nat, error : Nat, avail : Nat, cpu : Nat, memory : Nat ]
  /\ Times \subseteq Nat /\ Tolerance \in Nat /\ MaxRows \in Nat
  /\ Config.maxRate \in Nat /\ Config.recoveryWindowSec \in Nat

VARIABLES
  subject,
  plan, ran, ramp,      \* the plan, the rates its handler was called with, the run
  graph, unqueried,     \* the graph, the services Jaeger was not asked for yet
  policy, observations

planVars == << plan, ran, ramp >>
graphVars == << graph, unqueried >>
vars == << subject, planVars, graphVars, policy, observations >>

Init ==
  /\ subject \in { "plan", "graph", "observations" }
  /\ plan \in Plans /\ (subject # "plan" => plan = CHOOSE p \in Plans : TRUE)
  /\ ran = << >> /\ ramp = "step"
  /\ policy \in Policies /\ (subject # "observations" => policy = CHOOSE p \in Policies : TRUE)
  /\ graph = EmptyGraph
  /\ unqueried = (UNION { ServicesOf(trace) : trace \in Traces }) \ {Unnamed}
  /\ observations = [t \in {} |-> 0]

(***************************************************************************)
(* StepController.Run: a handler that may fail, a timer, and a context     *)
(* that may be cancelled at any time.                                      *)
(***************************************************************************)
RunFrame == UNCHANGED << subject, plan, graphVars, policy, observations >>

RunStep ==
  /\ subject = "plan" /\ Validate(plan) /\ ramp = "step"
  /\ LET rate == IF ran = << >> THEN plan.initialRate ELSE NextRate(plan, ran[Len(ran)])
     IN  ran' = Append(ran, Min({ plan.maxRate, rate }))
  /\ ramp' \in { "wait", "ended" } /\ RunFrame

RunTimer ==
  /\ ramp = "wait"
  /\ ramp' = IF ran[Len(ran)] >= plan.maxRate THEN "completed" ELSE "step"
  /\ UNCHANGED ran /\ RunFrame

RunCancelled ==
  /\ subject = "plan" /\ Validate(plan) /\ ramp \in { "step", "wait" }
  /\ ramp' = "ended" /\ UNCHANGED ran /\ RunFrame

\* The query for a service returns any of the traces it takes part in; a trace
\* of several services comes back for each of them.
QueryService(s, found) ==
  /\ subject = "graph" /\ s \in unqueried
  /\ \A trace \in found : s \in ServicesOf(trace)
  /\ unqueried' = unqueried \ {s}
  /\ graph' = FoldSet(LAMBDA trace, g : AddTrace(g, trace), graph, found)
  /\ UNCHANGED << subject, planVars, policy, observations >>

\* A failing query ends BuildGraph without a graph.
QueryFails ==
  /\ subject = "graph" /\ unqueried # {}
  /\ unqueried' = {} /\ graph' = EmptyGraph
  /\ UNCHANGED << subject, planVars, policy, observations >>

SaveObservation(t, row) ==
  /\ subject = "observations" /\ t \notin DOMAIN observations
  /\ Cardinality(DOMAIN observations) < MaxRows
  /\ observations' = [u \in DOMAIN observations \union {t} |->
                        IF u = t THEN row ELSE observations[u]]
  /\ UNCHANGED << subject, planVars, policy, graphVars >>

Next ==
  \/ RunStep \/ RunTimer \/ RunCancelled
  \/ \E s \in Services, found \in SUBSET Traces : QueryService(s, found)
  \/ QueryFails
  \/ \E t \in Times, row \in Rows : SaveObservation(t, row)

Spec == Init /\ [][Next]_vars

-----------------------------------------------------------------------------
(* Properties.                                                             *)

\* "step traffic up from InitialRate to MaxRate" (internal/stress/ramp.go:22):
\* whatever integers an accepted plan holds, its steps rise without a jump of
\* more than stepRate and end at maxRate exactly, and a run calls its handler
\* with these steps in a row, with all of them unless it is cut short.
AcceptedPlanClimbs ==
  Validate(plan) =>
    LET steps == CalculateSteps(plan)
        n == Len(steps)
    IN  /\ n > 0 /\ steps[1] = plan.initialRate /\ steps[n] = plan.maxRate
        /\ \A i \in 1 .. (n - 1) :
             steps[i + 1] - steps[i] \in 1 .. plan.stepRate
        /\ \A i \in 1 .. (n - 2) : steps[i + 1] - steps[i] = plan.stepRate
        /\ Len(ran) <= n /\ ran = SubSeq(steps, 1, Len(ran))
        /\ ramp = "completed" => ran = steps

\* "shortest distance from ingress roots" (internal/graph/scoring.go:380):
\* a root is at 0, every other service a root can reach is one call behind the
\* nearest of its callers that a root can reach.
DepthIsShortest ==
  LET depth == computeDepths(graph)
      reached == getReachableNodes(graph, IngressRoots(graph), {})
  IN  \A v \in graph.node :
        IF v \in reached \ IngressRoots(graph)
        THEN depth[v] = 1 + Min({ depth[u] : u \in Callers(graph, v) \intersect reached })
        ELSE depth[v] = 0

\* "services whose removal isolates one or more downstream services"
\* (internal/graph/scoring.go:282): what a cut-off service would itself cut off
\* goes down with it, and two services that both cut off a third do so one
\* behind the other, never side by side.
IsolationIsNested ==
  LET cut == [v \in graph.node |-> Isolated(graph, v)]
  IN  \A a, b \in graph.node :
        /\ b \in cut[a] => cut[b] \subseteq cut[a]
        /\ cut[a] \intersect cut[b] # {} => cut[a] \subseteq cut[b] \/ cut[b] \subseteq cut[a]

\* Calls that are only now observed between known services make no known
\* service depend on one more single point, unless they change the ingress.
RedundancyIsolatesNobody ==
  [][ \/ graph'.node # graph.node
      \/ IngressRoots(graph') # IngressRoots(graph)
      \/ \A v \in graph.node :
           Isolated(graph', v) \intersect getReachableNodes(graph, SearchRoots(graph), {})
             \subseteq Isolated(graph, v) ]_graph

\* "S(v) in [0.0, 1.0]" (docs/LLD.md:622) by the normalisation alone: the bounds
\* the code puts around the raw score hide no more than a rounding error.
BoundsAreIdle ==
  \A v \in graph.node :
    LET raw == rawScore(graph, v) IN 0 <= raw.num /\ raw.num <= 100 * raw.den

\* At least three rows of a rate, all of them exactly at a limit: their average is
\* that limit, give or take the rounding of its sum.
AtLimit(obs, p, r) ==
  /\ Cardinality(At(obs, r)) > 2
  /\ \/ p.maxP95 > 0 /\ \A t \in At(obs, r) : obs[t].p95 = p.maxP95
     \/ p.maxError > 0 /\ \A t \in At(obs, r) : obs[t].error = p.maxError

\* "Highest rate meeting all SLA criteria" (docs/LLD.md:421): none of the rows
\* at the sustainable rate breached the policy, and each higher rate has one
\* that did, or stands at a limit.  The averages of a tier hide no breach, and
\* they add one only where they are rounded up from the limit itself.
SustainableRateIsClean ==
  LET rate == MaximumSustainableRate(observations, policy)
      clean(r) == \A t \in At(observations, r) : ~isSlaBreached(observations[t], policy)
  IN  /\ rate > 0 => rate \in Rates(observations) /\ clean(rate)
      /\ \A r \in Rates(observations) : r > rate => ~clean(r) \/ AtLimit(observations, policy, r)

\* "Lowest load rate where an SLA breach occurred, or maximum sustainable rate
\* if no breach occurred" (docs/LLD.md:423): no lower rate breached, the boundary
\* itself did, and without a breach it is the highest rate tested.  A rate at a
\* limit whose average is rounded up may take the place of either.
BoundaryIsLowestBreach ==
  LET boundary == SafetyBoundaryRate(observations, policy)
      breached == { t \in DOMAIN observations : isSlaBreached(observations[t], policy)
                                                  /\ Rate(observations[t]) > 0 }
  IN  /\ \A t \in breached : boundary <= Rate(observations[t])
      /\ \/ \E t \in breached : boundary = Rate(observations[t])
         \/ breached = {} /\ boundary = MaximumTestedRate(observations)
         \/ boundary \in Rates(observations) /\ AtLimit(observations, policy, boundary)

\* "knee point" (internal/capacity/analyzer.go:128): the degradation begins
\* strictly inside the tested rates, at a rate behind which the latency rises.
\* The averages are exact here: that two equal ones may differ by the rounding of
\* their sums is left out.
KneeIsInside ==
  LET tiers == sortedTiers(observations, policy)
      knee == calculateDegradationRate(tiers)
  IN  knee # 0 =>
        \E k \in 2 .. (Len(tiers) - 1) :
          /\ tiers[k].loadRate = knee
          /\ tiers[k + 1].totalP95 * tiers[k].count > tiers[k].totalP95 * tiers[k + 1].count

\* The two recovery times of the package agree: for a policy whose only limit
\* is the threshold of the objective, the analyzer's recovery time is the RTO.
\* Latencies count in a unit of which the threshold is a multiple.
RecoveryAgreesWithRTO ==
  LET baseline == ExtractPreTestBaseline(observations)
      rto    == CalculateRTO(observations, Tolerance)
      scaled == [t \in DOMAIN observations |->
                   [observations[t] EXCEPT !.p95 = 100 * @ * baseline.count]]
      limit  == baseline.total * (100 + Tolerance)
  IN  rto.ok => calculateRecoveryTime(scaled,
                  [ maxP95 |-> limit, maxError |-> 0, minAvail |-> 0 ]) = rto.seconds

\* A report hides no breach ("System operated within normal operational
\* thresholds", internal/report/generator.go:387): if that is all it recommends,
\* every rate was sustained, up to the planned one, and no row left the limits of
\* latency and errors; its chart marks a breach if there was one under load, and
\* without one only for a rate at a limit; each row that breached under load is
\* badged so.
ReportHidesNoBreach ==
  \A matched \in Scores :
    LET report   == Generate(Config, policy, matched, observations)
        breached == { t \in DOMAIN observations : isSlaBreached(observations[t], policy) }
        loaded   == { t \in breached : Rate(observations[t]) > 0 }
    IN  /\ report.recommendations = { "normal" } =>
             /\ loaded = {} /\ report.result.sustainable >= Config.maxRate
             /\ \A t \in breached : observations[t].avail < policy.minAvail
        /\ loaded # {} => "Breach" \in report.markers
        /\ "Breach" \in report.markers =>
             loaded # {} \/ \E r \in Rates(observations) : AtLimit(observations, policy, r)
        /\ \A t \in loaded : report.badge[t] = "SLA Breach"

\* "MaximumSustainableRate: Highest rate meeting all SLA criteria"
\* (docs/LLD.md:421): a row at that rate is not badged as a breach of the SLA.
\* The code does not keep this: without a breach the boundary rate is the
\* sustainable rate, and the badge asks for that rate only.
SustainableIsNoBreach ==
  LET report == Generate(Config, policy, Unscored, observations)
  IN  \A t \in DOMAIN observations :
        report.badge[t] = "SLA Breach" => Rate(observations[t]) # report.result.sustainable
=============================================================================
