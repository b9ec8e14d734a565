---------------------------- MODULE ServiceGraph ----------------------------
(***************************************************************************)
(* internal/graph: the dependency graph stitched from traces (analyser.go) *)
(* and the criticality of its services (scoring.go).                       *)
(*                                                                         *)
(* A graph is a record of its services, node, and of calls, the number of  *)
(* edges it holds for each pair of caller and callee: every edge BuildGraph*)
(* adds has CallCount 1 and Frequency 1.0.                                 *)
(***************************************************************************)
EXTENDS Integers, FiniteSets, FiniteSetsExt

CONSTANTS
  Services,
  Unnamed   \* the empty name of a span whose process is not in its trace

ASSUME ServiceAssumption == Unnamed \in Services /\ IsFiniteSet(Services)

EmptyGraph == [ node |-> {}, calls |-> [p \in Services \X Services |-> 0] ]

Callers(g, v) == { u \in g.node : g.calls[<< u, v >>] > 0 }
Callees(g, v) == { w \in g.node : g.calls[<< v, w >>] > 0 }

(***************************************************************************)
(* BuildGraph.  A trace is a set of spans, each with its service and the   *)
(* spans it is a child of; a parent that is not in the trace has no name.  *)
(***************************************************************************)
ServicesOf(trace) == { s.service : s \in trace }

ServiceOfSpan(trace, id) ==
  IF \E s \in trace : s.id = id
  THEN (CHOOSE s \in trace : s.id = id).service ELSE Unnamed

\* The references of the trace that make an edge from u to v, each with its span.
References(trace, u, v) ==
  { ref \in trace \X UNION { s.parents : s \in trace } :
      /\ ref[2] \in ref[1].parents
      /\ ref[1].service = v /\ ServiceOfSpan(trace, ref[2]) = u
      /\ u # Unnamed /\ u # v }

AddTrace(g, trace) ==
  [ node  |-> g.node \union ServicesOf(trace),
    calls |-> [p \in Services \X Services |->
                 g.calls[p] + Cardinality(References(trace, p[1], p[2]))] ]

(***************************************************************************)
(* Reachability.  The breadth-first search of the code visits one level    *)
(* after the other.                                                        *)
(***************************************************************************)
IngressRoots(g) == { v \in g.node : Callers(g, v) = {} }

\* Mutant of Levels: a service is visited again.
LevelsRevisit(g, roots, exclude) ==
  LET level[k \in 0 .. Cardinality(g.node)] ==
        IF k = 0 THEN roots \ exclude
        ELSE (UNION { Callees(g, v) : v \in level[k - 1] }) \ exclude
  IN  level

\* The services that calls lead to from a level, and that were not visited before.
NextLevel(g, exclude, prev) ==
  (UNION { Callees(g, v) : v \in prev.level }) \ (exclude \union prev.visited)

Search(g, roots, exclude) ==
  LET search[k \in 0 .. Cardinality(g.node)] ==
        IF k = 0
        THEN [ visited |-> roots \ exclude, level |-> roots \ exclude ]
        ELSE LET next == NextLevel(g, exclude, search[k - 1])
             IN  [ visited |-> search[k - 1].visited \union next, level |-> next ]
  IN  search

Levels(g, roots, exclude) ==
  [k \in 0 .. Cardinality(g.node) |-> Search(g, roots, exclude)[k].level]

getReachableNodes(g, roots, exclude) ==
  LET level == Levels(g, roots, exclude)
  IN  UNION { level[k] : k \in DOMAIN level }

\* Services that no ingress root reaches keep the depth 0.
computeDepths(g) ==
  LET level == Levels(g, IngressRoots(g), {})
  IN  [v \in g.node |-> Max({0} \union { k \in DOMAIN level : v \in level[k] })]

\* A graph without an ingress root is searched from everywhere.
SearchRoots(g) == IF IngressRoots(g) = {} THEN g.node ELSE IngressRoots(g)

\* Mutants of Isolated: services that were never reached count as isolated; the
\* removal of a service takes its callees along.
IsolatedUnreached(g, candidate) ==
  LET roots == SearchRoots(g)
  IN  IF Cardinality(g.node) <= 2 \/ roots = {candidate} THEN {}
      ELSE g.node \ ({candidate} \union getReachableNodes(g, roots, {candidate}))

IsolatedWithCallees(g, candidate) ==
  LET roots == SearchRoots(g)
  IN  IF Cardinality(g.node) <= 2 \/ roots = {candidate} THEN {}
      ELSE getReachableNodes(g, roots, {Unnamed})
             \ ({candidate} \union
                  getReachableNodes(g, roots, {candidate} \union Callees(g, candidate)))

\* The services that a removal of the candidate cuts off.  Small graphs and a
\* sole root are passed over.  The search before the removal excludes the empty
\* name, which is the name of the services without one.
Isolated(g, candidate) ==
  LET roots == SearchRoots(g)
  IN  IF Cardinality(g.node) <= 2 \/ roots = {candidate} THEN {}
      ELSE getReachableNodes(g, roots, {Unnamed})
             \ ({candidate} \union getReachableNodes(g, roots, {candidate}))

IsSPOF(g, v) == Isolated(g, v) # {}

(***************************************************************************)
(* Scores, in percent and before they are rounded.  A normalised metric is *)
(* a fraction of the largest one in the mesh, so the raw score is one      *)
(* fraction over their product.                                            *)
(***************************************************************************)
DefaultCriticalityWeights ==
  [ inDegree |-> 11, outDegree |-> 7, callFreq |-> 36, depth |-> 36, spof |-> 10 ]

NodeMetrics(g) ==
  LET depths == computeDepths(g)
      calls(v) == SumFunctionOnSet([u \in g.node |-> g.calls[<< u, v >>]], g.node)
  IN  [v \in g.node |->
         [ inDegree  |-> Cardinality(Callers(g, v)),
           outDegree |-> Cardinality(Callees(g, v)),
           callFreq  |-> calls(v),
           depth     |-> depths[v],
           spof      |-> IF IsSPOF(g, v) THEN 1 ELSE 0 ]]

\* Mutant of Maxima: the depths are not yet known when the maxima are taken.
MaximaBeforeDepth(metrics) ==
  LET largest(f) == Max({ metrics[v][f] : v \in DOMAIN metrics } \union {1})
  IN  [ inDegree |-> largest("inDegree"), outDegree |-> largest("outDegree"),
        callFreq |-> largest("callFreq"), depth |-> 1, spof |-> 1 ]

\* The largest value of each metric; 1 where all are 0, and all shares with it.
Maxima(metrics) ==
  LET largest(f) == Max({ metrics[v][f] : v \in DOMAIN metrics } \union {1})
  IN  [ inDegree |-> largest("inDegree"), outDegree |-> largest("outDegree"),
        callFreq |-> largest("callFreq"), depth |-> largest("depth"), spof |-> 1 ]

Product(m) == m.inDegree * m.outDegree * m.callFreq * m.depth * m.spof

\* S(v): a numerator over the product of the maxima.  The share of a metric in it
\* is the product with the metric in the place of its maximum.
rawScore(g, v) ==
  LET metrics == NodeMetrics(g)
      largest == Maxima(metrics)
      share(f) == DefaultCriticalityWeights[f] * Product([largest EXCEPT ![f] = metrics[v][f]])
  IN  [ num |-> share("inDegree") + share("outDegree") + share("callFreq") + share("depth")
                  + share("spof"),
        den |-> Product(largest) ]
=============================================================================
