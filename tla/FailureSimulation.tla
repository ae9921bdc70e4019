--------------------------- MODULE FailureSimulation ---------------------------
(***************************************************************************)
(* Failure -> propagation -> routing -> service impact, the indicators     *)
(* computed from it, and the score of the prediction against what really   *)
(* happened: simulation/failure_injection.py, failure_propagation_pipeline *)
(* and resilience_indicators.py, dependency/failure_propagation.py and     *)
(* experiments/metrics/failure_propagation_validation.py.                  *)
(*                                                                         *)
(* A scenario is a record of its type, its optional targets and "extra",   *)
(* the cost its magnitude adds to a degraded edge (latency_ms / 100 or     *)
(* -log(1 - ratio)); None when the scenario gives no magnitude.            *)
(***************************************************************************)
EXTENDS PathEngine

NodeTargeted == {"node_failure", "latency_injection", "service_degradation"}
RatioTypes   == {"packet_loss", "bandwidth_reduction"}
FailureTypes == NodeTargeted \cup RatioTypes \cup {"edge_failure"}

\* FailureScenario's own validator.
IsFailureScenario(s) ==
    /\ s.type \in NodeTargeted => s.node # None
    /\ s.type = "edge_failure" => s.edge # NoEdge
    /\ s.type \in RatioTypes => s.extra # None

\* The requests apply_failure_scenario refuses with a ValueError.
IsInconsistent(g, s) ==
    \/ s.node # None /\ s.node \notin g.nodes
    \/ s.edge # NoEdge /\ s.edge \notin g.edges
    \/ s.type \in RatioTypes /\ s.node = None /\ s.edge = NoEdge

Inject(g, s) ==
    LET goneNodes == IF s.type = "node_failure" THEN {s.node} ELSE {}
        goneEdges == CASE s.type = "node_failure" -> IncidentEdges(g, s.node)
                       [] s.type = "edge_failure" -> {s.edge}
                       [] OTHER -> {}
        degraded  == CASE s.type \in {"node_failure", "edge_failure"} -> {}
                       [] s.type \in RatioTypes /\ s.edge # NoEdge -> {s.edge}
                       [] OTHER -> IncidentEdges(g, s.node)
    IN  [scenario     |-> s,
         graph        |-> Remaining(g, goneNodes, goneEdges),
         removedNodes |-> goneNodes,
         removedEdges |-> goneEdges,
         degraded     |-> degraded,
         added        |-> {}]

\* A latency injection without latency_ms passes the schema and is divided
\* when the first degraded edge is weighed: a TypeError out of the pipeline.
IsUnweighable(injection) ==
    /\ injection.scenario.type = "latency_injection"
    /\ injection.scenario.extra = None
    /\ injection.degraded # {}

Weight(injection) ==
    LET g     == injection.graph
        extra == IF injection.scenario.type = "service_degradation" THEN 0
                 ELSE injection.scenario.extra
    IN  [e \in g.edges |-> g.cost[e] + IF e \in injection.degraded THEN extra ELSE 0]

-----------------------------------------------------------------------------
\* Two hops of causal candidates from the failed node, each node once; the
\* frontier is walked in id order, so the smallest node that reaches it is the cause.
Propagate(candidates, failed) ==
    LET targets(S) == {c[2] : c \in {d \in candidates : d[1] \in S}}
        second == targets({failed}) \ {failed}
        third  == targets(second) \ (second \cup {failed})
        cause(n, frontier) == Min({m \in frontier : <<m, n>> \in candidates})
    IN  [n \in {failed} \cup second \cup third |->
            CASE n = failed   -> [order |-> "primary", cause |-> None]
              [] n \in second -> [order |-> "secondary", cause |-> failed]
              [] OTHER        -> [order |-> "tertiary", cause |-> cause(n, second)]]

NoImpact == [n \in {} |-> None]

\* Mutant: counts the nodes that are gone.
NewlyUnreachableOrGone(change, before, after) == before.largest \ after.largest

\* In the largest component before, still present, not in the largest one after.
NewlyUnreachable(change, before, after) ==
    (before.largest \ change.removedNodes) \ after.largest

EdgePair(e) == <<Min(e), Max(e)>>

RoutePairs(g, injection) ==
    LET s == injection.scenario
    IN  IF s.node # None
        THEN {<<m, s.node>> : m \in Adjacent(g, s.node) \ injection.removedNodes}
        ELSE IF s.edge # NoEdge THEN {EdgePair(s.edge)} ELSE {}

Pipeline(g, s, candidates) ==
    LET injection == Inject(g, s)
        impacts   == IF s.node # None THEN Propagate(candidates, s.node) ELSE NoImpact
        before    == Connectivity(g)
        after     == Connectivity(injection.graph)
        cut       == NewlyUnreachable(injection, before, after)
    IN  [injection        |-> injection,
         impacts          |-> impacts,
         before           |-> before,
         after            |-> after,
         newlyUnreachable |-> cut,
         routes           |-> {RouteChange(g, injection.graph, Weight(injection), p) :
                               p \in RoutePairs(g, injection)},
         services         |-> [n \in DOMAIN impacts \cup cut |->
                                 {"propagation" : i \in {n} \cap DOMAIN impacts}
                                 \cup {"routing" : i \in {n} \cap cut}]]

-----------------------------------------------------------------------------
(* Resilience indicators.  A ratio is a pair <<numerator, denominator>>;   *)
(* a ratio of nothing to nothing is <<1, 1>>.                              *)

Ratio(n, d) == IF d = 0 THEN <<1, 1>> ELSE <<n, d>>

Reachable(connectivity) ==
    UNION {C \in connectivity.components : Cardinality(C) >= 2}

ConnectivityRatio(r) ==
    Ratio(Cardinality(r.after.largest), Cardinality(r.before.largest))

ReachableRatio(r) ==
    Ratio(Cardinality(Reachable(r.after)), Cardinality(UNION r.before.components))

Indicators(g, r) ==
    [connectivity      |-> ConnectivityRatio(r),
     reachable         |-> ReachableRatio(r),
     affected          |-> Cardinality(DOMAIN r.services),
     degradation       |-> TotalDegradation(r.routes),
     bottlenecks       |-> NewBottlenecks(g, r.injection.graph),
     alternative       |-> \E c \in r.routes :
                              /\ c.current # NoPath
                              /\ AlternatePathCount(r.injection.graph, c.pair[1], c.pair[2], 2) >= 2]

-----------------------------------------------------------------------------
(* Scoring a prediction.  What really happened is a record of the nodes    *)
(* really affected, the largest component really left and, for the pairs   *)
(* it can tell, whether they can still reach each other.                   *)

AffectedScores(predicted, actual) ==
    LET matched == Cardinality(predicted \cap actual)
        p       == Cardinality(predicted)
        a       == Cardinality(actual)
    IN  IF p = 0 /\ a = 0 THEN [precision |-> <<1, 1>>, recall |-> <<1, 1>>, f1 |-> <<1, 1>>]
        ELSE [precision |-> IF p = 0 THEN <<0, 1>> ELSE <<matched, p>>,
              recall    |-> IF a = 0 THEN <<0, 1>> ELSE <<matched, a>>,
              f1        |-> <<2 * matched, p + a>>]

PathMatchRate(r, actual) ==
    LET told    == {c \in r.routes : c.pair \in DOMAIN actual.reachablePairs}
        correct == {c \in told : (c.current # NoPath) = actual.reachablePairs[c.pair]}
    IN  Ratio(Cardinality(correct), Cardinality(told))

\* 1 minus the mean of two absolute differences, over one denominator.
ConnectivityAccuracy(r, actual) ==
    LET size == Cardinality(actual.largest)
        main == ConnectivityRatio(r)
        all  == ReachableRatio(r)
        Abs(x) == IF x < 0 THEN -x ELSE x
        mainError == IF r.before.largest = {} THEN 0 ELSE Abs(main[1] - size)
        allError  == IF r.before.largest = {} THEN 0 ELSE Abs(all[1] - size)
        whole     == 2 * main[2] * all[2]
    IN  <<whole - mainError * all[2] - allError * main[2], whole>>

FailureScore(r, actual) ==
    [affected     |-> AffectedScores(DOMAIN r.services \cup r.newlyUnreachable, actual.affected),
     paths        |-> PathMatchRate(r, actual),
     connectivity |-> ConnectivityAccuracy(r, actual)]
=============================================================================
