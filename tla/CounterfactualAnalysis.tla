------------------------ MODULE CounterfactualAnalysis ------------------------
(***************************************************************************)
(* Counterfactual scenarios: their schema (app/models/simulation.py), the  *)
(* engine that executes one on an isolated copy, the comparison of the     *)
(* copy with the baseline, the score of that prediction, and the ranking   *)
(* of root causes that runs one counterfactual per candidate               *)
(* (simulation/counterfactual_*.py, experiments/metrics/                   *)
(* counterfactual_validation.py, nlq/rootcause.py, nlq/translate.py).      *)
(***************************************************************************)
EXTENDS FailureSimulation

CONSTANT HypotheticalCost   \* -log(0.5), the cost of a route that is only supposed

ASSUME HypotheticalAssumption == HypotheticalCost \in Nat \ {0}

SoftActions == {"INCREASE_LATENCY", "REDUCE_BANDWIDTH", "INCREASE_TRAFFIC"}
Actions     == SoftActions \cup {"REMOVE_NODE", "REMOVE_EDGE", "ADD_ROUTE"}

\* CounterfactualScenario's own validator.
IsCounterfactual(s) ==
    /\ s.action # "ADD_ROUTE" => s.source = None
    /\ s.action \in SoftActions => s.extra # None
    /\ s.action \in {"REMOVE_NODE", "INCREASE_LATENCY", "INCREASE_TRAFFIC"} => s.node # None
    /\ s.action = "REMOVE_EDGE" => s.edge # NoEdge
    /\ s.action = "REDUCE_BANDWIDTH" => s.node # None \/ s.edge # NoEdge
    /\ s.action = "ADD_ROUTE" =>
          s.node # None /\ s.source # None /\ s.edge = NoEdge /\ s.node # s.source

\* The requests execute_counterfactual_scenario refuses with a ValueError.
IsIncoherent(g, s) ==
    \/ \E n \in {s.node, s.source} \ {None} : n \notin g.nodes
    \/ s.edge # NoEdge /\ s.edge \notin g.edges
    \/ s.action = "ADD_ROUTE" /\ {s.node, s.source} \in g.edges

Execute(g, s) ==
    LET goneNodes == IF s.action = "REMOVE_NODE" THEN {s.node} ELSE {}
        goneEdges == CASE s.action = "REMOVE_NODE" -> IncidentEdges(g, s.node)
                       [] s.action = "REMOVE_EDGE" -> {s.edge}
                       [] OTHER -> {}
        degraded  == CASE s.action \notin SoftActions -> {}
                       [] s.action = "REDUCE_BANDWIDTH" /\ s.edge # NoEdge -> {s.edge}
                       [] OTHER -> IncidentEdges(g, s.node)
        added     == IF s.action = "ADD_ROUTE" THEN {{s.source, s.node}} ELSE {}
        left      == Remaining(g, goneNodes, goneEdges)
        edges     == left.edges \cup added
    IN  [scenario     |-> s,
         graph        |-> Topology(left.nodes, edges,
                             [e \in edges |-> IF e \in added THEN HypotheticalCost ELSE g.cost[e]]),
         removedNodes |-> goneNodes,
         removedEdges |-> goneEdges,
         degraded     |-> degraded,
         added        |-> added]

\* Mutant: the adapter knows no bandwidth.
AdaptedWeightLatencyOnly(execution) ==
    LET s     == execution.scenario
        extra == IF s.action = "INCREASE_LATENCY" THEN s.extra ELSE 0
        g     == execution.graph
    IN  [e \in g.edges |-> g.cost[e] + IF e \in execution.degraded THEN extra ELSE 0]

\* The adapter to the path engine: more traffic has no failure type, and no cost.
AdaptedWeight(execution) ==
    LET s     == execution.scenario
        extra == IF s.action \in {"INCREASE_LATENCY", "REDUCE_BANDWIDTH"} THEN s.extra ELSE 0
        g     == execution.graph
    IN  [e \in g.edges |-> g.cost[e] + IF e \in execution.degraded THEN extra ELSE 0]

ComparisonPairs(baseline, s) ==
    IF s.action = "ADD_ROUTE" THEN {<<s.source, s.node>>}
    ELSE IF s.node # None THEN {<<m, s.node>> : m \in Adjacent(baseline, s.node)}
    ELSE {EdgePair(s.edge)}

ChangeSites(s) ==
    IF s.action = "ADD_ROUTE" THEN {s.source, s.node}
    ELSE IF s.node # None THEN {s.node}
    ELSE s.edge

\* The hop distance from the change, for the nodes cut off that it reaches.
StructuralImpacts(baseline, s, cut) ==
    LET within == Within(baseline, ChangeSites(s))
        hops   == 1..Cardinality(baseline.nodes)
        hit    == {n \in cut : \E d \in hops : n \in within[d] \ within[0]}
    IN  [n \in hit |-> CHOOSE d \in hops : n \in within[d] \ within[d - 1]]

Compare(baseline, execution, candidates) ==
    LET s       == execution.scenario
        before  == Connectivity(baseline)
        after   == Connectivity(execution.graph)
        cut     == NewlyUnreachable(execution, before, after)
        routes  == {RouteChange(baseline, execution.graph, AdaptedWeight(execution), p) :
                    p \in ComparisonPairs(baseline, s)}
        rerouted == UNION {ToSet(c.pair) : c \in {d \in routes : d.changed}}
        causal  == IF s.node # None THEN Propagate(candidates, s.node) ELSE NoImpact
        affected == execution.removedNodes \cup cut \cup rerouted \cup DOMAIN causal
        reasons(n) == {"removed" : i \in {n} \cap execution.removedNodes}
                      \cup {"newly_unreachable" : i \in {n} \cap cut}
                      \cup {"route_changed" : i \in {n} \cap rerouted}
                      \cup {"propagation" : i \in {n} \cap DOMAIN causal}
    IN  [execution        |-> execution,
         before           |-> before,
         after            |-> after,
         newlyUnreachable |-> cut,
         routes           |-> routes,
         latencyDelta     |-> TotalDegradation(routes),
         services         |-> [n \in affected |-> reasons(n)],
         bottlenecks      |-> NewBottlenecks(baseline, execution.graph),
         structural       |-> StructuralImpacts(baseline, s, cut),
         causal           |-> causal]

\* The adapter's own schema refuses a ratio above 1 or a negative latency; extra is then -1.
IsUncomparable(s) == s.action \in {"INCREASE_LATENCY", "REDUCE_BANDWIDTH"} /\ s.extra < 0

\* A scenario the lab cannot realise is reported unvalidated, never scored.
Unvalidated == [validated |-> FALSE]

CounterfactualScore(r, actual) ==
    IF ~actual.realizable THEN Unvalidated
    ELSE [validated    |-> TRUE,
          affected     |-> AffectedScores(DOMAIN r.services, actual.affected),
          paths        |-> PathMatchRate(r, actual),
          connectivity |-> ConnectivityAccuracy(r, actual)]

-----------------------------------------------------------------------------
(* Root causes.  For one failed node, every other node and every edge is   *)
(* removed in turn, and the failure is run again on what is left.          *)

NodeRemoval(n) ==
    [action |-> "REMOVE_NODE", node |-> n, edge |-> NoEdge, source |-> None, extra |-> None]

EdgeRemoval(e) ==
    [action |-> "REMOVE_EDGE", node |-> None, edge |-> e, source |-> None, extra |-> None]

NodeFailure(n) == [type |-> "node_failure", node |-> n, edge |-> NoEdge, extra |-> None]

RemovalsBefore(a, b) ==    \* the nodes by id, then the edges by id
    IF a.action # b.action THEN a.action = "REMOVE_NODE"
    ELSE IF a.action = "REMOVE_NODE" THEN a.node < b.node
    ELSE LET x == EdgePair(a.edge)
             y == EdgePair(b.edge)
         IN  x[1] < y[1] \/ (x[1] = y[1] /\ x[2] < y[2])

RemovalOptions(g, failed, maxCandidates) ==
    LET all == {NodeRemoval(n) : n \in g.nodes \ {failed}} \cup {EdgeRemoval(e) : e \in g.edges}
        ordered == Sorted(all, RemovalsBefore)
    IN  {ordered[i] : i \in 1..Min({maxCandidates, Len(ordered)})}

\* The nodes the rerun has and does not find cut off.
\* Mutant: a removed node is never found cut off, and counts as saved.
SavedOrRemoved(cut, present, stranded) == cut \ stranded

Saved(cut, present, stranded) == (cut \cap present) \ stranded

RootCause(g, failed, option, cut) ==
    LET execution == Execute(g, option)
        rerun     == Inject(execution.graph, NodeFailure(failed))
        before    == Connectivity(g)
        after     == Connectivity(execution.graph)
        stranded  == NewlyUnreachable(rerun, after, Connectivity(rerun.graph))
    IN  [option     |-> option,
         impacted   |-> cut,
         prevented  |-> Saved(cut, execution.graph.nodes, stranded),
         collateral |-> NewlyUnreachable(execution, before, after)]

RankRootCauses(g, failed, maxCandidates) ==
    LET injection == Inject(g, NodeFailure(failed))
        cut       == NewlyUnreachable(injection, Connectivity(g), Connectivity(injection.graph))
        ranked    == {RootCause(g, failed, o, cut) : o \in RemovalOptions(g, failed, maxCandidates)}
        Better(a, b) ==
            LET p == Cardinality(a.prevented) - Cardinality(b.prevented)
                c == Cardinality(a.collateral) - Cardinality(b.collateral)
            IN  \/ p > 0
                \/ p = 0 /\ c < 0
                \/ p = 0 /\ c = 0 /\ RemovalsBefore(a.option, b.option)
    IN  Sorted(ranked, Better)

-----------------------------------------------------------------------------
(* A question in words.  The language model's reading of it is a proposal  *)
(* of an action, ids and candidate targets; only ids of this topology pass.*)

TranslateQuestion(g, proposal, roles) ==
    LET s      == proposal.scenario
        known  == proposal.candidates \cap g.nodes
        holders == {n \in g.nodes : roles[n] = proposal.role}
        ambiguous == proposal.role # "none" /\ Cardinality(holders) > 1
                     /\ (s.node = None \/ s.node \in holders)
        foreign == \/ \E n \in {s.node, s.source} \ {None} : n \notin g.nodes
                   \/ s.edge # NoEdge /\ s.edge \notin g.edges
    IN  IF ~proposal.supported \/ s.action \notin Actions THEN "unsupported"
        ELSE IF known # proposal.candidates THEN "unknown_entity"
        ELSE IF Cardinality(known) > 1 \/ proposal.unclear \/ ambiguous THEN "needs_clarification"
        ELSE IF foreign THEN "unknown_entity"
        ELSE IF ~IsCounterfactual(s) THEN "invalid_scenario"
        ELSE "translated"

\* ask_counterfactual: what the caller is told about the question.
Ask(g, proposal, roles) ==
    LET outcome == TranslateQuestion(g, proposal, roles)
    IN  IF outcome # "translated" THEN outcome
        ELSE IF IsIncoherent(g, proposal.scenario) THEN "invalid_scenario"
        ELSE IF IsUncomparable(proposal.scenario) THEN "error"
        ELSE "answered"
=============================================================================
