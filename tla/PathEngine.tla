------------------------------ MODULE PathEngine ------------------------------
(***************************************************************************)
(* The graph algorithms every what-if question rests on: the connectivity, *)
(* shortest and alternate paths of simulation/path_engine.py and the       *)
(* structural scores of dependency/criticality.py.                         *)
(*                                                                         *)
(* A topology is a record of nodes, edges and costs.  discover_edges makes *)
(* one edge per unordered pair of nodes, and ADD_ROUTE refuses a pair that *)
(* has one, so an edge IS its pair of endpoints.  Node ids are numbers:    *)
(* sorting by id is sorting by <.  The cost of an edge is -log(confidence) *)
(* in whole units, at least 1, at most Penalty (the clip at 1e-9).         *)
(***************************************************************************)
EXTENDS Integers, Sequences, FiniteSets, FiniteSetsExt, SequencesExt

CONSTANT Penalty    \* -log(1e-9): the cost that stands for "no path"

ASSUME PenaltyAssumption == Penalty \in Nat \ {0}

None   == 0         \* an optional node or number that is absent
NoEdge == {}        \* an optional edge that is absent

\* The elements of S sorted by a strict total order.
Sorted(S, Before(_, _)) ==
    [i \in 1..Cardinality(S) |->
        CHOOSE x \in S : Cardinality({y \in S \ {x} : Before(y, x)}) = i - 1]

Topology(nodes, edges, cost) == [nodes |-> nodes, edges |-> edges, cost |-> cost]

IsTopology(g) ==
    /\ IsFiniteSet(g.nodes) /\ g.nodes \subseteq Nat \ {None}
    /\ \A e \in g.edges : e \subseteq g.nodes /\ Cardinality(e) = 2
    /\ g.cost \in [g.edges -> Nat]

Adjacent(g, n) == {m \in g.nodes : {n, m} \in g.edges}

IncidentEdges(g, n) == {e \in g.edges : n \in e}

\* The isolated copy a scenario leaves: the input is never changed.
Remaining(g, goneNodes, goneEdges) ==
    LET edges == g.edges \ goneEdges
    IN  Topology(g.nodes \ goneNodes, edges, [e \in edges |-> g.cost[e]])

WithoutNode(g, n) == Remaining(g, {n}, IncidentEdges(g, n))

-----------------------------------------------------------------------------
(* Connectivity.                                                           *)

\* Within(g, S)[d]: the nodes at most d hops from a node of S.
Within(g, S) ==
    LET within[d \in Nat] ==
          IF d = 0 THEN S
          ELSE LET closer == within[d - 1]
               IN  closer \cup UNION {Adjacent(g, n) : n \in closer}
    IN  within

ComponentOf(g, n) == Within(g, {n})[Cardinality(g.nodes)]

Components(g) == {ComponentOf(g, n) : n \in g.nodes}

\* max(components, key=len) over the components sorted by their smallest id.
IsLargest(C, components) ==
    \A D \in components :
        \/ Cardinality(C) > Cardinality(D)
        \/ Cardinality(C) = Cardinality(D) /\ Min(C) <= Min(D)

Connectivity(g) ==
    LET components == Components(g)
    IN  [components |-> components,
         largest    |-> IF components = {} THEN {}
                        ELSE CHOOSE C \in components : IsLargest(C, components)]

-----------------------------------------------------------------------------
(* Paths.  Which of several cheapest paths networkx returns is a function  *)
(* of the weighted graph; no property depends on which one it is.          *)

SimplePaths(g, s, t) ==
    LET from[k \in Nat] ==    \* the simple paths of k hops that start at s
          IF k = 0 THEN {<<s>>}
          ELSE LET shorter == from[k - 1]
               IN  UNION {{Append(p, m) : m \in Adjacent(g, Last(p)) \ ToSet(p)} :
                          p \in shorter}
    IN  {p \in UNION {from[k] : k \in 0..(Cardinality(g.nodes) - 1)} : Last(p) = t}

PathCost(weight, p) ==
    LET upTo[i \in 1..Len(p)] ==
          IF i = 1 THEN 0 ELSE upTo[i - 1] + weight[{p[i - 1], p[i]}]
    IN  upTo[Len(p)]

NoPath == [nodes |-> <<>>, cost |-> None]

ShortestPath(g, weight, s, t) ==
    LET paths == IF {s, t} \subseteq g.nodes THEN SimplePaths(g, s, t) ELSE {}
        all   == {[nodes |-> p, cost |-> PathCost(weight, p)] : p \in paths}
    IN  IF all = {} THEN NoPath
        ELSE CHOOSE p \in all : \A q \in all : p.cost <= q.cost

\* How many of the k cheapest simple paths there are.
AlternatePathCount(g, s, t, k) ==
    IF {s, t} \subseteq g.nodes THEN Min({k, Cardinality(SimplePaths(g, s, t))}) ELSE 0

\* Mutant: both routes are looked up in the baseline, under the new weights.
RouteChangeOfBaseline(baseline, current, weight, pair) ==
    LET before == ShortestPath(baseline, baseline.cost, pair[1], pair[2])
    IN  [pair |-> pair, baseline |-> before, current |-> before,
         changed |-> FALSE, delta |-> None]

RouteChange(baseline, current, weight, pair) ==
    LET before == ShortestPath(baseline, baseline.cost, pair[1], pair[2])
        after  == ShortestPath(current, weight, pair[1], pair[2])
    IN  [pair     |-> pair,
         baseline |-> before,
         current  |-> after,
         changed  |-> before.nodes # after.nodes,
         delta    |-> IF NoPath \in {before, after} THEN None
                      ELSE after.cost - before.cost]

\* What a route change adds to the degradation score.
RouteDegradation(change) ==
    IF change.baseline = NoPath THEN 0
    ELSE IF change.current = NoPath THEN Penalty
    ELSE Max({change.delta, 0})

TotalDegradation(changes) == MapThenSumSet(RouteDegradation, changes)

-----------------------------------------------------------------------------
(* Criticality.                                                            *)

\* networkx: a node whose removal splits its component.
ArticulationPoints(g) ==
    {n \in g.nodes : Cardinality(Components(WithoutNode(g, n))) > Cardinality(Components(g))}

PathDependencyImpact(g, n) ==
    Cardinality(g.nodes \ {n}) - Cardinality(Connectivity(WithoutNode(g, n)).largest)

\* networkx: over the pairs of other nodes, the share of the shortest paths
\* that pass through n, in sixtieths and without the common factor of the
\* normalisation.
Betweenness(g, n) ==
    LET hopPaths(s, t) ==
          LET paths == SimplePaths(g, s, t)
          IN  {p \in paths : \A q \in paths : Len(p) <= Len(q)}
        share(s, t) ==
          LET all     == hopPaths(s, t)
              through == {p \in all : n \in ToSet(p)}
          IN  IF all = {} THEN 0 ELSE (60 * Cardinality(through)) \div Cardinality(all)
        others == {p \in (g.nodes \ {n}) \X (g.nodes \ {n}) : p[1] < p[2]}
    IN  MapThenSumSet(LAMBDA p : share(p[1], p[2]), others)

\* The structural scores of one node (compute_graph_criticality).
Criticality(g) ==
    LET articulation == ArticulationPoints(g)
    IN  [n \in g.nodes |->
            [degree       |-> Cardinality(Adjacent(g, n)),
             betweenness  |-> Betweenness(g, n),
             articulation |-> n \in articulation,
             impact       |-> PathDependencyImpact(g, n)]]

\* Articulation points of g that were none before (bottleneck emergence).
NewBottlenecks(before, g) == ArticulationPoints(g) \ ArticulationPoints(before)
=============================================================================
