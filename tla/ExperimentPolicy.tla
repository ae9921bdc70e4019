--------------------------- MODULE ExperimentPolicy ---------------------------
(***************************************************************************)
(* Which node to fail next, and how a real outcome corrects the twin:      *)
(* dependency/experiment_recommendations.py, dependency/experiment_policy  *)
(* and the real outcome matrix_runner.py derives from the declared graph.  *)
(***************************************************************************)
EXTENDS CounterfactualAnalysis

\* The scenarios worth running: every articulation point, worst first, then
\* the other nodes of more than mean betweenness, busiest first.
Recommendations(g) ==
    LET score  == Criticality(g)
        total  == MapThenSumSet(LAMBDA n : score[n].betweenness, g.nodes)
        points == {n \in g.nodes : score[n].articulation}
        chokes == {n \in g.nodes \ points :
                      Cardinality(g.nodes) * score[n].betweenness > total}
        Worse(m, n)  == \/ score[m].impact > score[n].impact
                        \/ score[m].impact = score[n].impact /\ m < n
        Busier(m, n) == \/ score[m].betweenness > score[n].betweenness
                        \/ score[m].betweenness = score[n].betweenness /\ m < n
        Suggest(type, n) == [type |-> type, node |-> n, edge |-> NoEdge, extra |-> None]
        first  == Sorted(points, Worse)
        second == Sorted(chokes, Busier)
    IN  [i \in DOMAIN first |-> Suggest("node_failure", first[i])]
        \o [i \in DOMAIN second |-> Suggest("service_degradation", second[i])]

\* StaticPolicy follows the recommendations of the first twin and then stops;
\* LinUCBPolicy and RandomPolicy choose an untested node by learned scores or
\* by chance.
Selectable(policy, order, g, tested) ==
    IF policy = "static"
    THEN LET left == {i \in DOMAIN order : order[i].node \notin tested}
         IN  IF left = {} THEN {} ELSE {order[Min(left)].node}
    ELSE g.nodes \ tested

\* The largest components reality may leave when n fails; among equals the
\* first of the declared order, which the twin knows nothing of.
ActualLargest(real, n) ==
    LET after == Components(WithoutNode(real, n))
    IN  IF after = {} THEN {{}}
        ELSE {C \in after : \A D \in after : Cardinality(C) >= Cardinality(D)}

\* Only what has a node id in the twin can be compared.
ActualOutcome(real, g, n, largest, pairs) ==
    LET after == WithoutNode(real, n)
        told  == {p \in pairs : ToSet(p) \subseteq after.nodes}
    IN  [affected       |-> ((after.nodes \ largest) \cup {n}) \cap g.nodes,
         largest        |-> largest \cap g.nodes,
         reachablePairs |-> [p \in told |-> p[2] \in ComponentOf(after, p[1])],
         realizable     |-> TRUE]

\* Failing one declared node through both engines, both scored.
EvaluateTarget(real, g, n, largest, candidates) ==
    LET predicted == Pipeline(g, NodeFailure(n), candidates)
        compared  == Compare(g, Execute(g, NodeRemoval(n)), candidates)
        Outcome(r) == ActualOutcome(real, g, n, largest, {c.pair : c \in r.routes})
    IN  [failure        |-> FailureScore(predicted, Outcome(predicted)),
         counterfactual |-> CounterfactualScore(compared, Outcome(compared))]

\* The component of the twin that is reality's largest: by overlap, size, id.
\* Mutant: by size, as in the twin's own connectivity.
MainComponentBySize(components, actual) == CHOOSE C \in components : IsLargest(C, components)

MainComponent(components, actual) ==
    LET Overlap(C) == Cardinality(C \cap actual)
        best == {C \in components : \A D \in components : Overlap(C) >= Overlap(D)}
    IN  CHOOSE C \in best : IsLargest(C, best)

\* The components the twin stranded and reality kept together with the main one.
\* Mutant: only the largest of them.
WronglyStrandedOne(components, main, actual) ==
    LET all == {C \in components \ {main} : C \subseteq actual}
    IN  {C \in all : IsLargest(C, all)}

WronglyStranded(components, main, actual) == {C \in components \ {main} : C \subseteq actual}

\* One edge per such component, between the nodes nearest the failed one.
Repair(g, failed, largest) ==
    LET actual     == largest \ {failed}
        components == Components(WithoutNode(g, failed))
        main       == MainComponent(components, actual)
        within     == Within(g, {failed})
        hops       == 0..Cardinality(g.nodes)
        Nearest(C) ==
            LET seen == {d \in hops : C \cap within[d] # {}}
            IN  IF seen = {} THEN Min(C) ELSE Min(C \cap within[Min(seen)])
        bridges    == {{Nearest(C), Nearest(main)} : C \in WronglyStranded(components, main, actual)}
        edges      == g.edges \cup bridges
    IN  IF components = {} THEN [graph |-> g, bridges |-> {}, missing |-> 0]
        ELSE [graph   |-> Topology(g.nodes, edges,
                             [e \in edges |-> IF e \in bridges THEN HypotheticalCost ELSE g.cost[e]]),
              bridges |-> bridges,
              missing |-> Cardinality(((g.nodes \ actual) \ {failed})
                                      \ UNION (components \ {main}))]
=============================================================================
