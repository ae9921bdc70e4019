---------------------------- MODULE MCWhatIfStudy ----------------------------
(***************************************************************************)
(* The analyst works on every graph of four nodes and on some of five, the *)
(* episodes on every twin that lost edges of one of four declared          *)
(* topologies of five nodes.  Costs differ, so that a detour can be        *)
(* cheaper than a direct edge.                                             *)
(***************************************************************************)
EXTENDS WhatIfStudy, CausalWorlds

Pairs(n) == {{i, j} : i, j \in 1..n} \ {{i} : i \in 1..n}

Cost(e) == IF 1 \in e THEN 1 ELSE IF 2 \in e THEN 4 ELSE 2

Graph(nodes, edges) == Topology(nodes, edges, [e \in edges |-> Cost(e)])

Bowtie == {{1, 2}, {2, 3}, {1, 3}, {3, 4}, {4, 5}, {3, 5}}
House  == {{1, 2}, {2, 3}, {3, 4}, {4, 1}, {1, 5}, {2, 5}}
Chain  == {{1, 2}, {2, 3}, {3, 4}, {4, 5}}
Star   == {{3, 1}, {3, 2}, {3, 4}, {3, 5}}

MCAnalysed ==
    {Graph(1..4, edges) : edges \in SUBSET Pairs(4)}
    \cup {Graph(1..5, edges) : edges \in {Bowtie, House, Chain, Star, Bowtie \ {{3, 4}, {3, 5}}}}

\* The twin knows the endpoints of the edges it discovered.
MCCases ==
    UNION {{<<Graph(1..5, edges), Graph(UNION seen, seen)>> : seen \in SUBSET edges} :
           edges \in {Bowtie, House, Chain, Star}}

MCCandidates == {<<1, 2>>, <<2, 3>>, <<2, 4>>, <<4, 1>>, <<3, 4>>}

MCRoles == [n \in 1..5 |-> IF n \in {1, 2} THEN "web" ELSE "db"]

Failure(type, node, edge, extra) == [type |-> type, node |-> node, edge |-> edge, extra |-> extra]

MCQuestions ==
    {Failure(t, n, NoEdge, 2) : t \in FailureTypes \ {"edge_failure"}, n \in 0..4}
    \cup {Failure(t, None, e, 2) : t \in RatioTypes \cup {"edge_failure"}, e \in Pairs(4)}
    \cup {Failure("latency_injection", 2, NoEdge, None), Failure("edge_failure", 3, {1, 2}, None),
          Failure("packet_loss", 1, {1, 2}, 2)}

Proposal(action, node, edge, source, extra) ==
    [supported |-> TRUE, unclear |-> FALSE, role |-> "none", candidates |-> {},
     scenario  |-> [action |-> action, node |-> node, edge |-> edge,
                    source |-> source, extra |-> extra]]

MCCounterfactuals ==
    {Proposal(a, n, NoEdge, None, 2) : a \in Actions \ {"REMOVE_EDGE", "ADD_ROUTE"}, n \in 1..4}
    \cup {Proposal(a, None, e, None, 2) : a \in {"REMOVE_EDGE", "REDUCE_BANDWIDTH"}, e \in Pairs(4)}
    \cup {Proposal("ADD_ROUTE", Max(e), NoEdge, Min(e), None) : e \in Pairs(4)}
    \cup {Proposal("REDUCE_BANDWIDTH", 3, {1, 2}, None, 2),
          Proposal("REDUCE_BANDWIDTH", 3, NoEdge, None, -1),
          Proposal("REMOVE_NODE", None, NoEdge, None, None),
          [Proposal("REMOVE_NODE", 1, NoEdge, None, None) EXCEPT !.role = "web"],
          [Proposal("REMOVE_NODE", 1, NoEdge, None, None) EXCEPT !.candidates = {1, 9}],
          [Proposal("REMOVE_NODE", 9, NoEdge, None, None) EXCEPT !.unclear = TRUE],
          [Proposal("REMOVE_NODE", 1, NoEdge, None, None) EXCEPT !.supported = FALSE]}
=============================================================================
