------------------------------ MODULE WhatIfStudy ------------------------------
(***************************************************************************)
(* The users of the what-if machinery.  Each is a program of its own over  *)
(* its own twin, so a behaviour has one of them, named by "client":        *)
(*   "analyst" asks failure, counterfactual and root-cause questions;      *)
(*   "static" and "learned" are the episodes of run_episode: choose a node,*)
(*   predict, see what really happens, be rewarded, repair the twin;       *)
(*   "search" looks for causes in the activity of the nodes.               *)
(***************************************************************************)
EXTENDS ExperimentPolicy, CausalDiscovery

CONSTANTS
    Questions,          \* the failure scenarios the analyst tries
    Counterfactuals,    \* the counterfactual proposals of the analyst
    Analysed,           \* the topologies the analyst works on
    Cases,              \* pairs of the declared topology and its twin
    Candidates,         \* causal candidates, pairs of nodes
    Roles,              \* the role of every node
    Budget,             \* experiments of an episode
    MaxCandidates       \* options a root-cause request may try

ASSUME StudyAssumption ==
    /\ Budget \in Nat /\ MaxCandidates \in Nat \ {0}
    /\ \A g \in Analysed : IsTopology(g)
    /\ \A c \in Cases : IsTopology(c[1]) /\ IsTopology(c[2])
    /\ \A s \in Questions : s.type \in FailureTypes /\ s.extra \in Nat
    /\ \A p \in Counterfactuals : p.scenario.extra \in Int

VARIABLES
    client,     \* who works on the twin
    twin,       \* the graph asked about
    answer,     \* the last answer given, NoAnswer before the first
    real,       \* the declared topology behind the twin
    order,      \* the recommendations a static policy started with
    outcome,    \* for every node failed so far, the largest component left
    reward      \* 1 - affected-node F1 of the last experiment, as a ratio

study == <<client, twin, answer, real, order, outcome, reward>>
vars == <<study, discovery>>
episode == <<real, order, outcome, reward>>

NoAnswer == [kind |-> "none"]

\* Answers are functions of the twin and the question: one question a behaviour.
Analyst == client = "analyst" /\ answer = NoAnswer

Init ==
    /\ \/ /\ client = "analyst"
          /\ twin \in Analysed
          /\ real = twin
          /\ NoDiscovery
       \/ /\ client \in {"static", "learned"}
          /\ \E c \in Cases : real = c[1] /\ twin = c[2]
          /\ NoDiscovery
       \/ /\ client = "search"
          /\ twin = Topology({}, {}, <<>>)
          /\ real = twin
          /\ DiscoveryInit
    /\ answer = NoAnswer
    /\ order = IF client = "static" THEN Recommendations(twin) ELSE <<>>
    /\ outcome = [n \in {} |-> {}]
    /\ reward = <<0, 1>>

\* run_failure_propagation_pipeline and compute_resilience_indicators.
AskFailure(s) ==
    /\ Analyst
    /\ IsFailureScenario(s)
    /\ answer' =
         IF IsInconsistent(twin, s) THEN [kind |-> "rejected"]
         ELSE IF IsUnweighable(Inject(twin, s)) THEN [kind |-> "error"]
         ELSE LET r == Pipeline(twin, s, Candidates)
              IN  [kind |-> "failure", report |-> r, indicators |-> Indicators(twin, r)]
    /\ UNCHANGED <<client, twin, episode, discovery>>

\* ask_counterfactual: translate, execute on a copy, compare.
AskCounterfactual(p) ==
    /\ Analyst
    /\ answer' =
         LET status == Ask(twin, p, Roles)
         IN  IF status = "answered"
             THEN [kind   |-> "counterfactual",
                   report |-> Compare(twin, Execute(twin, p.scenario), Candidates)]
             ELSE [kind |-> status]
    /\ UNCHANGED <<client, twin, episode, discovery>>

\* rank_root_causes.
AskRootCause(n) ==
    /\ Analyst
    /\ answer' = [kind    |-> "root_cause",
                  failed  |-> n,
                  ranking |-> RankRootCauses(twin, n, MaxCandidates)]
    /\ UNCHANGED <<client, twin, episode, discovery>>

\* One turn of run_episode: the reward is the error before the repair.
RunExperiment(n, largest) ==
    LET score == EvaluateTarget(real, twin, n, largest, Candidates)
        f1    == score.failure.affected.f1
        fixed == Repair(twin, n, largest \cap twin.nodes)
    IN  /\ client \in {"static", "learned"}
        /\ Cardinality(DOMAIN outcome) < Min({Budget, Cardinality(twin.nodes)})
        /\ n \in Selectable(client, order, twin, DOMAIN outcome)
        /\ largest \in ActualLargest(real, n)
        /\ reward' = <<f1[2] - f1[1], f1[2]>>
        /\ twin' = fixed.graph
        /\ outcome' = [m \in DOMAIN outcome \cup {n} |->
                          IF m = n THEN largest \cap twin.nodes ELSE outcome[m]]
        /\ answer' = [kind |-> "experiment", node |-> n, score |-> score, repair |-> fixed]
        /\ UNCHANGED <<client, real, order, discovery>>

Discover == DiscoveryNext /\ UNCHANGED study

Next ==
    \/ \E s \in Questions : AskFailure(s)
    \/ \E p \in Counterfactuals : AskCounterfactual(p)
    \/ \E n \in twin.nodes : AskRootCause(n)
    \/ \E n \in twin.nodes : \E largest \in ActualLargest(real, n) : RunExperiment(n, largest)
    \/ Discover

Spec == Init /\ [][Next]_vars

-----------------------------------------------------------------------------
(* What the answers and the episodes promise.                              *)

Change(a) == IF a.kind = "failure" THEN a.report.injection ELSE a.report.execution

Refines(fine, coarse) == \A C \in fine : \E D \in coarse : C \subseteq D

Told == answer.kind \in {"failure", "counterfactual"}

\* A failure or a removal never helps: no two nodes it leaves are connected
\* that were not, no route appears or gets cheaper, and a soft change moves
\* no node; a supposed route never hurts.  (apply_failure_scenario,
\* execute_counterfactual_scenario, compute_route_change.)
ChangesAreMonotone ==
    Told =>
    LET r == answer.report
        before == r.before.components
        after  == r.after.components
        Removes(c) == c.removedNodes # {} \/ c.removedEdges # {}
    IN  IF Change(answer).added # {}
        THEN /\ Refines(before, after)
             /\ \A c \in r.routes : c.current # NoPath /\ c.delta <= 0
        ELSE /\ Refines(after, before)
             /\ \A c \in r.routes : c.current = NoPath \/ (c.baseline # NoPath /\ c.delta >= 0)
             /\ Removes(Change(answer)) \/ (before = after /\ r.newlyUnreachable = {})

FailureOf == [REMOVE_NODE |-> "node_failure", REMOVE_EDGE |-> "edge_failure",
              INCREASE_LATENCY |-> "latency_injection", REDUCE_BANDWIDTH |-> "bandwidth_reduction",
              INCREASE_TRAFFIC |-> "service_degradation"]

\* The failure simulator and the counterfactual engine are written twice; a
\* counterfactual and the failure of the same kind on the same target cut off
\* the same nodes, cost the routes as much, make the same bottlenecks and
\* propagate alike.
EnginesAgree ==
    (answer.kind = "counterfactual" /\ Change(answer).added = {}) =>
    LET r == answer.report
        s == r.execution.scenario
        f == Pipeline(twin, [type  |-> FailureOf[s.action], node |-> s.node,
                             edge  |-> s.edge, extra |-> s.extra], Candidates)
    IN  /\ r.newlyUnreachable = f.newlyUnreachable
        /\ r.latencyDelta = TotalDegradation(f.routes)
        /\ r.bottlenecks = NewBottlenecks(twin, f.injection.graph)
        /\ r.causal = f.impacts
        /\ DOMAIN f.services \subseteq DOMAIN r.services

\* The indicators say what the structure of the graph says: a second route
\* exists exactly when some hop of the first can be spared, and in a connected
\* network the failure of a node cuts off the nodes its criticality promised,
\* none unless it is an articulation point.
IndicatorsMatchStructure ==
    answer.kind = "failure" =>
    LET r == answer.report
        i == answer.indicators
        s == r.injection.scenario
        g == r.injection.graph
        Spared(p, k) == Last(p) \in ComponentOf(Remaining(g, {}, {{p[k], p[k + 1]}}), p[1])
        redundant == {c \in r.routes : \E k \in 1..(Len(c.current.nodes) - 1) : Spared(c.current.nodes, k)}
    IN  /\ i.alternative = (redundant # {})
        /\ i.connectivity[1] <= i.connectivity[2] /\ i.reachable[1] <= i.reachable[2]
        /\ (s.type = "node_failure" /\ Cardinality(r.before.components) = 1) =>
              /\ Cardinality(r.newlyUnreachable) = PathDependencyImpact(twin, s.node)
              /\ (r.newlyUnreachable # {}) = (s.node \in ArticulationPoints(twin))

\* Every node a ranking says X would have saved is, with X removed and the
\* failure run, in the largest component, or the item names it as collateral
\* of removing X.  (rank_root_causes.)
PreventedOrCollateral ==
    answer.kind = "root_cause" =>
    \A i \in DOMAIN answer.ranking :
        LET item == answer.ranking[i]
            left == WithoutNode(Execute(twin, item.option).graph, answer.failed)
        IN  /\ item.prevented \subseteq item.impacted
            /\ item.prevented \ item.collateral \subseteq Connectivity(left).largest

\* Once a node was failed for real, no two parts of the twin that reality
\* kept together for that failure fall apart again, whatever the later
\* experiments add; and while the twin has only edges that exist, a repair
\* leaves it agreeing with reality about the node just failed, and nothing
\* missing.  (repair_twin.)
RepairsHold ==
    /\ \A n \in DOMAIN outcome :
          Cardinality({C \in Components(WithoutNode(twin, n)) : C \subseteq outcome[n]}) <= 1
    /\ answer.kind = "experiment" =>
       LET n == answer.node
       IN  (twin.edges \ answer.repair.bridges \subseteq real.edges /\ outcome[n] # {}) =>
              /\ outcome[n] \in Components(WithoutNode(twin, n))
              /\ answer.repair.missing = 0
=============================================================================
