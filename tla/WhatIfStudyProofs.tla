---------------------------- MODULE WhatIfStudyProofs ----------------------------
(* What the answers, the episodes and the searches of WhatIfStudy promise,  *)
(* for every topology, question and world, every budget and every bound on  *)
(* the candidates.  An answer is a function of the twin and the question,   *)
(* so its promises are facts about that function; the repairs of an episode *)
(* and the tests of a search need an inductive invariant.                   *)
EXTENDS WhatIfStudy, PathEngineProofs

-----------------------------------------------------------------------------
(* What an answer is computed from. *)

\* The answers, as functions of the twin and the question.
FailureAnswer(g, s) ==
    LET r == Pipeline(g, s, Candidates)
    IN  [kind |-> "failure", report |-> r, indicators |-> Indicators(g, r)]

CounterfactualAnswer(g, s) ==
    [kind |-> "counterfactual", report |-> Compare(g, Execute(g, s), Candidates)]

RootCauseAnswer(g, n) ==
    [kind |-> "root_cause", failed |-> n, ranking |-> RankRootCauses(g, n, MaxCandidates)]

\* The questions that are answered.
AskedFailure(g, s) ==
    s \in Questions /\ IsFailureScenario(s) /\ ~IsInconsistent(g, s)

AskedCounterfactual(g, s) ==
    /\ s.action \in Actions /\ s.extra \in Int
    /\ IsCounterfactual(s) /\ ~IsIncoherent(g, s) /\ ~IsUncomparable(s)

\* An answer, if there is one, is that of a question that was answered.
AnswerIsComputed ==
    /\ client = "analyst" => twin \in Analysed
    /\ answer.kind = "failure" =>
          client = "analyst" /\ \E s : AskedFailure(twin, s) /\ answer = FailureAnswer(twin, s)
    /\ answer.kind = "counterfactual" =>
          client = "analyst" /\ \E s : AskedCounterfactual(twin, s) /\ answer = CounterfactualAnswer(twin, s)
    /\ answer.kind = "root_cause" =>
          client = "analyst" /\ \E n \in twin.nodes : answer = RootCauseAnswer(twin, n)

\* A counterfactual that is answered passed the translation: its action is known and
\* its target is in the graph (ask_counterfactual).
LEMMA AskOutcomes ==
    ASSUME NEW g, NEW p \in Counterfactuals
    PROVE  /\ Ask(g, p, Roles) \in {"unsupported", "unknown_entity", "needs_clarification",
                                    "invalid_scenario", "error", "answered"}
           /\ Ask(g, p, Roles) = "answered" => AskedCounterfactual(g, p.scenario)
<1> DEFINE verdict == TranslateQuestion(g, p, Roles)
           s == p.scenario
<1>1. verdict \in {"unsupported", "unknown_entity", "needs_clarification",
                   "invalid_scenario", "translated"}
  BY DEF TranslateQuestion
<1>2. verdict = "translated" => s.action \in Actions /\ IsCounterfactual(s)
  BY DEF TranslateQuestion
<1>3. Ask(g, p, Roles) = IF verdict # "translated" THEN verdict
                         ELSE IF IsIncoherent(g, s) THEN "invalid_scenario"
                         ELSE IF IsUncomparable(s) THEN "error"
                         ELSE "answered"
  BY DEF Ask
<1> HIDE DEF verdict
<1>4. CASE verdict # "translated"
  BY <1>1, <1>3, <1>4
<1>5. CASE verdict = "translated"
  <2>1. s.extra \in Int
    BY StudyAssumption
  <2> QED BY <1>2, <1>3, <1>5, <2>1 DEF AskedCounterfactual
<1> QED BY <1>4, <1>5

\* Every step that answers computes the answer from the twin and the question, and
\* every other leaves both alone.
LEMMA AnswerStep ==
    ASSUME AnswerIsComputed, [Next]_vars
    PROVE  AnswerIsComputed'
<1>1. ASSUME NEW s \in Questions, AskFailure(s) PROVE AnswerIsComputed'
  <2>1. client = "analyst" /\ client' = client /\ twin' = twin /\ IsFailureScenario(s)
    BY <1>1 DEF AskFailure, Analyst
  <2>2. CASE IsInconsistent(twin, s)
    <3>1. answer' = [kind |-> "rejected"]
      BY <1>1, <2>2 DEF AskFailure
    <3> QED BY <2>1, <3>1 DEF AnswerIsComputed
  <2>3. CASE ~IsInconsistent(twin, s) /\ IsUnweighable(Inject(twin, s))
    <3>1. answer' = [kind |-> "error"]
      BY <1>1, <2>3 DEF AskFailure
    <3> QED BY <2>1, <3>1 DEF AnswerIsComputed
  <2>4. CASE ~IsInconsistent(twin, s) /\ ~IsUnweighable(Inject(twin, s))
    <3>1. answer' = FailureAnswer(twin, s)
      BY <1>1, <2>4 DEF AskFailure, FailureAnswer
    <3>2. AskedFailure(twin, s)
      BY <2>1, <2>4 DEF AskedFailure
    <3>3. FailureAnswer(twin, s).kind = "failure"
      BY DEF FailureAnswer
    <3> QED BY <2>1, <3>1, <3>2, <3>3 DEF AnswerIsComputed
  <2> QED BY <2>2, <2>3, <2>4
<1>2. ASSUME NEW p \in Counterfactuals, AskCounterfactual(p) PROVE AnswerIsComputed'
  <2>1. client = "analyst" /\ client' = client /\ twin' = twin
    BY <1>2 DEF AskCounterfactual, Analyst
  <2>2. CASE Ask(twin, p, Roles) = "answered"
    <3>1. answer' = CounterfactualAnswer(twin, p.scenario)
      BY <1>2, <2>2 DEF AskCounterfactual, CounterfactualAnswer
    <3>2. CounterfactualAnswer(twin, p.scenario).kind = "counterfactual"
      BY DEF CounterfactualAnswer
    <3> QED BY <2>1, <2>2, <3>1, <3>2, AskOutcomes DEF AnswerIsComputed
  <2>3. CASE Ask(twin, p, Roles) # "answered"
    <3>1. answer' = [kind |-> Ask(twin, p, Roles)]
      BY <1>2, <2>3 DEF AskCounterfactual
    <3>2. answer'.kind \notin {"failure", "counterfactual", "root_cause"}
      BY <3>1, AskOutcomes
    <3> QED BY <2>1, <3>2 DEF AnswerIsComputed
  <2> QED BY <2>2, <2>3
<1>3. ASSUME NEW n \in twin.nodes, AskRootCause(n) PROVE AnswerIsComputed'
  <2>1. client = "analyst" /\ client' = client /\ twin' = twin /\ answer' = RootCauseAnswer(twin, n)
    BY <1>3 DEF AskRootCause, Analyst, RootCauseAnswer
  <2>2. RootCauseAnswer(twin, n).kind = "root_cause"
    BY DEF RootCauseAnswer
  <2> QED BY <2>1, <2>2 DEF AnswerIsComputed
<1>4. ASSUME NEW n \in twin.nodes, NEW largest \in ActualLargest(real, n), RunExperiment(n, largest)
      PROVE  AnswerIsComputed'
  <2>1. client' = client /\ client # "analyst" /\ answer'.kind = "experiment"
    BY <1>4 DEF RunExperiment
  <2> QED BY <2>1 DEF AnswerIsComputed
<1>5. CASE Discover \/ UNCHANGED vars
  BY <1>5 DEF Discover, vars, study, AnswerIsComputed
<1> QED BY <1>1, <1>2, <1>3, <1>4, <1>5 DEF Next

\* Whatever is asked, an answer is the function of the twin and the question that the
\* pipelines compute, and the question met their checks.
THEOREM AnswersComputed == Spec => []AnswerIsComputed
<1>1. Init => AnswerIsComputed
  BY DEF Init, AnswerIsComputed, NoAnswer
<1> QED BY <1>1, AnswerStep, PTL DEF Spec

-----------------------------------------------------------------------------
(* The two engines. *)

\* The failure that does what a counterfactual supposes.
SameFailure(s) == [type  |-> FailureOf[s.action], node |-> s.node, edge |-> s.edge, extra |-> s.extra]

\* No node is its own neighbour.
LEMMA EdgeHasTwoEnds ==
    ASSUME NEW g, IsTopology(g), NEW n
    PROVE  n \notin Adjacent(g, n)
<1> SUFFICES ASSUME {n, n} \in g.edges PROVE FALSE
  BY DEF Adjacent
<1>1. Cardinality({n}) = 1 /\ {n, n} = {n}
  BY FS_Singleton
<1>2. Cardinality({n, n}) = 2
  BY DEF IsTopology
<1> QED BY <1>1, <1>2

\* Two changes of a graph remove and slow the same.
DoSame(x, i, s) ==
    /\ x.graph = i.graph /\ x.removedNodes = i.removedNodes /\ x.added = {}
    /\ x.degraded = i.degraded /\ x.scenario = s /\ i.scenario = SameFailure(s)
    /\ i.removedNodes \subseteq {s.node}

\* The two engines remove the same nodes and edges and slow the same edges for the
\* same question, although each has code of its own for it.
LEMMA SameEffect ==
    ASSUME NEW g, NEW s, AskedCounterfactual(g, s), s.action # "ADD_ROUTE"
    PROVE  DoSame(Execute(g, s), Inject(g, SameFailure(s)), s)
<1> DEFINE f == SameFailure(s)
           goneNodes == IF s.action = "REMOVE_NODE" THEN {s.node} ELSE {}
           goneEdges == CASE s.action = "REMOVE_NODE" -> IncidentEdges(g, s.node)
                       [] s.action = "REMOVE_EDGE" -> {s.edge}
                       [] OTHER -> {}
           degraded  == CASE s.action \notin SoftActions -> {}
                       [] s.action = "REDUCE_BANDWIDTH" /\ s.edge # NoEdge -> {s.edge}
                       [] OTHER -> IncidentEdges(g, s.node)
<1>1. s.action \in {"INCREASE_LATENCY", "REDUCE_BANDWIDTH", "INCREASE_TRAFFIC", "REMOVE_NODE", "REMOVE_EDGE"}
  BY DEF AskedCounterfactual, Actions, SoftActions
<1>2. /\ f.node = s.node /\ f.edge = s.edge /\ f.extra = s.extra
      /\ s.action = "REMOVE_NODE" => f.type = "node_failure"
      /\ s.action = "REMOVE_EDGE" => f.type = "edge_failure"
      /\ s.action = "INCREASE_LATENCY" => f.type = "latency_injection"
      /\ s.action = "REDUCE_BANDWIDTH" => f.type = "bandwidth_reduction"
      /\ s.action = "INCREASE_TRAFFIC" => f.type = "service_degradation"
  BY <1>1 DEF SameFailure, FailureOf
<1> HIDE DEF f
<1>3. /\ Inject(g, f).removedNodes = goneNodes
      /\ Inject(g, f).degraded = degraded
      /\ Inject(g, f).graph = Remaining(g, goneNodes, goneEdges)
      /\ Inject(g, f).scenario = f
  BY <1>1, <1>2 DEF Inject, SoftActions, RatioTypes
<1>4. /\ Execute(g, s).removedNodes = goneNodes /\ Execute(g, s).degraded = degraded
      /\ Execute(g, s).added = {} /\ Execute(g, s).scenario = s
  BY DEF Execute
<1>5. Execute(g, s).graph = Remaining(g, goneNodes, goneEdges)
  <2> HIDE DEF goneNodes, goneEdges
  <2> DEFINE left == Remaining(g, goneNodes, goneEdges)
  <2>1. Execute(g, s).graph = Topology(left.nodes, left.edges \cup {},
                                 [e \in left.edges \cup {} |-> IF e \in {} THEN HypotheticalCost ELSE g.cost[e]])
    BY DEF Execute, goneNodes, goneEdges
  <2>2. /\ left.nodes = g.nodes \ goneNodes /\ left.edges = g.edges \ goneEdges
        /\ left = Topology(left.nodes, left.edges, [e \in left.edges |-> g.cost[e]])
    BY DEF Remaining, Topology
  <2>3. left.edges \cup {} = left.edges
    OBVIOUS
  <2> HIDE DEF left
  <2>4. Execute(g, s).graph = Topology(left.nodes, left.edges, [e \in left.edges |-> g.cost[e]])
    BY <2>1, <2>3
  <2> QED BY <2>2, <2>4 DEF left
<1>6. f = SameFailure(s)
  BY DEF f
<1>7. goneNodes \subseteq {s.node}
  OBVIOUS
<1> HIDE DEF goneNodes, goneEdges, degraded
<1>8. DoSame(Execute(g, s), Inject(g, f), s)
  BY <1>3, <1>4, <1>5, <1>6, <1>7 DEF DoSame
<1> QED BY <1>6, <1>8

\* The routes of a counterfactual are weighed as those of the failure.
LEMMA SameWeights ==
    ASSUME NEW g, NEW s, AskedCounterfactual(g, s), s.action # "ADD_ROUTE"
    PROVE  AdaptedWeight(Execute(g, s)) = Weight(Inject(g, SameFailure(s)))
<1> DEFINE x == Execute(g, s)
           i == Inject(g, SameFailure(s))
           extra == IF SameFailure(s).type = "service_degradation" THEN 0 ELSE s.extra
           other == IF s.action \in {"INCREASE_LATENCY", "REDUCE_BANDWIDTH"} THEN s.extra ELSE 0
<1>1. /\ x.graph = i.graph /\ x.degraded = i.degraded /\ x.scenario = s /\ i.scenario = SameFailure(s)
  <2> HIDE DEF x, i
  <2>1. DoSame(x, i, s)
    BY SameEffect DEF x, i
  <2> QED BY <2>1 DEF DoSame
<1>2. s.action \in {"INCREASE_LATENCY", "REDUCE_BANDWIDTH", "INCREASE_TRAFFIC", "REMOVE_NODE", "REMOVE_EDGE"}
  BY DEF AskedCounterfactual, Actions, SoftActions
<1>3. s.action \in {"REMOVE_NODE", "REMOVE_EDGE"} => x.degraded = {}
  BY DEF Execute, SoftActions
<1>4. extra = other \/ x.degraded = {}
  BY <1>2, <1>3 DEF SameFailure, FailureOf
<1>5. /\ AdaptedWeight(x) = [e \in x.graph.edges |-> x.graph.cost[e] + IF e \in x.degraded THEN other ELSE 0]
      /\ Weight(i) = [e \in x.graph.edges |-> x.graph.cost[e] + IF e \in x.degraded THEN extra ELSE 0]
  BY <1>1 DEF AdaptedWeight, Weight, SameFailure
<1> HIDE DEF x, i, extra, other
<1>6. \A e : (IF e \in x.degraded THEN other ELSE 0) = IF e \in x.degraded THEN extra ELSE 0
  BY <1>4
<1>7. AdaptedWeight(x) = Weight(i)
  BY <1>5, <1>6
<1> QED BY <1>7 DEF x, i

\* The pairs a counterfactual compares routes for are those of the failure.
LEMMA SameRoutePairs ==
    ASSUME NEW g, IsTopology(g), NEW s, AskedCounterfactual(g, s), s.action # "ADD_ROUTE"
    PROVE  ComparisonPairs(g, s) = RoutePairs(g, Inject(g, SameFailure(s)))
<1> DEFINE i == Inject(g, SameFailure(s))
<1> HIDE DEF i
<1>1. i.scenario.node = s.node /\ i.scenario.edge = s.edge /\ i.removedNodes \subseteq {s.node}
  <2>1. DoSame(Execute(g, s), i, s)
    BY SameEffect DEF i
  <2> QED BY <2>1 DEF DoSame, SameFailure
<1>2. CASE s.node # None
  <2>1. s.node \notin Adjacent(g, s.node)
    BY EdgeHasTwoEnds
  <2>2. Adjacent(g, s.node) \ i.removedNodes = Adjacent(g, s.node)
    BY <1>1, <2>1
  <2>3. RoutePairs(g, i) = {<<m, s.node>> : m \in Adjacent(g, s.node)}
    BY <1>1, <1>2, <2>2 DEF RoutePairs
  <2> QED BY <1>2, <2>3 DEF ComparisonPairs, i
<1>3. CASE s.node = None
  <2>1. s.edge # NoEdge
    BY <1>3 DEF AskedCounterfactual, IsCounterfactual, Actions, SoftActions
  <2>2. RoutePairs(g, i) = {EdgePair(s.edge)}
    BY <1>1, <1>3, <2>1 DEF RoutePairs
  <2> QED BY <1>3, <2>2 DEF ComparisonPairs, i
<1> QED BY <1>2, <1>3

\* The reports of the two engines agree where they speak of the same.
LEMMA EnginesAgreeOn ==
    ASSUME NEW g, IsTopology(g), NEW s, AskedCounterfactual(g, s), s.action # "ADD_ROUTE"
    PROVE  LET r == Compare(g, Execute(g, s), Candidates)
               f == Pipeline(g, SameFailure(s), Candidates)
           IN  /\ r.newlyUnreachable = f.newlyUnreachable
               /\ r.routes = f.routes
               /\ r.latencyDelta = TotalDegradation(f.routes)
               /\ r.bottlenecks = NewBottlenecks(g, f.injection.graph)
               /\ r.causal = f.impacts
               /\ DOMAIN f.services \subseteq DOMAIN r.services
<1> DEFINE x == Execute(g, s)
           i == Inject(g, SameFailure(s))
           r == Compare(g, x, Candidates)
           f == Pipeline(g, SameFailure(s), Candidates)
           cut == NewlyUnreachable(x, Connectivity(g), Connectivity(x.graph))
           causal == IF s.node # None THEN Propagate(Candidates, s.node) ELSE NoImpact
           routes == {RouteChange(g, x.graph, AdaptedWeight(x), p) : p \in ComparisonPairs(g, s)}
<1>1. /\ x.graph = i.graph /\ x.removedNodes = i.removedNodes /\ x.scenario = s
      /\ AdaptedWeight(x) = Weight(i) /\ ComparisonPairs(g, s) = RoutePairs(g, i)
  <2> HIDE DEF x, i
  <2>1. DoSame(x, i, s)
    BY SameEffect DEF x, i
  <2>2. AdaptedWeight(x) = Weight(i) /\ ComparisonPairs(g, s) = RoutePairs(g, i)
    BY SameWeights, SameRoutePairs DEF x, i
  <2> QED BY <2>1, <2>2 DEF DoSame
<1>2. SameFailure(s).node = s.node
  BY DEF SameFailure
<1> HIDE DEF x, i
<1>3. /\ r.newlyUnreachable = cut /\ r.routes = routes /\ r.latencyDelta = TotalDegradation(routes)
      /\ r.bottlenecks = NewBottlenecks(g, x.graph) /\ r.causal = causal
      /\ cut \cup DOMAIN causal \subseteq DOMAIN r.services
  BY <1>1 DEF Compare
<1>4. /\ f.newlyUnreachable = NewlyUnreachable(i, Connectivity(g), Connectivity(i.graph))
      /\ f.routes = {RouteChange(g, i.graph, Weight(i), p) : p \in RoutePairs(g, i)}
      /\ f.injection = i /\ f.impacts = causal
      /\ DOMAIN f.services = DOMAIN causal \cup f.newlyUnreachable
  BY <1>2 DEF Pipeline, i
<1>5. f.newlyUnreachable = cut /\ f.routes = routes
  BY <1>1, <1>4 DEF NewlyUnreachable
<1> HIDE DEF r, f, cut, routes, causal
<1>6. /\ r.newlyUnreachable = f.newlyUnreachable /\ r.routes = f.routes
      /\ r.latencyDelta = TotalDegradation(f.routes)
      /\ r.bottlenecks = NewBottlenecks(g, f.injection.graph)
      /\ r.causal = f.impacts /\ DOMAIN f.services \subseteq DOMAIN r.services
  BY <1>1, <1>3, <1>4, <1>5
<1> QED BY <1>6 DEF r, f, x

\* Every answered counterfactual that supposes no new route says what the failure
\* simulator says of the same failure (EnginesAgree): execute_counterfactual_scenario
\* and apply_failure_scenario, written twice, have one meaning on every topology.
THEOREM EnginesAlwaysAgree == Spec => []EnginesAgree
<1>1. AnswerIsComputed => EnginesAgree
  <2> SUFFICES ASSUME AnswerIsComputed, answer.kind = "counterfactual", Change(answer).added = {}
               PROVE  EnginesAgree
    BY DEF EnginesAgree
  <2>1. PICK s : AskedCounterfactual(twin, s) /\ answer = CounterfactualAnswer(twin, s)
    BY DEF AnswerIsComputed
  <2>2. IsTopology(twin)
    BY StudyAssumption DEF AnswerIsComputed
  <2>3. /\ answer.report = Compare(twin, Execute(twin, s), Candidates)
        /\ answer.report.execution = Execute(twin, s)
        /\ answer.report.execution.scenario = s
        /\ Change(answer) = Execute(twin, s)
    BY <2>1 DEF CounterfactualAnswer, Compare, Change, Execute
  <2>4. s.action # "ADD_ROUTE"
    <3> SUFFICES ASSUME s.action = "ADD_ROUTE" PROVE FALSE
      OBVIOUS
    <3>1. Execute(twin, s).added = {{s.source, s.node}}
      BY DEF Execute
    <3> QED BY <2>3, <3>1
  <2> QED BY <2>1, <2>2, <2>3, <2>4, EnginesAgreeOn DEF EnginesAgree, SameFailure
<1> QED BY <1>1, AnswersComputed, PTL

-----------------------------------------------------------------------------
(* Changes are monotone. *)

\* What remains after a removal has fewer nodes and edges and the same costs.
LEMMA RemainingIsLess ==
    ASSUME NEW g, NEW nodes, NEW edges
    PROVE  /\ Remaining(g, nodes, edges).nodes = g.nodes \ nodes
           /\ Remaining(g, nodes, edges).edges = g.edges \ edges
           /\ \A e \in g.edges \ edges : Remaining(g, nodes, edges).cost[e] = g.cost[e]
BY DEF Remaining, Topology

\* A part of a graph connects no two nodes the whole does not.
LEMMA ComponentsRefine ==
    ASSUME NEW g, NEW h, IsFiniteSet(g.nodes), h.nodes \subseteq g.nodes, h.edges \subseteq g.edges
    PROVE  Refines(Components(h), Components(g))
<1> SUFFICES ASSUME NEW n \in h.nodes
             PROVE  \E D \in Components(g) : ComponentOf(h, n) \subseteq D
  BY DEF Refines, Components
<1>1. ComponentOf(h, n) \subseteq ComponentOf(g, n)
  BY ComponentsShrink
<1>2. ComponentOf(g, n) \in Components(g)
  BY DEF Components
<1> QED BY <1>1, <1>2

\* What a report must say when something was taken away, or only got slower.
TakenAway(r, change) ==
    /\ Refines(r.after.components, r.before.components)
    /\ \A c \in r.routes : c.current = NoPath \/ (c.baseline # NoPath /\ c.delta >= 0)
    /\ \/ change.removedNodes # {} \/ change.removedEdges # {}
       \/ r.before.components = r.after.components /\ r.newlyUnreachable = {}

\* Whatever is left of a graph at costs that did not fall is no better connected, and
\* no route in it is new or cheaper.
LEMMA LessIsNoBetter ==
    ASSUME NEW g, IsTopology(g), NEW nodes, NEW edges, NEW h, h = Remaining(g, nodes, edges),
           NEW w, \A e \in h.edges : w[e] \in Nat /\ g.cost[e] <= w[e],
           NEW pairs, NEW change, change.removedNodes = nodes, change.removedEdges = edges,
           NEW r, r.before = Connectivity(g), r.after = Connectivity(h),
           r.newlyUnreachable = NewlyUnreachable(change, r.before, r.after),
           r.routes = {RouteChange(g, h, w, p) : p \in pairs}
    PROVE  TakenAway(r, change)
<1>1. h.nodes \subseteq g.nodes /\ h.edges \subseteq g.edges /\ IsFiniteSet(g.nodes)
  BY RemainingIsLess DEF IsTopology
<1>2. r.before.components = Components(g) /\ r.after.components = Components(h)
  BY DEF Connectivity
<1>3. Refines(Components(h), Components(g))
  BY <1>1, ComponentsRefine
<1>4. ASSUME NEW c \in r.routes PROVE c.current = NoPath \/ (c.baseline # NoPath /\ c.delta >= 0)
  <2>1. PICK p \in pairs : c = RouteChange(g, h, w, p)
    OBVIOUS
  <2> QED BY <1>1, <2>1, RouteNoBetter
<1>5. ASSUME nodes = {}, edges = {} PROVE Components(g) = Components(h) /\ r.newlyUnreachable = {}
  <2>0. h.nodes = g.nodes \ nodes /\ h.edges = g.edges \ edges
    BY RemainingIsLess
  <2>1. h.nodes = g.nodes /\ h.edges = g.edges
    BY <1>5, <2>0
  <2>2. Components(h) = Components(g) /\ Connectivity(h) = Connectivity(g)
    BY <1>1, <2>1, SameEdgesSameComponents
  <2> QED BY <1>5, <2>2 DEF NewlyUnreachable
<1> QED BY <1>2, <1>3, <1>4, <1>5 DEF TakenAway

\* A failure the simulator injects is such a change.
LEMMA FailureIsNoBetter ==
    ASSUME NEW g, IsTopology(g), NEW s, AskedFailure(g, s)
    PROVE  TakenAway(Pipeline(g, s, Candidates), Inject(g, s)) /\ Inject(g, s).added = {}
<1> DEFINE i == Inject(g, s)
           r == Pipeline(g, s, Candidates)
           extra == IF s.type = "service_degradation" THEN 0 ELSE s.extra
<1>1. /\ i.scenario = s /\ i.added = {}
      /\ i.graph = Remaining(g, i.removedNodes, i.removedEdges)
  BY DEF Inject
<1>2. extra \in Nat
  BY StudyAssumption DEF AskedFailure
<1> HIDE DEF i
<1>3. ASSUME NEW e \in i.graph.edges PROVE Weight(i)[e] \in Nat /\ g.cost[e] <= Weight(i)[e]
  <2>1. e \in g.edges /\ i.graph.cost[e] = g.cost[e] /\ g.cost[e] \in Nat
    BY <1>1, <1>3, RemainingIsLess DEF IsTopology
  <2>2. Weight(i)[e] = i.graph.cost[e] + IF e \in i.degraded THEN extra ELSE 0
    BY <1>1, <1>3 DEF Weight
  <2> HIDE DEF extra
  <2> QED BY <1>2, <2>1, <2>2
<1>4. /\ r.before = Connectivity(g) /\ r.after = Connectivity(i.graph)
      /\ r.newlyUnreachable = NewlyUnreachable(i, r.before, r.after)
      /\ r.routes = {RouteChange(g, i.graph, Weight(i), p) : p \in RoutePairs(g, i)}
  BY DEF Pipeline, i
<1> HIDE DEF r
<1>5. TakenAway(r, i)
  BY <1>1, <1>3, <1>4, LessIsNoBetter
<1> QED BY <1>1, <1>5 DEF r, i

\* A counterfactual that adds no route is such a change.
LEMMA RemovalIsNoBetter ==
    ASSUME NEW g, IsTopology(g), NEW s, AskedCounterfactual(g, s), s.action # "ADD_ROUTE"
    PROVE  TakenAway(Compare(g, Execute(g, s), Candidates), Execute(g, s))
<1> DEFINE x == Execute(g, s)
           r == Compare(g, x, Candidates)
           extra == IF s.action \in {"INCREASE_LATENCY", "REDUCE_BANDWIDTH"} THEN s.extra ELSE 0
<1>1. x.scenario = s
  BY DEF Execute
<1>2. extra \in Nat
  BY DEF AskedCounterfactual, IsUncomparable
<1>3. x.graph = Remaining(g, x.removedNodes, x.removedEdges)
  <2>1. /\ x.added = {} /\ x.graph.nodes = g.nodes \ x.removedNodes
        /\ x.graph.edges = (g.edges \ x.removedEdges) \cup x.added
        /\ x.graph = Topology(x.graph.nodes, x.graph.edges,
                        [e \in x.graph.edges |-> IF e \in x.added THEN HypotheticalCost ELSE g.cost[e]])
    BY DEF Execute, Remaining, Topology
  <2> HIDE DEF x
  <2>2. x.graph.edges = g.edges \ x.removedEdges
    BY <2>1
  <2>3. x.graph = Topology(g.nodes \ x.removedNodes, g.edges \ x.removedEdges,
                     [e \in g.edges \ x.removedEdges |-> g.cost[e]])
    BY <2>1, <2>2
  <2> QED BY <2>3 DEF Remaining
<1> HIDE DEF x
<1>4. ASSUME NEW e \in x.graph.edges PROVE AdaptedWeight(x)[e] \in Nat /\ g.cost[e] <= AdaptedWeight(x)[e]
  <2>1. e \in g.edges /\ x.graph.cost[e] = g.cost[e] /\ g.cost[e] \in Nat
    BY <1>3, <1>4, RemainingIsLess DEF IsTopology
  <2>2. AdaptedWeight(x)[e] = x.graph.cost[e] + IF e \in x.degraded THEN extra ELSE 0
    BY <1>1, <1>4 DEF AdaptedWeight
  <2> HIDE DEF extra
  <2> QED BY <1>2, <2>1, <2>2
<1>5. /\ r.before = Connectivity(g) /\ r.after = Connectivity(x.graph)
      /\ r.newlyUnreachable = NewlyUnreachable(x, r.before, r.after)
      /\ r.routes = {RouteChange(g, x.graph, AdaptedWeight(x), p) : p \in ComparisonPairs(g, x.scenario)}
  BY DEF Compare
<1> HIDE DEF r
<1>6. TakenAway(r, x)
  BY <1>3, <1>4, <1>5, LessIsNoBetter
<1> QED BY <1>6 DEF r, x

\* A supposed route connects more, and no compared route is lost or dearer.
LEMMA RouteIsNoWorse ==
    ASSUME NEW g, IsTopology(g), NEW s, AskedCounterfactual(g, s), s.action = "ADD_ROUTE"
    PROVE  LET r == Compare(g, Execute(g, s), Candidates)
           IN  /\ Refines(r.before.components, r.after.components)
               /\ \A c \in r.routes : c.current # NoPath /\ c.delta <= 0
<1> DEFINE x == Execute(g, s)
           r == Compare(g, x, Candidates)
           e0 == {s.source, s.node}
<1>1. /\ s.source # None /\ s.node # None /\ s.node # s.source
      /\ s.source \in g.nodes /\ s.node \in g.nodes /\ {s.node, s.source} \notin g.edges
  BY DEF AskedCounterfactual, IsCounterfactual, IsIncoherent
<1>2. e0 \notin g.edges /\ e0 = {s.node, s.source}
  <2>1. e0 = {s.node, s.source}
    OBVIOUS
  <2> QED BY <1>1, <2>1
<1>3. /\ x.scenario = s /\ x.degraded = {}
      /\ x.graph.nodes = g.nodes /\ x.graph.edges = g.edges \cup {e0}
      /\ x.graph.cost = [e \in g.edges \cup {e0} |-> IF e \in {e0} THEN HypotheticalCost ELSE g.cost[e]]
  BY DEF Execute, Remaining, Topology, SoftActions
<1> HIDE DEF x, e0
<1>4. /\ r.before = Connectivity(g) /\ r.after = Connectivity(x.graph)
      /\ r.routes = {RouteChange(g, x.graph, AdaptedWeight(x), p) : p \in ComparisonPairs(g, s)}
      /\ ComparisonPairs(g, s) = {<<s.source, s.node>>}
  <2>1. ComparisonPairs(g, s) = {<<s.source, s.node>>}
    BY DEF ComparisonPairs
  <2>2. /\ r.before = Connectivity(g) /\ r.after = Connectivity(x.graph)
        /\ r.routes = {RouteChange(g, x.graph, AdaptedWeight(x), p) : p \in ComparisonPairs(g, x.scenario)}
    BY DEF Compare
  <2> QED BY <1>3, <2>1, <2>2
<1> HIDE DEF r
<1>5. Refines(r.before.components, r.after.components)
  <2>1. IsFiniteSet(x.graph.nodes) /\ g.nodes \subseteq x.graph.nodes /\ g.edges \subseteq x.graph.edges
    BY <1>3 DEF IsTopology
  <2>2. Refines(Components(g), Components(x.graph))
    BY <2>1, ComponentsRefine
  <2> QED BY <1>4, <2>2 DEF Connectivity
<1>6. ASSUME NEW e \in x.graph.edges
      PROVE  AdaptedWeight(x)[e] \in Nat /\ (e \in g.edges => AdaptedWeight(x)[e] = g.cost[e])
  <2>1. AdaptedWeight(x)[e] = x.graph.cost[e] + 0
    BY <1>3, <1>6 DEF AdaptedWeight
  <2>2. x.graph.cost[e] = IF e = e0 THEN HypotheticalCost ELSE g.cost[e]
    BY <1>3, <1>6
  <2>3. e # e0 => e \in g.edges /\ g.cost[e] \in Nat
    BY <1>3, <1>6 DEF IsTopology
  <2>4. x.graph.cost[e] \in Nat /\ (e \in g.edges => x.graph.cost[e] = g.cost[e])
    BY <1>2, <2>2, <2>3, HypotheticalAssumption
  <2> QED BY <2>1, <2>4
<1>7. ASSUME NEW c \in r.routes PROVE c.current # NoPath /\ c.delta <= 0
  <2>1. c = RouteChange(g, x.graph, AdaptedWeight(x), <<s.source, s.node>>)
    BY <1>4, <1>7
  <2>2. {s.source, s.node} \in x.graph.edges
    BY <1>3 DEF e0
  <2>3. g.edges \subseteq x.graph.edges
    BY <1>3
  <2>4. x.graph.nodes = g.nodes
    BY <1>3
  <2>5. PICK h, w : h = x.graph /\ w = AdaptedWeight(x)
    OBVIOUS
  <2>6. /\ h.nodes = g.nodes /\ g.edges \subseteq h.edges /\ {s.source, s.node} \in h.edges
        /\ \A e \in h.edges : w[e] \in Nat
        /\ \A e \in g.edges : w[e] = g.cost[e]
        /\ c = RouteChange(g, h, w, <<s.source, s.node>>)
    BY <1>6, <2>1, <2>2, <2>3, <2>4, <2>5
  <2> QED BY <1>1, <2>6, RouteNoWorse
<1> QED BY <1>5, <1>7 DEF r, x

\* No answer ever reports that a failure or a removal helped, or that a supposed route
\* hurt (ChangesAreMonotone), for every topology and every question.
THEOREM ChangesAreAlwaysMonotone == Spec => []ChangesAreMonotone
<1>1. AnswerIsComputed => ChangesAreMonotone
  <2> SUFFICES ASSUME AnswerIsComputed, Told PROVE ChangesAreMonotone
    BY DEF ChangesAreMonotone
  <2>1. client = "analyst" /\ IsTopology(twin)
    BY StudyAssumption DEF AnswerIsComputed, Told
  <2>2. CASE answer.kind = "failure"
    <3>1. PICK s : AskedFailure(twin, s) /\ answer = FailureAnswer(twin, s)
      BY <2>2 DEF AnswerIsComputed
    <3>2. answer.report = Pipeline(twin, s, Candidates) /\ Change(answer) = Inject(twin, s)
      BY <3>1 DEF FailureAnswer, Change, Pipeline
    <3>3. TakenAway(answer.report, Change(answer)) /\ Change(answer).added = {}
      BY <2>1, <3>1, <3>2, FailureIsNoBetter
    <3> QED BY <3>3 DEF ChangesAreMonotone, TakenAway
  <2>3. CASE answer.kind = "counterfactual"
    <3>1. PICK s : AskedCounterfactual(twin, s) /\ answer = CounterfactualAnswer(twin, s)
      BY <2>3 DEF AnswerIsComputed
    <3>2. answer.report = Compare(twin, Execute(twin, s), Candidates) /\ Change(answer) = Execute(twin, s)
      BY <2>3, <3>1 DEF CounterfactualAnswer, Change, Compare
    <3>3. Execute(twin, s).added = IF s.action = "ADD_ROUTE" THEN {{s.source, s.node}} ELSE {}
      BY DEF Execute
    <3>4. CASE s.action = "ADD_ROUTE"
      <4>1. Change(answer).added # {}
        BY <3>2, <3>3, <3>4
      <4>2. /\ Refines(answer.report.before.components, answer.report.after.components)
            /\ \A c \in answer.report.routes : c.current # NoPath /\ c.delta <= 0
        BY <2>1, <3>1, <3>2, <3>4, RouteIsNoWorse
      <4> QED BY <4>1, <4>2 DEF ChangesAreMonotone
    <3>5. CASE s.action # "ADD_ROUTE"
      <4>1. Change(answer).added = {}
        BY <3>2, <3>3, <3>5
      <4>2. TakenAway(answer.report, Change(answer))
        BY <2>1, <3>1, <3>2, <3>5, RemovalIsNoBetter
      <4> QED BY <4>1, <4>2 DEF ChangesAreMonotone, TakenAway
    <3> QED BY <3>4, <3>5
  <2> QED BY <2>2, <2>3 DEF Told
<1> QED BY <1>1, AnswersComputed, PTL

-----------------------------------------------------------------------------
(* Root causes. *)

\* The options of a root-cause request, and what it ranks them by.
Removals(g, failed) ==
    {NodeRemoval(n) : n \in g.nodes \ {failed}} \cup {EdgeRemoval(e) : e \in g.edges}

\* The options of a root-cause request are removals of a node or of an edge.
LEMMA RemovalsAre ==
    ASSUME NEW g, IsTopology(g), NEW failed, NEW o \in Removals(g, failed)
    PROVE  \/ \E n \in g.nodes : n \in Nat /\ o = NodeRemoval(n)
           \/ \E a, b \in Nat : o = EdgeRemoval({a, b}) /\ EdgeEnds({a, b}, a, b)
<1>1. CASE o \in {NodeRemoval(n) : n \in g.nodes \ {failed}}
  BY <1>1 DEF IsTopology
<1>2. CASE o \in {EdgeRemoval(e) : e \in g.edges}
  <2>1. PICK e \in g.edges : o = EdgeRemoval(e)
    BY <1>2
  <2>2. PICK a, b \in g.nodes : EdgeEnds(e, a, b)
    BY EdgeIsItsEnds
  <2>3. a \in Nat /\ b \in Nat /\ e = {a, b}
    BY <2>2 DEF EdgeEnds, IsTopology
  <2> QED BY <2>1, <2>2, <2>3
<1> QED BY <1>1, <1>2 DEF Removals

\* Two node removals are in the order of their nodes.
LEMMA BeforeOfNodes ==
    ASSUME NEW m, NEW n
    PROVE  RemovalsBefore(NodeRemoval(m), NodeRemoval(n)) <=> m < n
BY DEF RemovalsBefore, NodeRemoval

\* Node removals come before edge removals.
LEMMA BeforeOfBoth ==
    ASSUME NEW m, NEW e
    PROVE  /\ RemovalsBefore(NodeRemoval(m), EdgeRemoval(e))
           /\ ~RemovalsBefore(EdgeRemoval(e), NodeRemoval(m))
           /\ NodeRemoval(m) # EdgeRemoval(e)
BY DEF RemovalsBefore, NodeRemoval, EdgeRemoval

\* Two edge removals are in the order of their ends.
LEMMA BeforeOfEdges ==
    ASSUME NEW a \in Nat, NEW b \in Nat, NEW c \in Nat, NEW d \in Nat,
           EdgeEnds({a, b}, a, b), EdgeEnds({c, d}, c, d)
    PROVE  RemovalsBefore(EdgeRemoval({a, b}), EdgeRemoval({c, d})) <=> a < c \/ (a = c /\ b < d)
BY DEF RemovalsBefore, EdgeRemoval, EdgePair, EdgeEnds

\* The options are finitely many and come in a strict order, so that the first
\* max_candidates of them are well defined.
LEMMA RemovalsOrdered ==
    ASSUME NEW g, IsTopology(g), NEW failed
    PROVE  LET S == Removals(g, failed)
           IN  /\ IsFiniteSet(S)
               /\ \A x \in S : ~RemovalsBefore(x, x)
               /\ \A x, y \in S : x # y => RemovalsBefore(x, y) \/ RemovalsBefore(y, x)
               /\ \A x, y, z \in S : RemovalsBefore(x, y) /\ RemovalsBefore(y, z) => RemovalsBefore(x, z)
<1> DEFINE S == Removals(g, failed)
           IsNode(o) == \E n \in Nat : o = NodeRemoval(n)
           IsEdge(o) == \E a, b \in Nat : o = EdgeRemoval({a, b}) /\ EdgeEnds({a, b}, a, b)
<1>1. \A o \in S : IsNode(o) \/ IsEdge(o)
  BY RemovalsAre
<1>2. IsFiniteSet(S)
  <2>1. IsFiniteSet(g.nodes \ {failed}) /\ IsFiniteSet(g.edges)
    <3>1. g.edges \in SUBSET (SUBSET g.nodes) /\ IsFiniteSet(SUBSET g.nodes)
      BY FS_SUBSET DEF IsTopology
    <3> QED BY <3>1, FS_Subset, FS_Difference DEF IsTopology
  <2> DEFINE f == [n \in g.nodes \ {failed} |-> NodeRemoval(n)]
             h == [e \in g.edges |-> EdgeRemoval(e)]
  <2>2. IsFiniteSet({f[n] : n \in g.nodes \ {failed}}) /\ IsFiniteSet({h[e] : e \in g.edges})
    <3> HIDE DEF f, h
    <3> QED BY <2>1, ImageIsFinite
  <2>3. S = {f[n] : n \in g.nodes \ {failed}} \cup {h[e] : e \in g.edges}
    BY DEF Removals
  <2> HIDE DEF S, f, h
  <2> QED BY <2>2, <2>3, FS_Union
<1> HIDE DEF S
<1>3. ASSUME NEW x \in S PROVE ~RemovalsBefore(x, x)
  <2>1. CASE IsNode(x)
    BY <2>1, BeforeOfNodes
  <2>2. CASE IsEdge(x)
    <3>1. PICK a, b \in Nat : x = EdgeRemoval({a, b}) /\ EdgeEnds({a, b}, a, b)
      BY <2>2
    <3> QED BY <3>1, BeforeOfEdges
  <2> QED BY <1>1, <2>1, <2>2
<1>4. ASSUME NEW x \in S, NEW y \in S, x # y PROVE RemovalsBefore(x, y) \/ RemovalsBefore(y, x)
  <2>1. CASE IsNode(x) /\ IsNode(y)
    <3>1. PICK m, n \in Nat : x = NodeRemoval(m) /\ y = NodeRemoval(n)
      BY <2>1
    <3>2. m # n
      BY <1>4, <3>1
    <3> QED BY <3>1, <3>2, BeforeOfNodes
  <2>2. CASE IsEdge(x) /\ IsEdge(y)
    <3>1. PICK a, b \in Nat : x = EdgeRemoval({a, b}) /\ EdgeEnds({a, b}, a, b)
      BY <2>2
    <3>2. PICK c, d \in Nat : y = EdgeRemoval({c, d}) /\ EdgeEnds({c, d}, c, d)
      BY <2>2
    <3>3. a # c \/ b # d
      BY <1>4, <3>1, <3>2
    <3> QED BY <3>1, <3>2, <3>3, BeforeOfEdges
  <2>3. CASE IsNode(x) /\ IsEdge(y)
    BY <2>3, BeforeOfBoth
  <2>4. CASE IsEdge(x) /\ IsNode(y)
    BY <2>4, BeforeOfBoth
  <2> QED BY <1>1, <2>1, <2>2, <2>3, <2>4
<1>5. ASSUME NEW x \in S, NEW y \in S, NEW z \in S, RemovalsBefore(x, y), RemovalsBefore(y, z)
      PROVE  RemovalsBefore(x, z)
  <2>1. CASE IsNode(x) /\ IsEdge(z)
    BY <2>1, BeforeOfBoth
  <2>2. CASE IsNode(x) /\ IsNode(z)
    <3>1. PICK m, n \in Nat : x = NodeRemoval(m) /\ z = NodeRemoval(n)
      BY <2>2
    <3>2. IsNode(y)
      <4> SUFFICES ASSUME NEW a \in Nat, NEW b \in Nat, y = EdgeRemoval({a, b}) PROVE FALSE
        BY <1>1
      <4>1. ~RemovalsBefore(EdgeRemoval({a, b}), NodeRemoval(n))
        BY BeforeOfBoth
      <4> QED BY <1>5, <3>1, <4>1
    <3>3. PICK k \in Nat : y = NodeRemoval(k)
      BY <3>2
    <3> QED BY <1>5, <3>1, <3>3, BeforeOfNodes
  <2>3. CASE IsEdge(x)
    <3>1. PICK a, b \in Nat : x = EdgeRemoval({a, b}) /\ EdgeEnds({a, b}, a, b)
      BY <2>3
    <3>2. IsEdge(y)
      <4> SUFFICES ASSUME NEW m \in Nat, y = NodeRemoval(m) PROVE FALSE
        BY <1>1
      <4>1. ~RemovalsBefore(EdgeRemoval({a, b}), NodeRemoval(m))
        BY BeforeOfBoth
      <4> QED BY <1>5, <3>1, <4>1
    <3>3. PICK c, d \in Nat : y = EdgeRemoval({c, d}) /\ EdgeEnds({c, d}, c, d)
      BY <3>2
    <3>4. IsEdge(z)
      <4> SUFFICES ASSUME NEW m \in Nat, z = NodeRemoval(m) PROVE FALSE
        BY <1>1
      <4>1. ~RemovalsBefore(EdgeRemoval({c, d}), NodeRemoval(m))
        BY BeforeOfBoth
      <4> QED BY <1>5, <3>3, <4>1
    <3>5. PICK k, l \in Nat : z = EdgeRemoval({k, l}) /\ EdgeEnds({k, l}, k, l)
      BY <3>4
    <3>6. (a < c \/ (a = c /\ b < d)) /\ (c < k \/ (c = k /\ d < l))
      BY <1>5, <3>1, <3>3, <3>5, BeforeOfEdges
    <3>7. a < k \/ (a = k /\ b < l)
      BY <3>6
    <3> QED BY <3>1, <3>5, <3>7, BeforeOfEdges
  <2> QED BY <1>1, <2>1, <2>2, <2>3
<1>6. /\ IsFiniteSet(S)
      /\ \A x \in S : ~RemovalsBefore(x, x)
      /\ \A x, y \in S : x # y => RemovalsBefore(x, y) \/ RemovalsBefore(y, x)
      /\ \A x, y, z \in S : RemovalsBefore(x, y) /\ RemovalsBefore(y, z) => RemovalsBefore(x, z)
  BY <1>2, <1>3, <1>4, <1>5
<1> QED BY <1>6 DEF S

\* The options a request tries are removals of the graph, in a finite number.
LEMMA OptionsAreRemovals ==
    ASSUME NEW g, IsTopology(g), NEW failed, NEW k \in Nat \ {0}
    PROVE  RemovalOptions(g, failed, k) \in SUBSET Removals(g, failed)
<1> DEFINE S == Removals(g, failed)
           R == {p \in S \X S : RemovalsBefore(p[1], p[2])}
           ordered == Sorted(S, RemovalsBefore)
           n == Cardinality(S)
<1>1. /\ IsFiniteSet(S)
      /\ \A x \in S : ~RemovalsBefore(x, x)
      /\ \A x, y \in S : x # y => RemovalsBefore(x, y) \/ RemovalsBefore(y, x)
      /\ \A x, y, z \in S : RemovalsBefore(x, y) /\ RemovalsBefore(y, z) => RemovalsBefore(x, z)
  BY RemovalsOrdered
<1>2. n \in Nat
  BY <1>1, FS_CardinalityType
<1>3. RemovalOptions(g, failed, k) = {ordered[i] : i \in 1..Min({k, Len(ordered)})}
  BY DEF RemovalOptions, Removals
<1>4. ordered = [i \in 1..n |-> CHOOSE x \in S : Cardinality({y \in S \ {x} : RemovalsBefore(y, x)}) = i - 1]
  BY DEF Sorted
<1> HIDE DEF S, n
<1>5. \A x, y \in S : <<x, y>> \in R <=> RemovalsBefore(x, y)
  OBVIOUS
<1> HIDE DEF R
<1>6. IsStrictOrder(R, S)
  BY <1>1, <1>5 DEF IsStrictOrder
<1>7. \A x \in S : Below(R, S, x) = {y \in S \ {x} : RemovalsBefore(y, x)}
  BY <1>5 DEF Below
<1>8. ASSUME NEW i \in 1..n PROVE ordered[i] \in S
  <2>1. \E x \in S : Cardinality(Below(R, S, x)) = i - 1
    BY <1>1, <1>6, PlacesAreTaken DEF n
  <2>2. \E x \in S : Cardinality({y \in S \ {x} : RemovalsBefore(y, x)}) = i - 1
    BY <1>7, <2>1
  <2>3. ordered[i] = CHOOSE x \in S : Cardinality({y \in S \ {x} : RemovalsBefore(y, x)}) = i - 1
    BY <1>4
  <2> HIDE DEF ordered
  <2> QED BY <2>2, <2>3
<1>9. Len(ordered) = n
  <2> HIDE DEF ordered
  <2> QED BY <1>2, <1>4
<1>10. Min({k, n}) \in Nat /\ Min({k, n}) <= n
  <2>1. {k, n} \in SUBSET Nat /\ {k, n} # {} /\ n \in {k, n}
    BY <1>2
  <2> HIDE DEF ordered
  <2> QED BY <2>1, MinOfNaturals
<1>11. \A i \in 1..Min({k, n}) : ordered[i] \in S
  <2> HIDE DEF ordered
  <2> QED BY <1>2, <1>8, <1>10
<1> HIDE DEF ordered
<1>12. RemovalOptions(g, failed, k) \in SUBSET S
  BY <1>3, <1>9, <1>11
<1> QED BY <1>12 DEF S

Outscores(a, b) ==
    LET p == Cardinality(a.prevented) - Cardinality(b.prevented)
        c == Cardinality(a.collateral) - Cardinality(b.collateral)
    IN  \/ p > 0
        \/ p = 0 /\ c < 0
        \/ p = 0 /\ c = 0 /\ RemovalsBefore(a.option, b.option)

CutOffBy(g, failed) ==
    LET injection == Inject(g, NodeFailure(failed))
    IN  NewlyUnreachable(injection, Connectivity(g), Connectivity(injection.graph))

Ranked(g, failed, k) ==
    {RootCause(g, failed, o, CutOffBy(g, failed)) : o \in RemovalOptions(g, failed, k)}

\* The ranking lists the items by their scores.
LEMMA RankingIsSorted ==
    ASSUME NEW g, NEW failed, NEW k
    PROVE  LET S == Ranked(g, failed, k)
           IN  RankRootCauses(g, failed, k) =
                 [i \in 1..Cardinality(S) |->
                    CHOOSE x \in S : Cardinality({y \in S \ {x} : Outscores(y, x)}) = i - 1]
BY DEF RankRootCauses, Ranked, CutOffBy, Sorted, Outscores

\* An item of the ranking is that of one option, computed from the failure's impact.
LEMMA RankedItems ==
    ASSUME NEW g, IsTopology(g), NEW failed, NEW k \in Nat \ {0}, NEW x \in Ranked(g, failed, k)
    PROVE  /\ x.option \in Removals(g, failed)
           /\ x = RootCause(g, failed, x.option, CutOffBy(g, failed))
           /\ Cardinality(x.prevented) \in Nat /\ Cardinality(x.collateral) \in Nat
<1>1. PICK o \in RemovalOptions(g, failed, k) : x = RootCause(g, failed, o, CutOffBy(g, failed))
  BY DEF Ranked
<1>2. o \in Removals(g, failed)
  BY OptionsAreRemovals
<1>3. x.option = o
  BY <1>1 DEF RootCause
<1>4. Connectivity(g).largest \subseteq g.nodes /\ IsFiniteSet(g.nodes)
  BY LargestComponent DEF IsTopology
<1>5. x.prevented \subseteq CutOffBy(g, failed) /\ CutOffBy(g, failed) \subseteq g.nodes
  <2>1. x.prevented \subseteq CutOffBy(g, failed)
    BY <1>1 DEF RootCause, Saved
  <2>2. CutOffBy(g, failed) \subseteq g.nodes
    BY <1>4 DEF CutOffBy, NewlyUnreachable
  <2> QED BY <2>1, <2>2
<1>6. x.collateral \subseteq g.nodes
  BY <1>1, <1>4 DEF RootCause, NewlyUnreachable
<1>7. Cardinality(x.prevented) \in Nat /\ Cardinality(x.collateral) \in Nat
  BY <1>4, <1>5, <1>6, FS_Subset, FS_CardinalityType
<1> QED BY <1>1, <1>2, <1>3, <1>7

\* Every place of the ranking holds the outcome of one option.
LEMMA RankingHoldsItems ==
    ASSUME NEW g, IsTopology(g), NEW failed, NEW k \in Nat \ {0},
           NEW i \in DOMAIN RankRootCauses(g, failed, k)
    PROVE  RankRootCauses(g, failed, k)[i] \in Ranked(g, failed, k)
<1> DEFINE S == Ranked(g, failed, k)
           R == {p \in S \X S : Outscores(p[1], p[2])}
           O == Removals(g, failed)
<1>1. /\ \A x \in O : ~RemovalsBefore(x, x)
      /\ \A x, y \in O : x # y => RemovalsBefore(x, y) \/ RemovalsBefore(y, x)
      /\ \A x, y, z \in O : RemovalsBefore(x, y) /\ RemovalsBefore(y, z) => RemovalsBefore(x, z)
      /\ IsFiniteSet(O)
  BY RemovalsOrdered
<1>2. IsFiniteSet(S)
  <2>1. IsFiniteSet(RemovalOptions(g, failed, k))
    BY <1>1, OptionsAreRemovals, FS_Subset
  <2> DEFINE f == [o \in RemovalOptions(g, failed, k) |-> RootCause(g, failed, o, CutOffBy(g, failed))]
  <2>2. S = {f[o] : o \in RemovalOptions(g, failed, k)}
    BY DEF Ranked
  <2> HIDE DEF f
  <2>3. IsFiniteSet({f[o] : o \in RemovalOptions(g, failed, k)})
    BY <2>1, ImageIsFinite
  <2> QED BY <2>2, <2>3
<1>3. \A x \in S : /\ x.option \in O
                   /\ x = RootCause(g, failed, x.option, CutOffBy(g, failed))
                   /\ Cardinality(x.prevented) \in Nat /\ Cardinality(x.collateral) \in Nat
  BY RankedItems
<1> HIDE DEF S, O
<1>4. \A x, y \in S : x # y => x.option # y.option
  BY <1>3
<1>5. \A x, y \in S : <<x, y>> \in R <=> Outscores(x, y)
  OBVIOUS
<1> HIDE DEF R
<1>6. IsStrictOrder(R, S)
  <2>1. \A x \in S : ~Outscores(x, x)
    BY <1>1, <1>3 DEF Outscores
  <2>2. \A x, y \in S : x # y => Outscores(x, y) \/ Outscores(y, x)
    <3> TAKE x, y \in S
    <3>1. x # y => RemovalsBefore(x.option, y.option) \/ RemovalsBefore(y.option, x.option)
      BY <1>1, <1>3, <1>4
    <3> QED BY <1>3, <3>1 DEF Outscores
  <2>3. \A x, y, z \in S : Outscores(x, y) /\ Outscores(y, z) => Outscores(x, z)
    <3> TAKE x, y, z \in S
    <3>1. RemovalsBefore(x.option, y.option) /\ RemovalsBefore(y.option, z.option)
             => RemovalsBefore(x.option, z.option)
      BY <1>1, <1>3
    <3> QED BY <1>3, <3>1 DEF Outscores
  <2> QED BY <1>5, <2>1, <2>2, <2>3 DEF IsStrictOrder
<1>7. \A x \in S : Below(R, S, x) = {y \in S \ {x} : Outscores(y, x)}
  BY <1>5 DEF Below
<1> DEFINE ranking == RankRootCauses(g, failed, k)
<1>8. ranking = [j \in 1..Cardinality(S) |->
                   CHOOSE x \in S : Cardinality({y \in S \ {x} : Outscores(y, x)}) = j - 1]
  BY RankingIsSorted DEF S
<1> HIDE DEF ranking
<1>9. i \in 1..Cardinality(S)
  BY <1>8 DEF ranking
<1>10. \E x \in S : Cardinality(Below(R, S, x)) = i - 1
  BY <1>2, <1>6, <1>9, PlacesAreTaken
<1>11. \E x \in S : Cardinality({y \in S \ {x} : Outscores(y, x)}) = i - 1
  BY <1>7, <1>10
<1>12. ranking[i] \in S
  BY <1>8, <1>9, <1>11
<1> QED BY <1>12 DEF ranking, S

\* In every ranking of every root-cause request (rank_root_causes), a node that is said
\* to be saved is, with the option removed and the failure run, in the largest
\* component, or is named as collateral (PreventedOrCollateral).
THEOREM PreventedOrNamed == Spec => []PreventedOrCollateral
<1>1. AnswerIsComputed => PreventedOrCollateral
  <2> SUFFICES ASSUME AnswerIsComputed, answer.kind = "root_cause", NEW i \in DOMAIN answer.ranking
               PROVE  LET item == answer.ranking[i]
                          left == WithoutNode(Execute(twin, item.option).graph, answer.failed)
                      IN  /\ item.prevented \subseteq item.impacted
                          /\ item.prevented \ item.collateral \subseteq Connectivity(left).largest
    BY DEF PreventedOrCollateral
  <2>1. PICK n \in twin.nodes : answer = RootCauseAnswer(twin, n)
    BY DEF AnswerIsComputed
  <2>2. answer.failed = n /\ answer.ranking = RankRootCauses(twin, n, MaxCandidates)
    BY <2>1 DEF RootCauseAnswer
  <2>3. IsTopology(twin) /\ MaxCandidates \in Nat \ {0}
    BY StudyAssumption DEF AnswerIsComputed
  <2> DEFINE item == answer.ranking[i]
             x == Execute(twin, item.option)
             rerun == Inject(x.graph, NodeFailure(n))
             left == WithoutNode(x.graph, n)
             cut == CutOffBy(twin, n)
             stranded == NewlyUnreachable(rerun, Connectivity(x.graph), Connectivity(rerun.graph))
  <2>4. item = RootCause(twin, n, item.option, cut)
    <3>1. item \in Ranked(twin, n, MaxCandidates)
      BY <2>2, <2>3, RankingHoldsItems
    <3> HIDE DEF item
    <3> QED BY <2>3, <3>1, RankedItems
  <2>5. /\ item.impacted = cut
        /\ item.prevented = Saved(cut, x.graph.nodes, stranded)
        /\ item.collateral = NewlyUnreachable(x, Connectivity(twin), Connectivity(x.graph))
    <3> HIDE DEF item
    <3> QED BY <2>4 DEF RootCause
  <2>6. rerun.graph = left /\ rerun.removedNodes = {n}
    BY DEF Inject, NodeFailure, WithoutNode
  <2>7. cut \subseteq Connectivity(twin).largest \ {n}
    BY DEF CutOffBy, NewlyUnreachable, Inject, NodeFailure
  <2>8. x.graph.nodes = twin.nodes \ x.removedNodes
    BY DEF Execute, Remaining, Topology
  <2> HIDE DEF item, x, rerun, left, cut
  <2>9. item.prevented \subseteq item.impacted
    BY <2>5 DEF Saved
  <2>10. item.prevented \ item.collateral \subseteq Connectivity(left).largest
    <3> SUFFICES ASSUME NEW m \in item.prevented, m \notin item.collateral
                 PROVE  m \in Connectivity(left).largest
      OBVIOUS
    <3>1. m \in cut /\ m \in x.graph.nodes /\ m \notin stranded
      BY <2>5 DEF Saved
    <3>2. m \in Connectivity(twin).largest /\ m # n /\ m \notin x.removedNodes
      BY <2>7, <2>8, <3>1
    <3>3. m \in Connectivity(x.graph).largest
      BY <2>5, <3>2 DEF NewlyUnreachable
    <3> QED BY <2>6, <3>1, <3>2, <3>3 DEF NewlyUnreachable
  <2> QED BY <2>2, <2>9, <2>10 DEF item, x, left
<1> QED BY <1>1, AnswersComputed, PTL

-----------------------------------------------------------------------------
(* Repairs. *)

\* What is left of a topology without a node.
LEMMA WithoutNodeIs ==
    ASSUME NEW g, IsTopology(g), NEW n
    PROVE  /\ WithoutNode(g, n).nodes = g.nodes \ {n}
           /\ WithoutNode(g, n).edges = {e \in g.edges : n \notin e}
           /\ IsFiniteSet(WithoutNode(g, n).nodes) /\ WithoutNode(g, n).nodes \in SUBSET Nat
           /\ \A a, b : {a, b} \in WithoutNode(g, n).edges =>
                 a \in WithoutNode(g, n).nodes /\ b \in WithoutNode(g, n).nodes
<1>1. WithoutNode(g, n).nodes = g.nodes \ {n}
  BY RemainingIsLess DEF WithoutNode
<1>2. WithoutNode(g, n).edges = {e \in g.edges : n \notin e}
  BY RemainingIsLess DEF WithoutNode, IncidentEdges
<1>3. IsFiniteSet(WithoutNode(g, n).nodes) /\ WithoutNode(g, n).nodes \in SUBSET Nat
  BY <1>1, FS_Subset DEF IsTopology
<1>4. ASSUME NEW a, NEW b, {a, b} \in WithoutNode(g, n).edges
      PROVE  a \in WithoutNode(g, n).nodes /\ b \in WithoutNode(g, n).nodes
  <2>1. {a, b} \in g.edges /\ n \notin {a, b}
    BY <1>2, <1>4
  <2>2. {a, b} \subseteq g.nodes
    BY <2>1 DEF IsTopology
  <2> QED BY <1>1, <2>1, <2>2
<1> QED BY <1>1, <1>2, <1>3, <1>4

\* No component holds more of what really remained.
MostOverlap(C, components, actual) ==
    \A D \in components : Cardinality(C \cap actual) >= Cardinality(D \cap actual)

\* The component with the most of the nodes that reality kept is one of them.
LEMMA MainComponentExists ==
    ASSUME NEW K, IsFiniteSet(K), K # {}, NEW actual,
           \A C \in K : C # {} /\ C \in SUBSET Nat /\ IsFiniteSet(C)
    PROVE  /\ MainComponent(K, actual) \in K
           /\ MostOverlap(MainComponent(K, actual), K, actual)
<1> DEFINE B == Cardinality(UNION K)
           O(C) == Cardinality(C \cap actual)
           Short == {B - O(C) : C \in K}
           best == {C \in K : MostOverlap(C, K, actual)}
<1>1. B \in Nat /\ \A C \in K : O(C) \in Nat /\ O(C) <= B
  <2>1. IsFiniteSet(UNION K)
    BY FS_UNION
  <2>2. \A C \in K : C \cap actual \in SUBSET (UNION K)
    OBVIOUS
  <2> QED BY <2>1, <2>2, FS_Subset, FS_CardinalityType
<1>2. Short \in SUBSET Nat /\ Short # {}
  <2> HIDE DEF B, O
  <2>1. \A C \in K : B - O(C) \in Nat
    BY <1>1
  <2> QED BY <2>1
<1>3. PICK k \in Short : \A j \in Short : k <= j
  BY <1>2, LeastElement
<1>4. PICK M \in K : k = B - O(M)
  OBVIOUS
<1>5. \A D \in K : O(D) <= O(M)
  <2>1. \A D \in K : B - O(D) \in Short
    OBVIOUS
  <2>2. \A D \in K : k <= B - O(D)
    BY <1>3, <2>1
  <2> HIDE DEF B, Short, O
  <2> QED BY <1>1, <1>4, <2>2
<1>6. M \in best
  <2> HIDE DEF O
  <2>1. \A D \in K : O(M) >= O(D)
    BY <1>1, <1>5
  <2> QED BY <2>1 DEF MostOverlap, O
<1>7. IsFiniteSet(best) /\ best # {} /\ \A C \in best : C # {} /\ C \in SUBSET Nat /\ IsFiniteSet(C)
  BY <1>6, FS_Subset
<1>8. MainComponent(K, actual) = CHOOSE C \in best : IsLargest(C, best)
  BY DEF MainComponent, MostOverlap
<1> HIDE DEF best
<1>9. \E C \in best : IsLargest(C, best)
  BY <1>7, LargestExists
<1>10. MainComponent(K, actual) \in best
  BY <1>8, <1>9, Zenon
<1> QED BY <1>10 DEF best

\* What a repair does: every wrongly stranded component gets one bridge to
\* the main one, and nothing else changes.
Mends(g, n, actual, fixed, main) ==
    LET K == Components(WithoutNode(g, n))
        W == WronglyStranded(K, main, actual)
    IN  /\ main \in K /\ MostOverlap(main, K, actual)
        /\ \A C \in W : \E a \in C, b \in main : {a, b} \in fixed.bridges
        /\ \A e \in fixed.bridges : \E C \in W : \E a \in C, b \in main : e = {a, b}
        /\ fixed.missing = Cardinality(((g.nodes \ actual) \ {n}) \ UNION (K \ {main}))
        /\ fixed.graph.nodes = g.nodes
        /\ fixed.graph.edges = g.edges \cup fixed.bridges
        /\ fixed.graph.cost = [e \in fixed.graph.edges |->
                                 IF e \in fixed.bridges THEN HypotheticalCost ELSE g.cost[e]]

\* The node of a component that a bridge ends at.
BridgeEnd(g, n, C) ==
    LET within == Within(g, {n})
        hops   == 0..Cardinality(g.nodes)
        seen == {d \in hops : C \cap within[d] # {}}
    IN  IF seen = {} THEN Min(C) ELSE Min(C \cap within[Min(seen)])

\* A bridge to a component ends at a node of it.
LEMMA BridgeEndInside ==
    ASSUME NEW g, IsTopology(g), NEW n, NEW C, C # {}, C \in SUBSET Nat
    PROVE  BridgeEnd(g, n, C) \in C
<1> DEFINE within == Within(g, {n})
           seen == {d \in 0..Cardinality(g.nodes) : C \cap within[d] # {}}
<1>1. seen \in SUBSET Nat
  <2>1. Cardinality(g.nodes) \in Nat
    BY FS_CardinalityType DEF IsTopology
  <2> QED BY <2>1
<1>2. CASE seen = {}
  <2>1. BridgeEnd(g, n, C) = Min(C)
    BY <1>2 DEF BridgeEnd
  <2> QED BY <2>1, MinOfNaturals
<1>3. CASE seen # {}
  <2>1. BridgeEnd(g, n, C) = Min(C \cap within[Min(seen)])
    BY <1>3 DEF BridgeEnd
  <2> HIDE DEF within
  <2>2. Min(seen) \in seen
    <3> HIDE DEF seen
    <3> QED BY <1>1, <1>3, MinOfNaturals
  <2>3. PICK d : d = Min(seen)
    OBVIOUS
  <2>4. C \cap within[d] # {}
    BY <2>2, <2>3
  <2>5. Min(C \cap within[d]) \in C \cap within[d]
    BY <2>4, MinOfNaturals
  <2> QED BY <2>1, <2>3, <2>5
<1> QED BY <1>2, <1>3

\* The components of what is left are disjoint and make it up.
LEMMA ComponentsOfRest ==
    ASSUME NEW g, IsTopology(g), NEW n
    PROVE  LET K == Components(WithoutNode(g, n))
           IN  /\ IsFiniteSet(K)
               /\ \A C \in K : C # {} /\ C \in SUBSET Nat /\ IsFiniteSet(C)
                               /\ C \subseteq g.nodes \ {n}
               /\ UNION K = g.nodes \ {n}
               /\ \A C, D \in K : C \cap D # {} => C = D
<1> DEFINE K == Components(WithoutNode(g, n))
<1>1. IsFiniteSet(WithoutNode(g, n).nodes) /\ WithoutNode(g, n).nodes \in SUBSET Nat
      /\ WithoutNode(g, n).nodes = g.nodes \ {n}
  BY WithoutNodeIs
<1>2. /\ IsFiniteSet(K) /\ {} \notin K /\ UNION K = g.nodes \ {n}
      /\ \A C, D \in K : C \cap D # {} => C = D
      /\ \A C \in K : C \subseteq g.nodes \ {n} /\ IsFiniteSet(C)
  BY <1>1, ComponentsPartition
<1> HIDE DEF K
<1>3. \A C \in K : C # {} /\ C \in SUBSET Nat /\ IsFiniteSet(C) /\ C \subseteq g.nodes \ {n}
  <2> SUFFICES ASSUME NEW C \in K PROVE C # {} /\ C \in SUBSET Nat /\ IsFiniteSet(C) /\ C \subseteq g.nodes \ {n}
    OBVIOUS
  <2>1. C \subseteq g.nodes \ {n} /\ IsFiniteSet(C) /\ C # {}
    BY <1>2
  <2> QED BY <1>1, <2>1
<1>4. /\ IsFiniteSet(K)
      /\ \A C \in K : C # {} /\ C \in SUBSET Nat /\ IsFiniteSet(C)
                      /\ C \subseteq g.nodes \ {n}
      /\ UNION K = g.nodes \ {n}
      /\ \A C, D \in K : C \cap D # {} => C = D
  BY <1>2, <1>3
<1> QED BY <1>4 DEF K

\* A repair (repair_twin) does nothing where nothing is left, and else joins the wrongly
\* stranded components to the main one by bridges, and adds no other edge.
LEMMA RepairMends ==
    ASSUME NEW g, IsTopology(g), NEW n, NEW largest
    PROVE  \/ /\ Components(WithoutNode(g, n)) = {}
              /\ Repair(g, n, largest).graph = g /\ Repair(g, n, largest).bridges = {}
           \/ \E main : Mends(g, n, largest \ {n}, Repair(g, n, largest), main)
<1> DEFINE K == Components(WithoutNode(g, n))
           actual == largest \ {n}
           main == MainComponent(K, actual)
           bridges == {{BridgeEnd(g, n, C), BridgeEnd(g, n, main)} : C \in WronglyStranded(K, main, actual)}
           edges == g.edges \cup bridges
           fixed == Repair(g, n, largest)
<1>1. CASE K = {}
  <2>1. fixed = [graph |-> g, bridges |-> {}, missing |-> 0]
    BY <1>1 DEF Repair
  <2> QED BY <1>1, <2>1
<1>2. CASE K # {}
  <2>1. fixed = [graph   |-> Topology(g.nodes, edges,
                             [e \in edges |-> IF e \in bridges THEN HypotheticalCost ELSE g.cost[e]]),
                 bridges |-> bridges,
                 missing |-> Cardinality(((g.nodes \ actual) \ {n}) \ UNION (K \ {main}))]
    BY <1>2 DEF Repair, BridgeEnd
  <2> HIDE DEF K, fixed
  <2>2. /\ IsFiniteSet(K)
        /\ \A C \in K : C # {} /\ C \in SUBSET Nat /\ IsFiniteSet(C)
    BY ComponentsOfRest DEF K
  <2>3. main \in K /\ MostOverlap(main, K, actual)
    <3> HIDE DEF actual
    <3> QED BY <1>2, <2>2, MainComponentExists
  <2> HIDE DEF main, actual, bridges, edges
  <2>4. \A C \in K : BridgeEnd(g, n, C) \in C
    BY <2>2, BridgeEndInside
  <2>5. /\ fixed.bridges = bridges
        /\ fixed.missing = Cardinality(((g.nodes \ actual) \ {n}) \ UNION (K \ {main}))
        /\ fixed.graph.nodes = g.nodes
        /\ fixed.graph.edges = g.edges \cup fixed.bridges
        /\ fixed.graph.cost = [e \in fixed.graph.edges |->
                                 IF e \in fixed.bridges THEN HypotheticalCost ELSE g.cost[e]]
    BY <2>1 DEF Topology, edges
  <2>6. \A C \in WronglyStranded(K, main, actual) :
           {BridgeEnd(g, n, C), BridgeEnd(g, n, main)} \in bridges
           /\ BridgeEnd(g, n, C) \in C /\ BridgeEnd(g, n, main) \in main
    BY <2>3, <2>4 DEF bridges, WronglyStranded
  <2>7. \A C \in WronglyStranded(K, main, actual) : \E a \in C, b \in main : {a, b} \in fixed.bridges
    BY <2>5, <2>6
  <2>8. ASSUME NEW e \in bridges
        PROVE  \E C \in WronglyStranded(K, main, actual) : \E a \in C, b \in main : e = {a, b}
    <3>1. PICK C \in WronglyStranded(K, main, actual) : e = {BridgeEnd(g, n, C), BridgeEnd(g, n, main)}
      BY DEF bridges
    <3> QED BY <2>6, <3>1
  <2>9. Mends(g, n, actual, fixed, main)
    BY <2>3, <2>5, <2>7, <2>8 DEF Mends, K
  <2> QED BY <2>9 DEF actual, fixed
<1> QED BY <1>1, <1>2

-----------------------------------------------------------------------------

\* What one bridge after another makes of the components: the main one takes
\* in the stranded ones, and the others stay as they are.
Merged(K, main, actual) == UNION ({main} \cup WronglyStranded(K, main, actual))

\* Two different nodes make an edge.
LEMMA PairHasTwo ==
    ASSUME NEW a, NEW b, a # b
    PROVE  Cardinality({a, b}) = 2
<1>1. IsFiniteSet({a}) /\ Cardinality({a}) = 1 /\ b \notin {a} /\ {a} \cup {b} = {a, b}
  BY FS_Singleton
<1>2. Cardinality({a} \cup {b}) = Cardinality({a}) + 1
  BY <1>1, FS_AddElement
<1> QED BY <1>1, <1>2

\* A repaired twin is a topology; its bridges are new, and none ends at the failed node.
LEMMA MendedIsTopology ==
    ASSUME NEW g, IsTopology(g), NEW n, NEW actual, NEW fixed, NEW main, Mends(g, n, actual, fixed, main)
    PROVE  /\ IsTopology(fixed.graph)
           /\ g.edges \cap fixed.bridges = {}
           /\ \A e \in fixed.bridges : n \notin e
<1> DEFINE K == Components(WithoutNode(g, n))
           W == WronglyStranded(K, main, actual)
           h == WithoutNode(g, n)
<1>1. /\ \A C \in K : C \subseteq g.nodes \ {n}
      /\ \A C, D \in K : C \cap D # {} => C = D
  BY ComponentsOfRest
<1>2. main \in K /\ W \subseteq K \ {main}
  BY DEF Mends, WronglyStranded
<1>3. \A C \in K : Closed(h, C)
  BY WithoutNodeIs, ComponentsPartition
<1>4. h.nodes = g.nodes \ {n} /\ h.edges = {e \in g.edges : n \notin e}
  BY WithoutNodeIs
<1>5. \A e \in fixed.bridges : \E C \in W : \E a \in C, b \in main : e = {a, b}
  BY DEF Mends
<1> HIDE DEF K, W, h
<1>6. ASSUME NEW e \in fixed.bridges
      PROVE  /\ e \subseteq g.nodes /\ n \notin e /\ Cardinality(e) = 2 /\ e \notin g.edges
  <2>0. PICK C \in W : \E a \in C, b \in main : e = {a, b}
    BY <1>5
  <2>1. PICK a \in C, b \in main : e = {a, b}
    BY <2>0
  <2>2. a \in g.nodes /\ b \in g.nodes /\ a # n /\ b # n /\ a # b /\ C \in K /\ b \notin C
    BY <1>1, <1>2
  <2>3. Cardinality(e) = 2
    BY <2>1, <2>2, PairHasTwo
  <2>4. e \notin g.edges
    <3> SUFFICES ASSUME e \in g.edges PROVE FALSE
      OBVIOUS
    <3>1. {a, b} \in h.edges /\ b \in h.nodes
      BY <1>4, <2>1, <2>2
    <3> QED BY <1>3, <2>2, <3>1 DEF Closed
  <2> QED BY <2>1, <2>2, <2>3, <2>4
<1>7. /\ fixed.graph.nodes = g.nodes
      /\ fixed.graph.edges = g.edges \cup fixed.bridges
      /\ fixed.graph.cost = [e \in fixed.graph.edges |->
                               IF e \in fixed.bridges THEN HypotheticalCost ELSE g.cost[e]]
  BY DEF Mends
<1>8. \A e \in fixed.graph.edges : e \subseteq g.nodes /\ Cardinality(e) = 2
  BY <1>6, <1>7 DEF IsTopology
<1>9. fixed.graph.cost \in [fixed.graph.edges -> Nat]
  <2>1. g.cost \in [g.edges -> Nat] /\ HypotheticalCost \in Nat
    BY HypotheticalAssumption DEF IsTopology
  <2> QED BY <1>7, <2>1
<1>10. IsTopology(fixed.graph)
  BY <1>7, <1>8, <1>9 DEF IsTopology
<1> QED BY <1>6, <1>10

\* After a repair the main component and the wrongly stranded ones are one component.
LEMMA MergedComponent ==
    ASSUME NEW g, IsTopology(g), NEW n, NEW actual, NEW fixed, NEW main, Mends(g, n, actual, fixed, main)
    PROVE  LET K == Components(WithoutNode(g, n))
           IN  /\ Merged(K, main, actual) \in Components(WithoutNode(fixed.graph, n))
               /\ \A C \in Components(WithoutNode(fixed.graph, n)) :
                     C = Merged(K, main, actual) \/ C \in K \ ({main} \cup WronglyStranded(K, main, actual))
<1> DEFINE K == Components(WithoutNode(g, n))
           W == WronglyStranded(K, main, actual)
           h == WithoutNode(g, n)
           k == WithoutNode(fixed.graph, n)
           M == Merged(K, main, actual)
<1>1. /\ \A C \in K : C \subseteq g.nodes \ {n} /\ C # {}
      /\ \A C, D \in K : C \cap D # {} => C = D
      /\ UNION K = g.nodes \ {n}
  BY ComponentsOfRest
<1>2. main \in K /\ W \subseteq K \ {main}
  BY DEF Mends, WronglyStranded
<1>3. /\ \A C \in K : Closed(h, C)
      /\ \A C \in K : \A x \in C : C = ComponentOf(h, x)
  BY WithoutNodeIs, ComponentsPartition
<1>4. h.nodes = g.nodes \ {n} /\ h.edges = {e \in g.edges : n \notin e}
  BY WithoutNodeIs
<1>5. /\ \A e \in fixed.bridges : \E C \in W : \E a \in C, b \in main : e = {a, b}
      /\ \A C \in W : \E a \in C, b \in main : {a, b} \in fixed.bridges
      /\ fixed.graph.nodes = g.nodes /\ fixed.graph.edges = g.edges \cup fixed.bridges
  BY DEF Mends
<1>6. IsTopology(fixed.graph) /\ \A e \in fixed.bridges : n \notin e
  BY MendedIsTopology
<1>7. k.nodes = h.nodes /\ k.edges = h.edges \cup fixed.bridges /\ IsFiniteSet(k.nodes)
  <2>1. k.nodes = fixed.graph.nodes \ {n} /\ k.edges = {e \in fixed.graph.edges : n \notin e} /\ IsFiniteSet(k.nodes)
    BY <1>6, WithoutNodeIs
  <2> HIDE DEF h, k, K, W
  <2> QED BY <1>4, <1>5, <1>6, <2>1
<1>8. M = UNION ({main} \cup W)
  BY DEF Merged
<1>9. Components(k) = {ComponentOf(k, x) : x \in k.nodes}
  BY DEF Components
<1> HIDE DEF K, W, h, k, M
\* Each stranded component, and the main one, lies within the component of a main node.
<1>10. ASSUME NEW x \in k.nodes PROVE ComponentOf(h, x) \subseteq ComponentOf(k, x)
  BY <1>7, ComponentsShrink
<1>11. ASSUME NEW x \in main PROVE M \subseteq ComponentOf(k, x)
  <2>1. x \in k.nodes /\ main \subseteq ComponentOf(k, x)
    BY <1>1, <1>2, <1>3, <1>4, <1>7, <1>10
  <2>2. ASSUME NEW C \in W PROVE C \subseteq ComponentOf(k, x)
    <3>1. PICK a \in C, b \in main : {a, b} \in fixed.bridges
      BY <1>5
    <3>2. a \in k.nodes /\ {b, a} \in k.edges /\ b \in ComponentOf(k, x)
      <4>1. {b, a} = {a, b}
        OBVIOUS
      <4> QED BY <1>1, <1>2, <1>4, <1>7, <2>1, <3>1, <4>1
    <3>3. a \in ComponentOf(k, x)
      BY <1>7, <2>1, <3>2, ComponentIsLeast DEF Closed
    <3>4. ComponentOf(k, a) = ComponentOf(k, x)
      BY <1>7, <2>1, <3>3, ComponentsAgree
    <3>5. C = ComponentOf(h, a)
      BY <1>2, <1>3
    <3> QED BY <1>10, <3>2, <3>4, <3>5
  <2> QED BY <1>8, <2>1, <2>2
<1>12. Closed(k, M)
  <2> SUFFICES ASSUME NEW x \in M, NEW y \in k.nodes, {x, y} \in k.edges PROVE y \in M
    BY DEF Closed
  <2>1. CASE {x, y} \in h.edges
    <3>1. PICK C \in {main} \cup W : x \in C
      BY <1>8
    <3>2. y \in C
      BY <1>2, <1>3, <1>7, <2>1, <3>1 DEF Closed
    <3> QED BY <1>8, <3>1, <3>2
  <2>2. CASE {x, y} \in fixed.bridges
    <3>0. PICK C \in W : \E a \in C, b \in main : {x, y} = {a, b}
      BY <1>5, <2>2
    <3>1. PICK a \in C, b \in main : {x, y} = {a, b}
      BY <3>0
    <3>2. y = a \/ y = b
      BY <3>1
    <3> QED BY <1>8, <3>1, <3>2
  <2> QED BY <1>7, <2>1, <2>2
<1>13. ASSUME NEW x \in M PROVE x \in k.nodes /\ ComponentOf(k, x) = M
  <2>1. PICK z \in main : TRUE
    BY <1>1, <1>2
  <2>2. z \in k.nodes /\ z \in M
    BY <1>1, <1>2, <1>4, <1>7, <1>8
  <2>3. ComponentOf(k, z) = M
    BY <1>7, <1>11, <1>12, <2>1, <2>2, ComponentIsLeast
  <2> QED BY <1>7, <2>2, <2>3, ComponentsAgree
<1>14. M \in Components(k)
  <2>1. PICK z \in main : TRUE
    BY <1>1, <1>2
  <2>2. z \in M
    BY <1>8
  <2> QED BY <1>9, <1>13, <2>2
\* A component that was not stranded keeps its borders.
<1>15. ASSUME NEW C \in K, C \notin {main} \cup W, NEW x \in C PROVE ComponentOf(k, x) = C
  <2>1. Closed(k, C)
    <3> SUFFICES ASSUME NEW y \in C, NEW z \in k.nodes, {y, z} \in k.edges PROVE z \in C
      BY DEF Closed
    <3>1. CASE {y, z} \in h.edges
      BY <1>3, <1>7, <3>1 DEF Closed
    <3>2. CASE {y, z} \in fixed.bridges
      <4>0. PICK D \in W : \E a \in D, b \in main : {y, z} = {a, b}
        BY <1>5, <3>2
      <4>1. PICK a \in D, b \in main : {y, z} = {a, b}
        BY <4>0
      <4>2. y = a \/ y = b
        BY <4>1
      <4>3. y \in D \/ y \in main
        BY <4>2
      <4> QED BY <1>1, <1>2, <1>15, <4>3
    <3> QED BY <1>7, <3>1, <3>2
  <2>2. x \in k.nodes
    BY <1>1, <1>4, <1>7
  <2>3. ComponentOf(k, x) \subseteq C
    BY <1>7, <2>1, <2>2, ComponentIsLeast
  <2>4. C \subseteq ComponentOf(k, x)
    BY <1>3, <1>10, <2>2
  <2> QED BY <2>3, <2>4
<1>16. ASSUME NEW C \in Components(k) PROVE C = M \/ C \in K \ ({main} \cup W)
  <2>1. PICK x \in k.nodes : C = ComponentOf(k, x)
    BY <1>9
  <2>2. PICK D \in K : x \in D
    BY <1>1, <1>4, <1>7
  <2>3. CASE D \in {main} \cup W
    <3>1. x \in M
      BY <1>8, <2>2, <2>3
    <3> QED BY <1>13, <2>1, <3>1
  <2>4. CASE D \notin {main} \cup W
    BY <1>15, <2>1, <2>2, <2>4
  <2> QED BY <2>3, <2>4
<1> QED BY <1>14, <1>16 DEF K, W, k, M


\* No two components of what is left of a graph are wrongly apart.
AtMostOneWithin(g, n, whole) ==
    \A C, D \in Components(WithoutNode(g, n)) : C \subseteq whole /\ D \subseteq whole => C = D

\* No two components wrongly apart means at most one of them is counted.
LEMMA AtMostOneCounted ==
    ASSUME NEW g, NEW n, NEW whole, AtMostOneWithin(g, n, whole)
    PROVE  Cardinality({C \in Components(WithoutNode(g, n)) : C \subseteq whole}) <= 1
<1> DEFINE X == {C \in Components(WithoutNode(g, n)) : C \subseteq whole}
<1>1. \A C, D \in X : C = D
  BY DEF AtMostOneWithin
<1> HIDE DEF X
<1>2. Cardinality(X) <= 1
  <2>1. CASE X = {}
    BY <2>1, FS_EmptySet
  <2>2. CASE X # {}
    <3>1. PICK C \in X : TRUE
      BY <2>2
    <3>2. X = {C}
      BY <1>1, <3>1
    <3>3. Cardinality(X) = 1
      BY <3>2, FS_Singleton
    <3> QED BY <3>3
  <2> QED BY <2>1, <2>2
<1> QED BY <1>2 DEF X

\* Edges added later never pull apart what was together.
LEMMA EdgesKeepTogether ==
    ASSUME NEW g, IsTopology(g), NEW h, IsTopology(h), h.nodes = g.nodes, g.edges \subseteq h.edges,
           NEW n, NEW whole, AtMostOneWithin(g, n, whole)
    PROVE  AtMostOneWithin(h, n, whole)
<1> DEFINE G == WithoutNode(g, n)
           H == WithoutNode(h, n)
<1> SUFFICES ASSUME NEW C \in Components(H), NEW D \in Components(H), C \subseteq whole, D \subseteq whole
             PROVE  C = D
  BY DEF AtMostOneWithin
<1>1. /\ G.nodes = H.nodes /\ G.edges \subseteq H.edges /\ IsFiniteSet(G.nodes) /\ IsFiniteSet(H.nodes)
  <2>1. G.nodes = g.nodes \ {n} /\ G.edges = {e \in g.edges : n \notin e} /\ IsFiniteSet(G.nodes)
    BY WithoutNodeIs
  <2>2. H.nodes = h.nodes \ {n} /\ H.edges = {e \in h.edges : n \notin e} /\ IsFiniteSet(H.nodes)
    BY WithoutNodeIs
  <2> HIDE DEF G, H
  <2> QED BY <2>1, <2>2
<1>2. \A A, B \in Components(G) : A \subseteq whole /\ B \subseteq whole => A = B
  BY DEF AtMostOneWithin
<1>3. Components(G) = {ComponentOf(G, z) : z \in G.nodes}
  BY DEF Components
<1> HIDE DEF G, H
<1>4. /\ \A z \in C : z \in H.nodes /\ C = ComponentOf(H, z)
      /\ \A z \in D : z \in H.nodes /\ D = ComponentOf(H, z)
      /\ C # {} /\ D # {} /\ (C \cap D # {} => C = D)
  <2>1. /\ {} \notin Components(H)
        /\ \A A, B \in Components(H) : A \cap B # {} => A = B
        /\ \A A \in Components(H) : \A z \in A : z \in H.nodes /\ A = ComponentOf(H, z)
    BY <1>1, ComponentsPartition
  <2>2. C # {} /\ D # {}
    BY <2>1
  <2> QED BY <2>1, <2>2
<1>5. PICK x \in C, y \in D : TRUE
  BY <1>4
<1>6. /\ x \in G.nodes /\ y \in G.nodes
      /\ ComponentOf(G, x) \subseteq C /\ ComponentOf(G, y) \subseteq D
  BY <1>1, <1>4, <1>5, ComponentsShrink
<1>7. ComponentOf(G, x) = ComponentOf(G, y)
  BY <1>2, <1>3, <1>6
<1>8. x \in ComponentOf(G, x)
  BY <1>1, <1>6, ComponentIsLeast
<1> QED BY <1>4, <1>6, <1>7, <1>8

\* The repaired twin keeps everything it had, stays a topology, and holds
\* together what reality held together without the failed node.
LEMMA RepairHoldsTogether ==
    ASSUME NEW g, IsTopology(g), NEW n, NEW whole, n \notin whole
    PROVE  LET fixed == Repair(g, n, whole)
           IN  /\ IsTopology(fixed.graph) /\ fixed.graph.nodes = g.nodes
               /\ g.edges \subseteq fixed.graph.edges
               /\ g.edges = fixed.graph.edges \ fixed.bridges
               /\ AtMostOneWithin(fixed.graph, n, whole)
<1> DEFINE K == Components(WithoutNode(g, n))
<1>1. PICK fixed : fixed = Repair(g, n, whole)
  OBVIOUS
<1>2. whole \ {n} = whole
  OBVIOUS
<1>3. CASE K = {} /\ fixed.graph = g /\ fixed.bridges = {}
  <2>1. AtMostOneWithin(g, n, whole)
    BY <1>3 DEF AtMostOneWithin
  <2> QED BY <1>1, <1>3, <2>1
<1>4. ASSUME NEW main, Mends(g, n, whole, fixed, main)
      PROVE  /\ IsTopology(fixed.graph) /\ fixed.graph.nodes = g.nodes
             /\ g.edges \subseteq fixed.graph.edges
             /\ g.edges = fixed.graph.edges \ fixed.bridges
             /\ AtMostOneWithin(fixed.graph, n, whole)
  <2>1. IsTopology(fixed.graph) /\ g.edges \cap fixed.bridges = {}
    BY <1>4, MendedIsTopology
  <2>2. fixed.graph.nodes = g.nodes /\ fixed.graph.edges = g.edges \cup fixed.bridges
    BY <1>4 DEF Mends
  <2>3. \A C \in Components(WithoutNode(fixed.graph, n)) :
           C = Merged(K, main, whole) \/ C \in K \ ({main} \cup WronglyStranded(K, main, whole))
    BY <1>4, MergedComponent
  <2> HIDE DEF K
  <2>4. \A C \in Components(WithoutNode(fixed.graph, n)) : C \subseteq whole => C = Merged(K, main, whole)
    BY <2>3 DEF WronglyStranded
  <2>5. AtMostOneWithin(fixed.graph, n, whole)
    BY <2>4 DEF AtMostOneWithin
  <2> QED BY <2>1, <2>2, <2>5
<1>5. \/ K = {} /\ fixed.graph = g /\ fixed.bridges = {}
      \/ \E main : Mends(g, n, whole, fixed, main)
  BY <1>1, <1>2, RepairMends
<1> QED BY <1>1, <1>3, <1>4, <1>5

\* A repair of a twin that has only real edges leaves the component that is
\* really left, and misses no node of it.
LEMMA RepairAgreesWithReality ==
    ASSUME NEW g, IsTopology(g), NEW r, IsTopology(r), g.edges \subseteq r.edges,
           NEW n, NEW largest \in Components(WithoutNode(r, n)), largest \cap g.nodes # {}
    PROVE  LET fixed == Repair(g, n, largest \cap g.nodes)
           IN  /\ largest \cap g.nodes \in Components(WithoutNode(fixed.graph, n))
               /\ fixed.missing = 0
<1> DEFINE K == Components(WithoutNode(g, n))
           R == WithoutNode(r, n)
           G == WithoutNode(g, n)
           whole == largest \cap g.nodes
<1>1. PICK fixed : fixed = Repair(g, n, whole)
  OBVIOUS
<1>2. /\ R.nodes = r.nodes \ {n} /\ R.edges = {e \in r.edges : n \notin e} /\ IsFiniteSet(R.nodes)
      /\ \A a, b : {a, b} \in R.edges => a \in R.nodes /\ b \in R.nodes
  BY WithoutNodeIs
<1>3. G.nodes = g.nodes \ {n} /\ G.edges = {e \in g.edges : n \notin e} /\ IsFiniteSet(G.nodes)
  BY WithoutNodeIs
<1>4. Closed(R, largest) /\ largest \subseteq R.nodes
  <2>0. IsFiniteSet(R.nodes)
    BY <1>2
  <2> HIDE DEF R
  <2>1. \A C \in Components(R) : Closed(R, C) /\ C \subseteq R.nodes
    BY <2>0, ComponentsPartition
  <2> QED BY <2>1 DEF R
<1>5. /\ \A C \in K : C \subseteq g.nodes \ {n} /\ C # {} /\ IsFiniteSet(C)
      /\ \A C, D \in K : C \cap D # {} => C = D
      /\ UNION K = g.nodes \ {n}
  BY ComponentsOfRest
<1>6. \A C \in K : \A x \in C : x \in G.nodes /\ C = ComponentOf(G, x)
  BY <1>3, ComponentsPartition
<1>7. whole \ {n} = whole
  BY <1>2, <1>4
<1> HIDE DEF K, R, G
<1>8. Closed(G, largest)
  <2> SUFFICES ASSUME NEW x \in largest, NEW y \in G.nodes, {x, y} \in G.edges PROVE y \in largest
    BY DEF Closed
  <2>1. {x, y} \in R.edges
    BY <1>2, <1>3
  <2> QED BY <1>2, <1>4, <2>1 DEF Closed
<1>9. ASSUME NEW C \in K, C \cap whole # {} PROVE C \subseteq whole
  <2>1. PICK x \in C : x \in largest
    BY <1>9
  <2>2. C \subseteq largest
    <3>1. x \in G.nodes /\ C = ComponentOf(G, x)
      BY <1>6, <2>1
    <3>2. \A T : x \in T /\ Closed(G, T) => ComponentOf(G, x) \subseteq T
      BY <1>3, <3>1, ComponentIsLeast
    <3> QED BY <1>8, <2>1, <3>1, <3>2
  <2> QED BY <1>5, <2>2
<1>10. PICK C0 \in K : C0 \cap whole # {}
  BY <1>5, <1>7
<1> HIDE DEF whole
<1>11. PICK main : Mends(g, n, whole, fixed, main)
  <2>1. K # {}
    BY <1>10
  <2>2. \/ K = {} \/ \E main : Mends(g, n, whole \ {n}, Repair(g, n, whole), main)
    BY RepairMends DEF K
  <2> QED BY <1>1, <1>7, <2>1, <2>2
<1>12. main \in K /\ MostOverlap(main, K, whole)
  BY <1>11 DEF Mends, K
<1>13. main \subseteq whole
  <2>1. \A C \in K : IsFiniteSet(C \cap whole) /\ Cardinality(C \cap whole) \in Nat
    <3> SUFFICES ASSUME NEW C \in K PROVE IsFiniteSet(C \cap whole) /\ Cardinality(C \cap whole) \in Nat
      OBVIOUS
    <3>1. IsFiniteSet(C \cap whole)
      BY <1>5, FS_Subset
    <3> QED BY <3>1, FS_CardinalityType
  <2>2. Cardinality(C0 \cap whole) > 0
    BY <1>10, <2>1, FS_EmptySet
  <2>3. Cardinality(main \cap whole) > 0
    <3>1. Cardinality(main \cap whole) >= Cardinality(C0 \cap whole)
      BY <1>12 DEF MostOverlap
    <3> QED BY <1>12, <2>1, <2>2, <3>1
  <2>4. main \cap whole # {}
    BY <2>3, FS_EmptySet
  <2> QED BY <1>9, <1>12, <2>4
<1>14. Merged(K, main, whole) = whole
  <2>1. \A x \in whole : \E C \in K : x \in C /\ C \subseteq whole
    BY <1>5, <1>7, <1>9 DEF whole
  <2>2. whole \subseteq Merged(K, main, whole)
    BY <2>1 DEF Merged, WronglyStranded
  <2>3. Merged(K, main, whole) \subseteq whole
    BY <1>13 DEF Merged, WronglyStranded
  <2> QED BY <2>2, <2>3
<1>15. whole \in Components(WithoutNode(fixed.graph, n))
  BY <1>11, <1>14, MergedComponent DEF K
<1>16. fixed.missing = 0
  <2>1. fixed.missing = Cardinality(((g.nodes \ whole) \ {n}) \ UNION (K \ {main}))
    BY <1>11 DEF Mends, K
  <2>2. \A x \in (g.nodes \ whole) \ {n} : x \in UNION (K \ {main})
    BY <1>5, <1>13
  <2>3. ((g.nodes \ whole) \ {n}) \ UNION (K \ {main}) = {}
    BY <2>2
  <2> QED BY <2>1, <2>3, FS_EmptySet
<1> QED BY <1>1, <1>15, <1>16 DEF whole

\* The declared graph and the twin are topologies throughout, what was once
\* held together stays so, and the last repair was right.
RightlyRepaired(a, g, r, left) ==
    LET n == a.node
    IN  (g.edges \ a.repair.bridges \subseteq r.edges /\ left[n] # {}) =>
            left[n] \in Components(WithoutNode(g, n)) /\ a.repair.missing = 0

\* What is known of an episode at every moment.
EpisodeIsSound ==
    /\ client # "search" => IsTopology(twin) /\ IsTopology(real)
    /\ \A n \in DOMAIN outcome : AtMostOneWithin(twin, n, outcome[n])
    /\ answer.kind = "experiment" => RightlyRepaired(answer, twin, real, outcome)

\* What reality has left of a failure is a component without the failed node.
LEMMA LargestIsLeft ==
    ASSUME NEW r, IsTopology(r), NEW n, NEW largest \in ActualLargest(r, n)
    PROVE  n \notin largest /\ (largest # {} => largest \in Components(WithoutNode(r, n)))
<1> DEFINE K == Components(WithoutNode(r, n))
<1>1. \A C \in K : C \subseteq r.nodes \ {n}
  BY ComponentsOfRest
<1>2. largest = {} \/ largest \in K
  BY DEF ActualLargest
<1> HIDE DEF K
<1>3. n \notin largest
  BY <1>1, <1>2
<1> QED BY <1>2, <1>3 DEF K

\* An experiment keeps every earlier repair's promise and makes its own: the bridges it
\* adds join components and never part them, whatever node was failed before.
LEMMA ExperimentIsSound ==
    ASSUME EpisodeIsSound, NEW n \in twin.nodes, NEW largest \in ActualLargest(real, n),
           RunExperiment(n, largest)
    PROVE  EpisodeIsSound'
<1> DEFINE whole == largest \cap twin.nodes
<1>1. PICK fixed : fixed = Repair(twin, n, whole)
  OBVIOUS
<1>2. /\ client # "search" /\ client' = client /\ real' = real /\ twin' = fixed.graph
      /\ answer'.kind = "experiment" /\ answer'.node = n /\ answer'.repair = fixed
      /\ outcome' = [m \in DOMAIN outcome \cup {n} |-> IF m = n THEN whole ELSE outcome[m]]
  <2>1. client # "search"
    BY DEF RunExperiment
  <2> QED BY <1>1, <2>1 DEF RunExperiment
<1>3. IsTopology(twin) /\ IsTopology(real)
  BY <1>2 DEF EpisodeIsSound
<1>4. n \notin largest /\ (largest # {} => largest \in Components(WithoutNode(real, n)))
  BY <1>3, LargestIsLeft
<1>5. n \notin whole
  BY <1>4
<1>6. whole # {} => largest # {}
  OBVIOUS
<1>7. /\ IsTopology(fixed.graph) /\ fixed.graph.nodes = twin.nodes
      /\ twin.edges \subseteq fixed.graph.edges
      /\ twin.edges = fixed.graph.edges \ fixed.bridges
      /\ AtMostOneWithin(fixed.graph, n, whole)
  <2> HIDE DEF whole
  <2> QED BY <1>1, <1>3, <1>5, RepairHoldsTogether
<1>8. ASSUME fixed.graph.edges \ fixed.bridges \subseteq real.edges, whole # {}
      PROVE  whole \in Components(WithoutNode(fixed.graph, n)) /\ fixed.missing = 0
  <2>1. twin.edges \subseteq real.edges
    BY <1>7, <1>8
  <2>2. largest \in Components(WithoutNode(real, n))
    BY <1>4, <1>6, <1>8
  <2> QED BY <1>1, <1>3, <1>8, <2>1, <2>2, RepairAgreesWithReality
<1> HIDE DEF whole
<1>9. outcome'[n] = whole
  BY <1>2
<1>10. RightlyRepaired(answer', twin', real', outcome')
  BY <1>2, <1>8, <1>9 DEF RightlyRepaired
<1>11. ASSUME NEW m \in DOMAIN outcome' PROVE AtMostOneWithin(twin', m, outcome'[m])
  <2>1. CASE m = n
    BY <1>2, <1>7, <1>9, <2>1
  <2>2. CASE m # n
    <3>1. m \in DOMAIN outcome /\ outcome'[m] = outcome[m]
      BY <1>2, <1>11, <2>2
    <3>2. AtMostOneWithin(twin, m, outcome[m])
      BY <3>1 DEF EpisodeIsSound
    <3> QED BY <1>2, <1>3, <1>7, <3>1, <3>2, EdgesKeepTogether
  <2> QED BY <2>1, <2>2
<1>12. IsTopology(twin') /\ IsTopology(real')
  BY <1>2, <1>3, <1>7
<1> QED BY <1>10, <1>11, <1>12 DEF EpisodeIsSound

\* Every step keeps the promises of the repairs so far.
LEMMA EpisodeStep ==
    ASSUME EpisodeIsSound, [Next]_vars
    PROVE  EpisodeIsSound'
<1>1. ASSUME NEW s \in Questions, AskFailure(s) PROVE EpisodeIsSound'
  <2>1. client' = client /\ twin' = twin /\ real' = real /\ outcome' = outcome
    BY <1>1 DEF AskFailure, episode
  <2>2. answer'.kind # "experiment"
    BY <1>1 DEF AskFailure
  <2> QED BY <2>1, <2>2 DEF EpisodeIsSound
<1>2. ASSUME NEW p \in Counterfactuals, AskCounterfactual(p) PROVE EpisodeIsSound'
  <2>1. client' = client /\ twin' = twin /\ real' = real /\ outcome' = outcome
    BY <1>2 DEF AskCounterfactual, episode
  <2>2. answer'.kind # "experiment"
    <3>1. answer'.kind = "counterfactual" \/ answer'.kind = Ask(twin, p, Roles)
      BY <1>2 DEF AskCounterfactual
    <3> QED BY <3>1, AskOutcomes
  <2> QED BY <2>1, <2>2 DEF EpisodeIsSound
<1>3. ASSUME NEW n \in twin.nodes, AskRootCause(n) PROVE EpisodeIsSound'
  <2>1. client' = client /\ twin' = twin /\ real' = real /\ outcome' = outcome
    BY <1>3 DEF AskRootCause, episode
  <2>2. answer'.kind # "experiment"
    BY <1>3 DEF AskRootCause
  <2> QED BY <2>1, <2>2 DEF EpisodeIsSound
<1>4. ASSUME NEW n \in twin.nodes, NEW largest \in ActualLargest(real, n), RunExperiment(n, largest)
      PROVE  EpisodeIsSound'
  BY <1>4, ExperimentIsSound
<1>5. CASE Discover \/ UNCHANGED vars
  BY <1>5 DEF Discover, vars, study, EpisodeIsSound
<1> QED BY <1>1, <1>2, <1>3, <1>4, <1>5 DEF Next

\* The inductive invariant of the episodes: the twin and reality are topologies, and
\* for every node failed so far what reality kept together is together.
THEOREM EpisodesAreSound == Spec => []EpisodeIsSound
<1>1. ASSUME Init PROVE EpisodeIsSound
  <2>1. client # "search" => IsTopology(twin) /\ IsTopology(real)
    BY <1>1, StudyAssumption DEF Init
  <2>2. DOMAIN outcome = {} /\ answer.kind = "none"
    BY <1>1 DEF Init, NoAnswer
  <2> QED BY <2>1, <2>2 DEF EpisodeIsSound
<1> QED BY <1>1, EpisodeStep, PTL DEF Spec

\* After any number of experiments on any topology no earlier repair is undone by a
\* later one, and a twin without invented edges agrees with reality about the node just
\* failed (RepairsHold; run_episode, repair_twin).
THEOREM RepairsAlwaysHold == Spec => []RepairsHold
<1>1. ASSUME EpisodeIsSound PROVE RepairsHold
  <2>1. ASSUME NEW n \in DOMAIN outcome
        PROVE  Cardinality({C \in Components(WithoutNode(twin, n)) : C \subseteq outcome[n]}) <= 1
    BY <1>1, AtMostOneCounted DEF EpisodeIsSound
  <2>2. answer.kind = "experiment" => RightlyRepaired(answer, twin, real, outcome)
    BY <1>1 DEF EpisodeIsSound
  <2> QED BY <2>1, <2>2 DEF RepairsHold, RightlyRepaired
<1> QED BY <1>1, EpisodesAreSound, PTL

\* Without one hop of a simple path its ends are connected exactly when
\* another simple path leads from one to the other.
LEMMA SparedBySecondPath ==
    ASSUME NEW g, IsFiniteSet(g.nodes), NEW s \in g.nodes, NEW t \in g.nodes, NEW p, IsPath(g, p, s, t)
    PROVE  (\E q : IsPath(g, q, s, t) /\ q # p)
              <=> \E k \in 1..(Len(p) - 1) :
                     t \in ComponentOf(Remaining(g, {}, {{p[k], p[k + 1]}}), s)
<1> DEFINE Less(k) == Remaining(g, {}, {Hop(p, k)})
<1>1. ASSUME NEW k
      PROVE  /\ Less(k).nodes = g.nodes /\ Less(k).edges = g.edges \ {Hop(p, k)}
             /\ IsFiniteSet(Less(k).nodes)
  <2>1. Less(k).nodes = g.nodes \ {} /\ Less(k).edges = g.edges \ {Hop(p, k)}
    BY Zenon DEF Remaining, Topology
  <2> QED BY <2>1
<1> HIDE DEF Less
<1>2. ASSUME NEW q, IsPath(g, q, s, t), q # p
      PROVE  \E k \in 1..(Len(p) - 1) : t \in ComponentOf(Less(k), s)
  <2>1. PICK k \in 1..(Len(p) - 1) : ~UsesHop(q, Hop(p, k))
    BY <1>2, SameHopsSamePath
  <2>2. IsPath(Less(k), q, s, t)
    <3>1. \A i \in 1..(Len(q) - 1) : Hop(q, i) \in g.edges /\ Hop(q, i) # Hop(p, k)
      BY <1>2, <2>1 DEF IsPath, IsTrail, Hop, UsesHop
    <3>2. \A i \in 1..(Len(q) - 1) : {q[i], q[i + 1]} \in Less(k).edges
      BY <1>1, <3>1 DEF Hop
    <3>3. /\ q \in Seq(Less(k).nodes) /\ Len(q) >= 1 /\ q[1] = s /\ q[Len(q)] = t
          /\ \A i, j \in 1..Len(q) : q[i] = q[j] => i = j
      BY <1>1, <1>2 DEF IsPath, IsTrail
    <3> QED BY <3>2, <3>3, Zenon DEF IsPath, IsTrail
  <2>3. t \in ComponentOf(Less(k), s)
    BY <1>1, <2>2, ConnectedByPath
  <2> QED BY <2>3
<1>3. ASSUME NEW k \in 1..(Len(p) - 1), t \in ComponentOf(Less(k), s)
      PROVE  \E q : IsPath(g, q, s, t) /\ q # p
  <2>1. PICK q : IsPath(Less(k), q, s, t)
    BY <1>1, <1>3, ConnectedByPath
  <2>2. Less(k).nodes \subseteq g.nodes /\ Less(k).edges \subseteq g.edges
    BY <1>1
  <2>3. IsPath(g, q, s, t)
    BY <2>1, <2>2, PathInLarger
  <2>4. q # p
    <3> SUFFICES ASSUME q = p PROVE FALSE
      OBVIOUS
    <3>1. Hop(p, k) \in Less(k).edges
      BY <2>1 DEF IsPath, IsTrail, Hop
    <3> QED BY <1>1, <3>1
  <2> QED BY <2>3, <2>4
<1> QED BY <1>2, <1>3 DEF Less, Hop

\* The hop of a path whose loss leaves its ends connected.
Spared(g, p, k) == Last(p) \in ComponentOf(Remaining(g, {}, {{p[k], p[k + 1]}}), p[1])

HasSpare(g, p) == \E k \in 1..(Len(p) - 1) : Spared(g, p, k)

\* A second of the cheapest simple paths exists exactly when a hop can be spared.
LEMMA AlternateMeansSpare ==
    ASSUME NEW g, IsFiniteSet(g.nodes), NEW w, NEW s, NEW t, NEW r, IsCheapest(r, g, w, s, t)
    PROVE  (r # NoPath /\ AlternatePathCount(g, s, t, 2) >= 2) <=> HasSpare(g, r.nodes)
<1>1. CASE r = NoPath
  <2>1. r.nodes = <<>> /\ Len(r.nodes) = 0
    BY <1>1 DEF NoPath
  <2>2. 1..(Len(r.nodes) - 1) = {}
    BY <2>1
  <2> QED BY <1>1, <2>2 DEF HasSpare
<1>2. CASE r # NoPath
  <2>1. PICK p : p = r.nodes
    OBVIOUS
  <2>2. s \in g.nodes /\ t \in g.nodes /\ IsPath(g, p, s, t)
    BY <1>2, <2>1 DEF IsCheapest
  <2>3. p[1] = s /\ Last(p) = t
    BY <2>2 DEF IsPath, IsTrail, Last
  <2>4. SimplePaths(g, s, t) = {q \in Seq(g.nodes) : IsPath(g, q, s, t)}
    BY <2>2, SimplePathsArePaths
  <2>5. \A q : q \in SimplePaths(g, s, t) <=> IsPath(g, q, s, t)
    BY <2>4 DEF IsPath, IsTrail
  <2>6. IsFiniteSet(SimplePaths(g, s, t))
    BY <2>2, SimplePathsFinite
  <2>7. AlternatePathCount(g, s, t, 2) = Min({2, Cardinality(SimplePaths(g, s, t))})
    BY <2>2 DEF AlternatePathCount
  <2>8. p \in SimplePaths(g, s, t)
    BY <2>2, <2>5
  <2>9. AlternatePathCount(g, s, t, 2) >= 2 <=> \E q \in SimplePaths(g, s, t) : q # p
    BY <2>6, <2>7, <2>8, AtLeastTwo
  <2>10. AlternatePathCount(g, s, t, 2) >= 2 <=> \E q : IsPath(g, q, s, t) /\ q # p
    BY <2>5, <2>9
  <2>11. (\E q : IsPath(g, q, s, t) /\ q # p) <=> HasSpare(g, p)
    <3>1. (\E q : IsPath(g, q, s, t) /\ q # p)
             <=> \E k \in 1..(Len(p) - 1) :
                    t \in ComponentOf(Remaining(g, {}, {{p[k], p[k + 1]}}), s)
      BY <2>2, SparedBySecondPath
    <3>2. \A k : Spared(g, p, k) = (t \in ComponentOf(Remaining(g, {}, {{p[k], p[k + 1]}}), s))
      BY <2>3 DEF Spared
    <3> QED BY <3>1, <3>2, Zenon DEF HasSpare
  <2> QED BY <1>2, <2>1, <2>10, <2>11
<1> QED BY <1>1, <1>2

\* The two ratios of the indicators are of a part to the whole.
LEMMA RatiosAreParts ==
    ASSUME NEW g, IsTopology(g), NEW h, h.nodes \subseteq g.nodes, h.edges \subseteq g.edges,
           NEW r, r.before = Connectivity(g), r.after = Connectivity(h)
    PROVE  /\ ConnectivityRatio(r)[1] <= ConnectivityRatio(r)[2]
           /\ ReachableRatio(r)[1] <= ReachableRatio(r)[2]
<1> DEFINE small == Connectivity(h).largest
           large == Connectivity(g).largest
<1>1. /\ IsFiniteSet(g.nodes) /\ g.nodes \in SUBSET Nat /\ IsFiniteSet(h.nodes) /\ h.nodes \in SUBSET Nat
  BY FS_Subset DEF IsTopology
<1>2. /\ small \subseteq h.nodes /\ IsFiniteSet(small) /\ IsFiniteSet(large)
      /\ h.nodes # {} => small \in Components(h)
      /\ g.nodes # {} => IsLargest(large, Components(g))
      /\ r.after.components = Components(h) /\ r.before.components = Components(g)
  BY <1>1, LargestComponent
<1>3. Cardinality(small) \in Nat /\ Cardinality(large) \in Nat
  BY <1>2, FS_CardinalityType
<1>4. Cardinality(small) <= Cardinality(large)
  <2>1. CASE h.nodes = {}
    <3>1. small = {}
      BY <1>2, <2>1
    <3> QED BY <1>3, <3>1, FS_EmptySet
  <2>2. CASE h.nodes # {}
    <3>1. Refines(Components(h), Components(g))
      BY <1>1, ComponentsRefine
    <3>2. PICK D \in Components(g) : small \subseteq D
      BY <1>2, <2>2, <3>1 DEF Refines
    <3>3. IsFiniteSet(D)
      BY <1>1, ComponentsPartition
    <3>4. Cardinality(small) <= Cardinality(D) /\ Cardinality(D) \in Nat
      BY <3>2, <3>3, FS_Subset, FS_CardinalityType
    <3>5. Cardinality(large) > Cardinality(D) \/ Cardinality(large) = Cardinality(D)
      BY <1>2, <2>2 DEF IsLargest
    <3> HIDE DEF small, large
    <3> QED BY <1>3, <3>4, <3>5
  <2> QED BY <2>1, <2>2
<1>5. ASSUME NEW a \in Nat, NEW b \in Nat, a <= b PROVE Ratio(a, b)[1] <= Ratio(a, b)[2]
  BY <1>5 DEF Ratio
<1>6. ConnectivityRatio(r)[1] <= ConnectivityRatio(r)[2]
  <2>1. ConnectivityRatio(r) = Ratio(Cardinality(small), Cardinality(large))
    BY DEF ConnectivityRatio
  <2> HIDE DEF small, large
  <2> QED BY <1>3, <1>4, <1>5, <2>1
<1>7. ReachableRatio(r)[1] <= ReachableRatio(r)[2]
  <2>1. UNION r.before.components = g.nodes /\ UNION r.after.components = h.nodes
    BY <1>1, <1>2, ComponentsPartition
  <2>2. Reachable(r.after) \subseteq g.nodes
    BY <2>1 DEF Reachable
  <2>3. PICK R : R = Reachable(r.after)
    OBVIOUS
  <2>4. IsFiniteSet(R) /\ Cardinality(R) <= Cardinality(g.nodes)
    BY <1>1, <2>2, <2>3, FS_Subset
  <2>5. Cardinality(R) \in Nat /\ Cardinality(g.nodes) \in Nat
    BY <1>1, <2>4, FS_CardinalityType
  <2>6. ReachableRatio(r) = Ratio(Cardinality(R), Cardinality(g.nodes))
    BY <2>1, <2>3 DEF ReachableRatio
  <2> QED BY <1>5, <2>4, <2>5, <2>6
<1> QED BY <1>6, <1>7

\* In a connected network the failure of a node cuts off as many nodes as its
\* criticality says, and any only if it is an articulation point.
LEMMA CutIsCriticality ==
    ASSUME NEW g, IsTopology(g), NEW n \in g.nodes, Cardinality(Components(g)) = 1,
           NEW cut, cut = (Connectivity(g).largest \ {n}) \ Connectivity(WithoutNode(g, n)).largest
    PROVE  /\ Cardinality(cut) = PathDependencyImpact(g, n)
           /\ (cut # {}) = (n \in ArticulationPoints(g))
<1> DEFINE h == WithoutNode(g, n)
           K == Components(h)
           left == Connectivity(h).largest
           rest == g.nodes \ {n}
<1>1. /\ IsFiniteSet(g.nodes) /\ g.nodes \in SUBSET Nat
      /\ IsFiniteSet(h.nodes) /\ h.nodes \in SUBSET Nat /\ h.nodes = rest
  BY WithoutNodeIs DEF IsTopology
<1>2. Connectivity(g).largest = g.nodes
  <2>1. IsFiniteSet(Components(g)) /\ UNION Components(g) = g.nodes
    BY <1>1, ComponentsPartition
  <2>2. PICK C : Components(g) = {C}
    BY <2>1, FS_Singleton
  <2>3. C = g.nodes
    BY <2>1, <2>2
  <2>4. Connectivity(g).largest \in Components(g)
    BY <1>1, LargestComponent
  <2> QED BY <2>2, <2>3, <2>4
<1>3. /\ left \subseteq rest
      /\ rest = {} => left = {}
      /\ rest # {} => left \in K
  BY <1>1, LargestComponent
<1>4. IsFiniteSet(rest)
  BY <1>1
<1>5. /\ IsFiniteSet(K) /\ UNION K = rest /\ \A C \in K : C # {}
      /\ \A C, D \in K : C \cap D # {} => C = D
  BY ComponentsOfRest
<1>6. PathDependencyImpact(g, n) = Cardinality(rest) - Cardinality(left)
  BY DEF PathDependencyImpact
<1>7. (n \in ArticulationPoints(g)) = (Cardinality(K) > 1)
  BY DEF ArticulationPoints
<1> HIDE DEF rest, left, K
<1>8. cut = rest \ left
  BY <1>2 DEF rest, left
<1>9. Cardinality(cut) = Cardinality(rest) - Cardinality(left)
  BY <1>3, <1>4, <1>8, FewerElements
<1>10. Cardinality(K) \in Nat
  BY <1>5, FS_CardinalityType
<1>11. ASSUME cut # {} PROVE Cardinality(K) > 1
  <2>1. PICK x \in rest : x \notin left
    BY <1>8, <1>11
  <2>2. PICK D \in K : x \in D
    BY <1>5
  <2>3. left \in K /\ D # left
    BY <1>3, <2>1, <2>2
  <2>4. Cardinality(K) # 1
    <3> SUFFICES ASSUME Cardinality(K) = 1 PROVE FALSE
      OBVIOUS
    <3>1. PICK C : K = {C}
      BY <1>5, FS_Singleton
    <3> QED BY <2>3, <3>1
  <2>5. Cardinality(K) # 0
    BY <1>5, <2>2, FS_EmptySet
  <2> QED BY <1>10, <2>4, <2>5
<1>12. ASSUME cut = {} PROVE ~(Cardinality(K) > 1)
  <2>1. rest = left
    BY <1>3, <1>8, <1>12
  <2>2. CASE K = {}
    BY <2>2, FS_EmptySet
  <2>3. CASE K # {}
    <3>1. PICK D \in K : TRUE
      BY <2>3
    <3>2. rest # {} /\ left \in K
      BY <1>3, <1>5, <3>1
    <3>3. \A C \in K : C = left
      BY <1>5, <2>1, <3>2
    <3>4. K = {left}
      BY <3>2, <3>3
    <3>5. Cardinality(K) = 1
      BY <3>4, FS_Singleton
    <3> QED BY <3>5
  <2> QED BY <2>2, <2>3
<1> QED BY <1>6, <1>7, <1>9, <1>11, <1>12

\* The indicators of a failure say what the structure of the graph says.
LEMMA IndicatorsMatch ==
    ASSUME NEW g, IsTopology(g), NEW s, AskedFailure(g, s)
    PROVE  LET a == FailureAnswer(g, s)
               r == a.report
               h == r.injection.graph
           IN  /\ a.indicators.alternative = (\E c \in r.routes : HasSpare(h, c.current.nodes))
               /\ a.indicators.connectivity[1] <= a.indicators.connectivity[2]
               /\ a.indicators.reachable[1] <= a.indicators.reachable[2]
               /\ (s.type = "node_failure" /\ Cardinality(r.before.components) = 1) =>
                     /\ Cardinality(r.newlyUnreachable) = PathDependencyImpact(g, s.node)
                     /\ (r.newlyUnreachable # {}) = (s.node \in ArticulationPoints(g))
<1> DEFINE i == Inject(g, s)
           h == i.graph
           w == Weight(i)
           r == Pipeline(g, s, Candidates)
           ind == Indicators(g, r)
           extra == IF s.type = "service_degradation" THEN 0 ELSE s.extra
<1>1. FailureAnswer(g, s).report = r /\ FailureAnswer(g, s).indicators = ind
  BY DEF FailureAnswer
<1>2. /\ r.injection = i /\ r.before = Connectivity(g) /\ r.after = Connectivity(h)
      /\ r.newlyUnreachable = (r.before.largest \ i.removedNodes) \ r.after.largest
      /\ r.routes = {RouteChange(g, h, w, p) : p \in RoutePairs(g, i)}
  BY DEF Pipeline, NewlyUnreachable
<1>3. /\ i.scenario = s /\ h = Remaining(g, i.removedNodes, i.removedEdges)
      /\ s.type = "node_failure" => i.removedNodes = {s.node} /\ i.removedEdges = IncidentEdges(g, s.node)
  BY DEF Inject
<1>4. extra \in Nat
  BY StudyAssumption DEF AskedFailure
<1>5. /\ ind.connectivity = ConnectivityRatio(r) /\ ind.reachable = ReachableRatio(r)
      /\ ind.alternative = \E c \in r.routes :
                              /\ c.current # NoPath
                              /\ AlternatePathCount(h, c.pair[1], c.pair[2], 2) >= 2
  BY <1>2 DEF Indicators
<1> HIDE DEF i
<1>6. /\ h.nodes \subseteq g.nodes /\ h.edges \subseteq g.edges
      /\ \A e \in h.edges : h.cost[e] = g.cost[e]
  BY <1>3, RemainingIsLess
<1>7. IsFiniteSet(h.nodes)
  BY <1>6, FS_Subset DEF IsTopology
<1>8. ASSUME NEW e \in h.edges PROVE w[e] \in Nat
  <2>1. h.cost[e] \in Nat
    BY <1>6 DEF IsTopology
  <2>2. w[e] = h.cost[e] + IF e \in i.degraded THEN extra ELSE 0
    BY <1>3 DEF Weight
  <2> HIDE DEF extra
  <2> QED BY <1>4, <2>1, <2>2
<1> HIDE DEF r, ind, h, w
<1>9. ASSUME NEW c \in r.routes
      PROVE  (c.current # NoPath /\ AlternatePathCount(h, c.pair[1], c.pair[2], 2) >= 2)
                <=> HasSpare(h, c.current.nodes)
  <2>1. PICK p \in RoutePairs(g, i) : c = RouteChange(g, h, w, p)
    BY <1>2
  <2>2. c.pair = p /\ c.current = ShortestPath(h, w, p[1], p[2])
    BY <2>1, RouteChangeFields
  <2>3. IsCheapest(c.current, h, w, p[1], p[2])
    BY <1>7, <1>8, <2>2, ShortestPathIsCheapest
  <2> QED BY <1>7, <2>2, <2>3, AlternateMeansSpare
<1>10. ind.alternative = (\E c \in r.routes : HasSpare(h, c.current.nodes))
  BY <1>5, <1>9
<1>11. ind.connectivity[1] <= ind.connectivity[2] /\ ind.reachable[1] <= ind.reachable[2]
  BY <1>2, <1>5, <1>6, RatiosAreParts
<1>12. ASSUME s.type = "node_failure", Cardinality(r.before.components) = 1
       PROVE  /\ Cardinality(r.newlyUnreachable) = PathDependencyImpact(g, s.node)
              /\ (r.newlyUnreachable # {}) = (s.node \in ArticulationPoints(g))
  <2>1. s.node \in g.nodes
    BY <1>12 DEF AskedFailure, IsFailureScenario, IsInconsistent, NodeTargeted
  <2>2. h = WithoutNode(g, s.node)
    BY <1>3, <1>12 DEF WithoutNode
  <2>3. Cardinality(Components(g)) = 1
    BY <1>2, <1>12 DEF Connectivity
  <2>4. r.newlyUnreachable = (Connectivity(g).largest \ {s.node}) \ Connectivity(WithoutNode(g, s.node)).largest
    BY <1>2, <1>3, <1>12, <2>2
  <2> QED BY <2>1, <2>3, <2>4, CutIsCriticality
<1> QED BY <1>1, <1>2, <1>10, <1>11, <1>12 DEF h, r

\* In every answer a second route is reported exactly when a hop can be spared, and a
\* node failure in a connected network cuts off what the node's criticality promised,
\* some exactly when it is an articulation point (IndicatorsMatchStructure).
THEOREM IndicatorsAlwaysMatch == Spec => []IndicatorsMatchStructure
<1>1. ASSUME AnswerIsComputed PROVE IndicatorsMatchStructure
  <2> SUFFICES ASSUME answer.kind = "failure" PROVE IndicatorsMatchStructure
    BY DEF IndicatorsMatchStructure
  <2>1. PICK s : AskedFailure(twin, s) /\ answer = FailureAnswer(twin, s)
    BY <1>1 DEF AnswerIsComputed
  <2>2. IsTopology(twin)
    BY <1>1, StudyAssumption DEF AnswerIsComputed
  <2>3. answer.report.injection.scenario = s
    BY <2>1 DEF FailureAnswer, Pipeline, Inject
  <2> DEFINE r == answer.report
             h == r.injection.graph
             i == answer.indicators
  <2>4. /\ i.alternative = (\E c \in r.routes : HasSpare(h, c.current.nodes))
        /\ i.connectivity[1] <= i.connectivity[2]
        /\ i.reachable[1] <= i.reachable[2]
        /\ (s.type = "node_failure" /\ Cardinality(r.before.components) = 1) =>
              /\ Cardinality(r.newlyUnreachable) = PathDependencyImpact(twin, s.node)
              /\ (r.newlyUnreachable # {}) = (s.node \in ArticulationPoints(twin))
    BY <2>1, <2>2, IndicatorsMatch
  <2> DEFINE redundant == {c \in r.routes : \E k \in 1..(Len(c.current.nodes) - 1) :
                              Spared(h, c.current.nodes, k)}
  <2>5. (redundant # {}) = (\E c \in r.routes : HasSpare(h, c.current.nodes))
    BY DEF HasSpare
  <2>6. i.alternative = (redundant # {})
    BY <2>4, <2>5
  <2> QED BY <2>3, <2>4, <2>6 DEF IndicatorsMatchStructure, Spared
<1> QED BY <1>1, AnswersComputed, PTL

-----------------------------------------------------------------------------
(* The search for causes. *)

\* Strengths of some possible parents of a world.
IsStrengths(f, w) == DOMAIN f \subseteq Possible(w) /\ f \in [DOMAIN f -> Nat]

\* A size has subsets of every smaller size.
LEMMA SmallerSubsets ==
    ASSUME NEW S, IsFiniteSet(S), NEW k \in Nat, k <= Cardinality(S)
    PROVE  \E X \in SUBSET S : Cardinality(X) = k
<1> DEFINE T == {n \in Nat : n <= Cardinality(S) => \E X \in SUBSET S : Cardinality(X) = n}
<1>1. 0 \in T
  BY FS_EmptySet
<1>2. ASSUME NEW n \in Nat, n \in T PROVE n + 1 \in T
  <2>0. Cardinality(S) \in Nat /\ n + 1 \in Nat
    BY FS_CardinalityType
  <2> SUFFICES ASSUME n + 1 <= Cardinality(S) PROVE \E X \in SUBSET S : Cardinality(X) = n + 1
    BY <2>0
  <2>1. PICK X \in SUBSET S : Cardinality(X) = n
    BY <1>2, <2>0
  <2>2. IsFiniteSet(X)
    BY FS_Subset
  <2>3. X # S
    BY <2>0, <2>1
  <2>4. PICK y \in S : y \notin X
    BY <2>3
  <2>5. /\ IsFiniteSet(X \cup {y})
        /\ Cardinality(X \cup {y}) = IF y \in X THEN Cardinality(X) ELSE Cardinality(X) + 1
    BY <2>2, FS_AddElement
  <2>6. X \cup {y} \in SUBSET S
    OBVIOUS
  <2> QED BY <2>1, <2>4, <2>5, <2>6
<1> HIDE DEF T
<1>3. k \in T
  BY <1>1, <1>2, Induction
<1> QED BY <1>3 DEF T

\* Where there is no subset of some size there is none of a larger one.
LEMMA NoLargerSubsets ==
    ASSUME NEW S, IsFiniteSet(S), NEW k \in Nat, kSubset(k, S) = {}, NEW n \in Nat, k <= n
    PROVE  kSubset(n, S) = {}
<1> SUFFICES ASSUME NEW Y \in SUBSET S, Cardinality(Y) = n PROVE FALSE
  BY DEF kSubset
<1>1. IsFiniteSet(Y)
  BY FS_Subset
<1>2. PICK X \in SUBSET Y : Cardinality(X) = k
  BY <1>1, SmallerSubsets
<1>3. X \in kSubset(k, S)
  BY <1>2 DEF kSubset
<1> QED BY <1>3

\* Stronger, or equally strong and of a smaller index.
Outranks(f, i, j) == f[i] > f[j] \/ (f[i] = f[j] /\ i < j)

\* That order on a set of possible parents.
RankOrder(f, S) == {p \in S \X S : Outranks(f, p[1], p[2])}

\* Ranking by strength, and by index between equals, is a strict order.
LEMMA RanksOrder ==
    ASSUME NEW f, NEW S \in SUBSET Nat, \A x \in S : f[x] \in Nat
    PROVE  /\ IsStrictOrder(RankOrder(f, S), S)
           /\ \A x \in S : Below(RankOrder(f, S), S, x) = {i \in S : Outranks(f, i, x)}
<1>1. \A x, y \in S : <<x, y>> \in RankOrder(f, S) <=> Outranks(f, x, y)
  BY DEF RankOrder
<1>2. \A x \in S : ~Outranks(f, x, x)
  BY DEF Outranks
<1>3. \A x, y \in S : x # y => Outranks(f, x, y) \/ Outranks(f, y, x)
  BY DEF Outranks
<1>4. \A x, y, z \in S : Outranks(f, x, y) /\ Outranks(f, y, z) => Outranks(f, x, z)
  BY DEF Outranks
<1>5. IsStrictOrder(RankOrder(f, S), S)
  BY <1>1, <1>2, <1>3, <1>4 DEF IsStrictOrder
<1>6. \A x \in S : Below(RankOrder(f, S), S, x) = {i \in S : Outranks(f, i, x)}
  BY <1>1, <1>2 DEF Below
<1> QED BY <1>5, <1>6

\* The rivals of a parent are others, and no more than are asked for.
LEMMA RivalsAreFew ==
    ASSUME NEW w, IsWorld(w), NEW f, IsStrengths(f, w), NEW x
    PROVE  /\ Rivals(f, x) \subseteq DOMAIN f \ {x} /\ Rivals(f, x) \subseteq Possible(w) \ {x}
           /\ IsFiniteSet(Rivals(f, x)) /\ Cardinality(Rivals(f, x)) <= MaxConditionCandidates
<1> DEFINE S == DOMAIN f \ {x}
           V == Rivals(f, x)
           R == RankOrder(f, S)
           T == 0..(MaxConditionCandidates - 1)
           rank == [j \in V |-> Cardinality(Below(R, S, j))]
<1>1. S \in SUBSET Nat /\ IsFiniteSet(S) /\ \A j \in S : f[j] \in Nat
  BY FS_Subset DEF IsWorld, IsStrengths
<1>2. V = {j \in S : Cardinality({i \in S : Outranks(f, i, j)}) < MaxConditionCandidates}
  BY DEF Rivals, Outranks
<1> HIDE DEF S
<1>3. /\ IsStrictOrder(R, S)
      /\ \A j \in S : Below(R, S, j) = {i \in S : Outranks(f, i, j)}
  BY <1>1, RanksOrder
<1>4. V = {j \in S : Cardinality(Below(R, S, j)) < MaxConditionCandidates}
  BY <1>2, <1>3
<1> HIDE DEF R, V
<1>5. /\ \A j \in S : Cardinality(Below(R, S, j)) \in 0..(Cardinality(S) - 1)
      /\ \A i, j \in S : Cardinality(Below(R, S, i)) = Cardinality(Below(R, S, j)) => i = j
  BY <1>1, <1>3, BelowCounts
<1>6. rank \in Injection(V, T)
  <2>1. \A j \in V : j \in S /\ Cardinality(Below(R, S, j)) \in T
    BY <1>1, <1>4, <1>5, FS_CardinalityType, DiscoveryAssumption
  <2>2. rank \in [V -> T]
    <3> HIDE DEF T
    <3> QED BY <2>1
  <2>3. \A i, j \in V : rank[i] = rank[j] => i = j
    <3> HIDE DEF T
    <3> QED BY <1>5, <2>1
  <2> HIDE DEF T, rank
  <2> QED BY <2>2, <2>3 DEF Injection, IsInjective
<1>7. IsFiniteSet(T) /\ Cardinality(T) = MaxConditionCandidates
  <2>1. 0 \in Int /\ MaxConditionCandidates - 1 \in Int /\ MaxConditionCandidates \in Nat \ {0}
    BY DiscoveryAssumption
  <2>2. /\ IsFiniteSet(0..(MaxConditionCandidates - 1))
        /\ Cardinality(0..(MaxConditionCandidates - 1))
             = IF 0 > MaxConditionCandidates - 1 THEN 0 ELSE (MaxConditionCandidates - 1) - 0 + 1
    BY <2>1, FS_Interval
  <2> QED BY <2>1, <2>2
<1>8. IsFiniteSet(V) /\ Cardinality(V) <= MaxConditionCandidates
  <2> HIDE DEF T, rank
  <2> QED BY <1>6, <1>7, FS_Injection
<1>9. V \subseteq S
  BY <1>4
<1>10. S = DOMAIN f \ {x} /\ DOMAIN f \subseteq Possible(w)
  BY DEF S, IsStrengths
<1> QED BY <1>8, <1>9, <1>10 DEF V

\* What one size of condition sets leaves.
SizeSets(s, before, x) == kSubset(s, Rivals(before, x))

Says(w, s, before, x, t) == \E Z \in SizeSets(s, before, x) : TestOf(w, x, Z) = t

AfterSize(w, s, before) ==
    [x \in {y \in DOMAIN before : ~Says(w, s, before, y, "independent")} |->
        IF Says(w, s, before, x, "dependent") THEN w.given[x] ELSE before[x]]

\* The tests without conditions leave strengths of some possible parents.
LEMMA ScreenedIsStrengths ==
    ASSUME NEW w, IsWorld(w)
    PROVE  /\ IsStrengths(Screened(w), w)
           /\ ~w.flat => DOMAIN Screened(w) =
                 {x \in Possible(w) \ w.constant : TestOf(w, x, {}) # "independent"}
<1>1. CASE w.flat
  <2>1. Screened(w) = <<>>
    BY <1>1 DEF Screened
  <2> QED BY <1>1, <2>1 DEF IsStrengths
<1>2. CASE ~w.flat
  <2> DEFINE kept == {x \in Possible(w) \ w.constant : TestOf(w, x, {}) # "independent"}
  <2>1. Screened(w) = [x \in kept |-> IF TestOf(w, x, {}) = "dependent" THEN w.alone[x] ELSE 0]
    BY <1>2 DEF Screened
  <2>2. DOMAIN Screened(w) = kept
    BY <2>1
  <2>3. \A x \in kept : w.alone[x] \in Nat
    BY DEF IsWorld
  <2>4. Screened(w) \in [kept -> Nat]
    BY <2>1, <2>3
  <2>5. kept \subseteq Possible(w)
    OBVIOUS
  <2> HIDE DEF kept
  <2>6. IsStrengths(Screened(w), w)
    BY <2>2, <2>4, <2>5 DEF IsStrengths
  <2> QED BY <2>2, <2>6 DEF kept
<1> QED BY <1>1, <1>2

\* A size leaves those that none of its tests found independent.
LEMMA SizeLeaves ==
    ASSUME NEW w, IsWorld(w), NEW f, IsStrengths(f, w), NEW s
    PROVE  /\ IsStrengths(AfterSize(w, s, f), w)
           /\ DOMAIN AfterSize(w, s, f) = {y \in DOMAIN f : ~Says(w, s, f, y, "independent")}
<1>1. \A x \in DOMAIN f : w.given[x] \in Nat /\ f[x] \in Nat
  BY DEF IsStrengths, IsWorld
<1>2. DOMAIN AfterSize(w, s, f) = {y \in DOMAIN f : ~Says(w, s, f, y, "independent")}
  BY DEF AfterSize
<1>3. AfterSize(w, s, f) \in [{y \in DOMAIN f : ~Says(w, s, f, y, "independent")} -> Nat]
  BY <1>1 DEF AfterSize
<1> QED BY <1>2, <1>3 DEF IsStrengths

\* StableAfter computes size after size: each from what the one before left.
LEMMA StableEquation ==
    ASSUME NEW w, IsWorld(w)
    PROVE  /\ StableAfter(w)[0] = Screened(w)
           /\ \A s \in 1..MaxConditionSet : StableAfter(w)[s] = AfterSize(w, s, StableAfter(w)[s - 1])
           /\ \A s \in 0..MaxConditionSet : IsStrengths(StableAfter(w)[s], w)
<1> DEFINE V == UNION {[X -> Nat] : X \in SUBSET Possible(w)}
           Step == [s \in Nat |-> [f \in V |-> AfterSize(w, s, f)]]
           Eq(a) == a = [s \in 0..MaxConditionSet |->
                 IF s = 0 THEN Screened(w)
                 ELSE LET before  == a[s - 1]
                          Sets(x) == kSubset(s, Rivals(before, x))
                          left    == {x \in DOMAIN before :
                                        \A Z \in Sets(x) : TestOf(w, x, Z) # "independent"}
                      IN  [x \in left |->
                             IF \E Z \in Sets(x) : TestOf(w, x, Z) = "dependent" THEN w.given[x] ELSE before[x]]]
<1>1. \A f : f \in V <=> IsStrengths(f, w)
  BY DEF IsStrengths
<1> HIDE DEF V
<1>2. Screened(w) \in V
  BY <1>1, ScreenedIsStrengths
<1>3. Step \in [Nat -> [V -> V]]
  <2>1. \A s, f : f \in V => AfterSize(w, s, f) \in V
    BY <1>1, SizeLeaves
  <2> QED BY <2>1
<1> HIDE DEF Step
<1>4. PICK h \in [Nat -> V] : Solves(h, Screened(w), Step)
  BY <1>2, <1>3, Recursion
<1>5. PICK a : a = [s \in 0..MaxConditionSet |-> h[s]]
  OBVIOUS
<1>6. MaxConditionSet \in Nat /\ \A s \in 1..MaxConditionSet : s \in Nat \ {0} /\ s - 1 \in Nat /\ s - 1 \in 0..MaxConditionSet /\ s \in 0..MaxConditionSet
  BY DiscoveryAssumption
<1>7. h[0] = Screened(w) /\ \A s \in Nat \ {0} : h[s] = AfterSize(w, s, h[s - 1])
  <2>1. h[0] = Screened(w)
    BY <1>4 DEF Solves
  <2>2. ASSUME NEW s \in Nat \ {0} PROVE h[s] = AfterSize(w, s, h[s - 1])
    <3>1. h[s] = Step[s][h[s - 1]] /\ h[s - 1] \in V
      BY <1>4 DEF Solves
    <3> QED BY <3>1 DEF Step
  <2> QED BY <2>1, <2>2
<1>8. ASSUME NEW b
      PROVE  Eq(b) <=> b = [s \in 0..MaxConditionSet |-> IF s = 0 THEN Screened(w) ELSE AfterSize(w, s, b[s - 1])]
  <2>1. \A s : AfterSize(w, s, b[s - 1]) =
          LET before  == b[s - 1]
              Sets(x) == kSubset(s, Rivals(before, x))
              left    == {x \in DOMAIN before :
                            \A Z \in Sets(x) : TestOf(w, x, Z) # "independent"}
          IN  [x \in left |->
                 IF \E Z \in Sets(x) : TestOf(w, x, Z) = "dependent" THEN w.given[x] ELSE before[x]]
    BY DEF AfterSize, Says, SizeSets
  <2> QED BY <2>1
<1>9. Eq(a)
  <2>1. ASSUME NEW s \in 0..MaxConditionSet
        PROVE  a[s] = IF s = 0 THEN Screened(w) ELSE AfterSize(w, s, a[s - 1])
    <3>1. CASE s = 0
      BY <1>5, <1>7, <3>1
    <3>2. CASE s # 0
      <4>1. s \in 1..MaxConditionSet
        BY <3>2
      <4>2. a[s] = h[s] /\ a[s - 1] = h[s - 1]
        BY <1>5, <1>6, <4>1
      <4> QED BY <1>6, <1>7, <3>2, <4>1, <4>2
    <3> QED BY <3>1, <3>2
  <2> HIDE DEF Eq
  <2>2. a = [s \in 0..MaxConditionSet |-> IF s = 0 THEN Screened(w) ELSE AfterSize(w, s, a[s - 1])]
    BY <1>5, <2>1
  <2> QED BY <1>8, <2>2
<1> DEFINE A == StableAfter(w)
<1>10. Eq(A)
  <2>1. A = CHOOSE b : Eq(b)
    BY DEF StableAfter
  <2> HIDE DEF Eq, A
  <2> QED BY <1>9, <2>1
<1>11. A = [s \in 0..MaxConditionSet |-> IF s = 0 THEN Screened(w) ELSE AfterSize(w, s, A[s - 1])]
  <2> HIDE DEF Eq, A
  <2> QED BY <1>8, <1>10
<1> HIDE DEF A, Eq
<1>12. A[0] = Screened(w) /\ \A s \in 1..MaxConditionSet : A[s] = AfterSize(w, s, A[s - 1])
  BY <1>6, <1>11
<1> DEFINE D == {s \in Nat : s \in 0..MaxConditionSet => IsStrengths(A[s], w)}
<1>13. 0 \in D
  BY <1>12, ScreenedIsStrengths
<1>14. ASSUME NEW s \in Nat, s \in D PROVE s + 1 \in D
  <2> SUFFICES ASSUME s + 1 \in 0..MaxConditionSet PROVE IsStrengths(A[s + 1], w)
    OBVIOUS
  <2>1. s \in 0..MaxConditionSet /\ s + 1 \in 1..MaxConditionSet /\ s + 1 - 1 = s
    BY <1>6
  <2>2. IsStrengths(A[s], w)
    BY <1>14, <2>1
  <2>3. A[s + 1] = AfterSize(w, s + 1, A[s])
    BY <1>12, <2>1
  <2> QED BY <2>2, <2>3, SizeLeaves
<1> HIDE DEF D
<1>15. \A s \in Nat : s \in D
  BY <1>13, <1>14, Induction
<1>16. \A s \in 0..MaxConditionSet : IsStrengths(A[s], w)
  BY <1>6, <1>15 DEF D
<1> QED BY <1>12, <1>16 DEF A

\* Once a size finds no condition set, no larger size does, and nothing changes.
LEMMA NothingLeftToTry ==
    ASSUME NEW w, IsWorld(w), NEW s \in 1..MaxConditionSet, NEW before, before = StableAfter(w)[s - 1],
           \A x \in DOMAIN before : SizeSets(s, before, x) = {}
    PROVE  StableAfter(w)[MaxConditionSet] = before
<1> DEFINE A == StableAfter(w)
           D == {k \in Nat : s - 1 + k <= MaxConditionSet => A[s - 1 + k] = before}
<1>1. /\ \A t \in 1..MaxConditionSet : A[t] = AfterSize(w, t, A[t - 1])
      /\ \A t \in 0..MaxConditionSet : IsStrengths(A[t], w)
  BY StableEquation
<1> HIDE DEF A
<1>2. MaxConditionSet \in Nat /\ s \in Nat /\ s - 1 \in 0..MaxConditionSet /\ s - 1 \in Nat
  BY DiscoveryAssumption
<1>3. IsStrengths(before, w)
  BY <1>1, <1>2 DEF A
<1>4. ASSUME NEW t \in Nat, s <= t PROVE AfterSize(w, t, before) = before
  <2>1. \A x \in DOMAIN before : SizeSets(t, before, x) = {}
    <3> SUFFICES ASSUME NEW x \in DOMAIN before PROVE SizeSets(t, before, x) = {}
      OBVIOUS
    <3>1. IsFiniteSet(Rivals(before, x))
      BY <1>3, RivalsAreFew
    <3> QED BY <1>2, <1>4, <3>1, NoLargerSubsets DEF SizeSets
  <2>2. \A x \in DOMAIN before : ~Says(w, t, before, x, "independent") /\ ~Says(w, t, before, x, "dependent")
    BY <2>1 DEF Says
  <2>3. {y \in DOMAIN before : ~Says(w, t, before, y, "independent")} = DOMAIN before
    BY <2>2
  <2>4. AfterSize(w, t, before) = [x \in DOMAIN before |-> before[x]]
    BY <2>2, <2>3 DEF AfterSize
  <2> QED BY <1>3, <2>4 DEF IsStrengths
<1>5. 0 \in D
  BY <1>2 DEF A
<1>6. ASSUME NEW k \in Nat, k \in D PROVE k + 1 \in D
  <2> SUFFICES ASSUME s - 1 + (k + 1) <= MaxConditionSet PROVE A[s - 1 + (k + 1)] = before
    OBVIOUS
  <2>1. PICK t \in Nat : t = s - 1 + (k + 1)
    BY <1>2
  <2>2. t \in 1..MaxConditionSet /\ s <= t /\ t - 1 = s - 1 + k /\ s - 1 + k <= MaxConditionSet
    BY <1>2, <2>1
  <2>3. A[t - 1] = before
    BY <1>6, <2>2
  <2>4. A[t] = before
    BY <1>1, <1>4, <2>2, <2>3
  <2> QED BY <2>1, <2>4
<1> HIDE DEF D
<1>7. \A k \in Nat : k \in D
  BY <1>5, <1>6, Induction
<1>8. PICK k \in Nat : s - 1 + k = MaxConditionSet
  <2>1. MaxConditionSet - (s - 1) \in Nat /\ s - 1 + (MaxConditionSet - (s - 1)) = MaxConditionSet
    BY <1>2
  <2> QED BY <2>1
<1> QED BY <1>2, <1>7, <1>8 DEF D, A

\* A search is a record of these fields.
IsSearch(s) ==
    s = [phase |-> s.phase, size |-> s.size, alive |-> s.alive, frozen |-> s.frozen, todo |-> s.todo,
         removed |-> s.removed, progressed |-> s.progressed, edges |-> s.edges]

\* What is known while the parents of one size are tested, in any order.
KnowsSize(s, w) ==
    /\ s.size \in 1..MaxConditionSet
    /\ s.frozen = StableAfter(w)[s.size - 1]
    /\ s.todo \subseteq DOMAIN s.frozen
    /\ s.alive = [x \in DOMAIN s.frozen |->
                    IF /\ x \notin s.todo
                       /\ Says(w, s.size, s.frozen, x, "dependent")
                       /\ ~Says(w, s.size, s.frozen, x, "independent")
                    THEN w.given[x] ELSE s.frozen[x]]
    /\ s.removed = {x \in DOMAIN s.frozen \ s.todo : Says(w, s.size, s.frozen, x, "independent")}
    /\ s.progressed <=> \E x \in DOMAIN s.frozen \ s.todo : SizeSets(s.size, s.frozen, x) # {}

\* What is known during the final pass, and of its result.
KnowsRetest(s, w) ==
    /\ s.frozen = StableAfter(w)[MaxConditionSet]
    /\ s.todo \subseteq DOMAIN s.frozen
    /\ DOMAIN s.alive = DOMAIN s.frozen /\ IsStrengths(s.alive, w)
    /\ s.removed = {x \in DOMAIN s.frozen \ s.todo : TestOf(w, x, Rivals(s.frozen, x)) = "independent"}

KnowsResult(s, w) ==
    /\ s.frozen = StableAfter(w)[MaxConditionSet]
    /\ DOMAIN s.alive = Stable(w) /\ IsStrengths(s.alive, w)
    /\ s.edges = Edges(w, s.alive)

\* What is known of a search in each of its phases.
SearchKnows(s, w) ==
    /\ IsSearch(s) /\ s.phase \in {"idle", "condition", "retest", "done"}
    /\ s.phase # "idle" => w \in Worlds
    /\ s.phase = "condition" => KnowsSize(s, w)
    /\ s.phase = "retest" => KnowsRetest(s, w)
    /\ s.phase = "done" => KnowsResult(s, w)

\* The fields of a search that begins a size.
BegunWell(s, size, alive) ==
    /\ IsSearch(s)
    /\ s.phase = IF size <= MaxConditionSet THEN "condition" ELSE "retest"
    /\ s.size = size /\ s.alive = alive /\ s.frozen = alive /\ s.todo = DOMAIN alive
    /\ s.removed = {} /\ s.progressed = FALSE /\ s.edges = {}

\* The search at the beginning of a size.
LEMMA BegunIs ==
    ASSUME NEW size, NEW alive
    PROVE  BegunWell(Begun(size, alive), size, alive)
BY DEF BegunWell, Begun, IsSearch

\* A size that begins with what the sizes before it left.
LEMMA BeginsSize ==
    ASSUME NEW w \in Worlds, NEW s \in 0..MaxConditionSet, NEW alive, alive = StableAfter(w)[s]
    PROVE  SearchKnows(Begun(s + 1, alive), w)
<1>1. PICK b : b = Begun(s + 1, alive)
  OBVIOUS
<1>2. BegunWell(b, s + 1, alive)
  BY <1>1, BegunIs
<1>3. IsWorld(w) /\ MaxConditionSet \in Nat
  BY WorldsAssumption, DiscoveryAssumption
<1>4. IsStrengths(alive, w)
  BY <1>3, StableEquation
<1>5. CASE s + 1 <= MaxConditionSet
  <2>1. b.phase = "condition" /\ b.size = s + 1 /\ b.size \in 1..MaxConditionSet /\ b.size - 1 = s
    BY <1>2, <1>3, <1>5 DEF BegunWell
  <2>2. b.alive = alive /\ b.frozen = alive /\ b.todo = DOMAIN alive /\ b.removed = {} /\ b.progressed = FALSE /\ IsSearch(b)
    BY <1>2 DEF BegunWell
  <2>3. alive = [x \in DOMAIN alive |-> alive[x]]
    BY <1>4 DEF IsStrengths
  <2>4. KnowsSize(b, w)
    BY <2>1, <2>2, <2>3 DEF KnowsSize
  <2> QED BY <1>1, <2>1, <2>2, <2>4 DEF SearchKnows
<1>6. CASE ~(s + 1 <= MaxConditionSet)
  <2>1. b.phase = "retest" /\ s = MaxConditionSet
    BY <1>2, <1>3, <1>6 DEF BegunWell
  <2>2. KnowsRetest(b, w) /\ IsSearch(b)
    BY <1>2, <1>4, <2>1 DEF BegunWell, KnowsRetest
  <2> QED BY <1>1, <2>1, <2>2 DEF SearchKnows
<1> QED BY <1>5, <1>6

\* The tests of one parent tell of it what StableAfter says, as they are chosen by the
\* frozen strengths, whatever was tested, or removed, before it.
LEMMA TestKeeps ==
    ASSUME SearchKnows(search, world), NEW x \in search.todo, TestParent(x)
    PROVE  SearchKnows(search', world')
<1> DEFINE s == search
           w == world
           sets == ConditionSets(search, x)
           Heard(t) == \E Z \in sets : TestOf(w, x, Z) = t
<1>1. s.phase = "condition" /\ w' = w
  BY DEF TestParent
<1>2. KnowsSize(s, w) /\ IsSearch(s) /\ w \in Worlds
  BY <1>1 DEF SearchKnows
<1>3. sets = SizeSets(s.size, s.frozen, x)
  BY DEF ConditionSets, SizeSets
<1>4. PICK z : z = [s EXCEPT
               !.todo = @ \ {x},
               !.progressed = @ \/ sets # {},
               !.removed = IF Heard("independent") THEN @ \cup {x} ELSE @,
               !.alive[x] = IF Heard("dependent") /\ ~Heard("independent") THEN w.given[x] ELSE @]
  OBVIOUS
<1>5. search' = z
  BY <1>4 DEF TestParent
<1>6. \A t : Heard(t) <=> Says(w, s.size, s.frozen, x, t)
  BY <1>3 DEF Says
<1> HIDE DEF sets, Heard, s, w
<1>7. /\ IsSearch(z) /\ z.phase = s.phase /\ z.size = s.size /\ z.frozen = s.frozen
      /\ z.todo = s.todo \ {x}
      /\ z.progressed = (s.progressed \/ sets # {})
      /\ z.removed = IF Heard("independent") THEN s.removed \cup {x} ELSE s.removed
      /\ z.alive = [s.alive EXCEPT ![x] = IF Heard("dependent") /\ ~Heard("independent") THEN w.given[x] ELSE @]
  BY <1>2, <1>4 DEF IsSearch
<1>8. x \in s.todo /\ x \in DOMAIN s.frozen /\ DOMAIN s.alive = DOMAIN s.frozen
  BY <1>2 DEF KnowsSize, s
<1>9. /\ \A y \in DOMAIN s.frozen : y \notin z.todo <=> (y \notin s.todo \/ y = x)
      /\ DOMAIN s.frozen \ z.todo = (DOMAIN s.frozen \ s.todo) \cup {x}
  BY <1>7, <1>8
<1>10. z.removed = {y \in DOMAIN z.frozen \ z.todo : Says(w, z.size, z.frozen, y, "independent")}
  <2>1. s.removed = {y \in DOMAIN s.frozen \ s.todo : Says(w, s.size, s.frozen, y, "independent")}
    BY <1>2 DEF KnowsSize
  <2> QED BY <1>6, <1>7, <1>9, <2>1
<1>11. z.progressed <=> \E y \in DOMAIN z.frozen \ z.todo : SizeSets(z.size, z.frozen, y) # {}
  <2>1. s.progressed <=> \E y \in DOMAIN s.frozen \ s.todo : SizeSets(s.size, s.frozen, y) # {}
    BY <1>2 DEF KnowsSize
  <2>2. (\E y \in DOMAIN z.frozen \ z.todo : SizeSets(z.size, z.frozen, y) # {})
           <=> (s.progressed \/ sets # {})
    BY <1>3, <1>7, <1>9, <2>1 DEF s
  <2>3. z.progressed = (s.progressed \/ sets # {})
    BY <1>7
  <2> QED BY <2>2, <2>3
<1> DEFINE Value(q, y) == IF /\ y \notin q.todo
                             /\ Says(w, q.size, q.frozen, y, "dependent")
                             /\ ~Says(w, q.size, q.frozen, y, "independent")
                          THEN w.given[y] ELSE q.frozen[y]
<1>12. z.alive = [y \in DOMAIN z.frozen |-> Value(z, y)]
  <2>1. s.alive = [y \in DOMAIN s.frozen |-> Value(s, y)]
    BY <1>2 DEF KnowsSize
  <2>2. ASSUME NEW y \in DOMAIN s.frozen PROVE z.alive[y] = Value(z, y)
    <3>1. CASE y = x
      <4>1. s.alive[x] = s.frozen[x]
        BY <1>8, <2>1
      <4>2. z.alive[x] = IF Heard("dependent") /\ ~Heard("independent") THEN w.given[x] ELSE s.alive[x]
        BY <1>7, <1>8
      <4>3. x \notin z.todo
        BY <1>7
      <4> QED BY <1>6, <1>7, <3>1, <4>1, <4>2, <4>3
    <3>2. CASE y # x
      <4>1. z.alive[y] = s.alive[y]
        BY <1>7, <1>8, <3>2
      <4>2. y \in z.todo <=> y \in s.todo
        BY <1>7, <3>2
      <4>3. s.alive[y] = Value(s, y)
        BY <2>1
      <4> QED BY <1>7, <4>1, <4>2, <4>3
    <3> QED BY <3>1, <3>2
  <2>3. z.alive = [y \in DOMAIN s.frozen |-> z.alive[y]]
    BY <1>7, <2>1
  <2> HIDE DEF Value
  <2> QED BY <1>7, <2>2, <2>3
<1>13. z.size \in 1..MaxConditionSet /\ z.frozen = StableAfter(w)[z.size - 1] /\ z.todo \subseteq DOMAIN z.frozen
  BY <1>2, <1>7 DEF KnowsSize
<1>14. KnowsSize(z, w)
  BY <1>10, <1>11, <1>12, <1>13 DEF KnowsSize
<1> QED BY <1>1, <1>2, <1>5, <1>7, <1>14 DEF SearchKnows, s, w

\* The end of a size leaves what StableAfter leaves; if it found no condition set, no
\* later size would have.
LEMMA EndKeeps ==
    ASSUME SearchKnows(search, world), EndSize
    PROVE  SearchKnows(search', world')
<1> DEFINE s == search
           w == world
           left == DOMAIN s.alive \ s.removed
<1>1. PICK a : a = Restrict(s.alive, left)
  OBVIOUS
<1>2. /\ s.phase = "condition" /\ s.todo = {} /\ w' = w
      /\ search' = IF s.progressed THEN Begun(s.size + 1, a) ELSE Begun(MaxConditionSet + 1, a)
  BY <1>1 DEF EndSize
<1>3. KnowsSize(s, w) /\ w \in Worlds /\ IsWorld(w) /\ MaxConditionSet \in Nat \ {0}
  BY <1>2, WorldsAssumption, DiscoveryAssumption DEF SearchKnows
<1> HIDE DEF s, w
<1>4. a = AfterSize(w, s.size, s.frozen)
  <2>1. a = [x \in left |-> s.alive[x]]
    BY <1>1 DEF Restrict
  <2>2. left = {y \in DOMAIN s.frozen : ~Says(w, s.size, s.frozen, y, "independent")}
    BY <1>2, <1>3 DEF KnowsSize
  <2>3. \A x \in left : s.alive[x] = IF Says(w, s.size, s.frozen, x, "dependent") THEN w.given[x] ELSE s.frozen[x]
    BY <1>2, <1>3, <2>2 DEF KnowsSize
  <2> HIDE DEF left
  <2> QED BY <2>1, <2>2, <2>3 DEF AfterSize
<1>5. s.size \in 1..MaxConditionSet /\ s.frozen = StableAfter(w)[s.size - 1] /\ s.size - 1 \in 0..MaxConditionSet
  BY <1>3 DEF KnowsSize
<1>6. a = StableAfter(w)[s.size]
  <2>1. StableAfter(w)[s.size] = AfterSize(w, s.size, StableAfter(w)[s.size - 1])
    BY <1>3, <1>5, StableEquation
  <2> QED BY <1>4, <1>5, <2>1
<1>7. CASE s.progressed
  <2>1. search' = Begun(s.size + 1, a) /\ s.size \in 0..MaxConditionSet
    BY <1>2, <1>5, <1>7 DEF s
  <2>2. SearchKnows(Begun(s.size + 1, a), w)
    BY <1>3, <1>6, <2>1, BeginsSize
  <2> QED BY <1>2, <2>1, <2>2 DEF w
<1>8. CASE ~s.progressed
  <2>1. search' = Begun(MaxConditionSet + 1, a) /\ MaxConditionSet \in 0..MaxConditionSet
    BY <1>2, <1>3, <1>8 DEF s
  <2>2. \A x \in DOMAIN s.frozen : SizeSets(s.size, s.frozen, x) = {}
    BY <1>2, <1>3, <1>8 DEF KnowsSize
  <2>3. StableAfter(w)[MaxConditionSet] = s.frozen
    BY <1>3, <1>5, <2>2, NothingLeftToTry
  <2>4. a = s.frozen
    <3>1. \A x \in DOMAIN s.frozen : ~Says(w, s.size, s.frozen, x, "independent") /\ ~Says(w, s.size, s.frozen, x, "dependent")
      BY <2>2 DEF Says
    <3>2. {y \in DOMAIN s.frozen : ~Says(w, s.size, s.frozen, y, "independent")} = DOMAIN s.frozen
      BY <3>1
    <3>3. a = [x \in DOMAIN s.frozen |-> s.frozen[x]]
      BY <1>4, <3>1, <3>2 DEF AfterSize
    <3>4. IsStrengths(s.frozen, w)
      BY <1>3, <1>5, StableEquation
    <3> QED BY <3>3, <3>4 DEF IsStrengths
  <2>5. SearchKnows(Begun(MaxConditionSet + 1, a), w)
    BY <1>3, <2>1, <2>3, <2>4, BeginsSize
  <2> QED BY <1>2, <2>1, <2>5 DEF w
<1> QED BY <1>7, <1>8

\* The final pass drops a survivor exactly when Stable does.
LEMMA RetestKeeps ==
    ASSUME SearchKnows(search, world), NEW x \in search.todo, Retest(x)
    PROVE  SearchKnows(search', world')
<1> DEFINE s == search
           w == world
           others == Rivals(s.frozen, x)
           told == TestOf(w, x, others)
           seen == Strength(w, x, others)
<1>1. s.phase = "retest" /\ w' = w
  BY DEF Retest
<1>2. KnowsRetest(s, w) /\ IsSearch(s) /\ w \in Worlds /\ IsWorld(w)
  BY <1>1, WorldsAssumption DEF SearchKnows
<1>3. PICK z : z = [s EXCEPT
               !.todo = @ \ {x},
               !.removed = IF told = "independent" THEN @ \cup {x} ELSE @,
               !.alive[x] = IF told = "dependent" THEN seen ELSE @]
  OBVIOUS
<1>4. search' = z
  BY <1>3 DEF Retest
<1>5. x \in s.todo /\ x \in DOMAIN s.frozen /\ DOMAIN s.alive = DOMAIN s.frozen
      /\ s.alive \in [DOMAIN s.alive -> Nat] /\ DOMAIN s.alive \subseteq Possible(w)
  BY <1>2 DEF KnowsRetest, IsStrengths
<1>6. seen \in Nat
  BY <1>2, <1>5 DEF Strength, IsWorld
<1> HIDE DEF seen, told, s, w, others
<1>7. /\ IsSearch(z) /\ z.phase = s.phase /\ z.frozen = s.frozen /\ z.todo = s.todo \ {x}
      /\ z.removed = IF told = "independent" THEN s.removed \cup {x} ELSE s.removed
      /\ z.alive = [s.alive EXCEPT ![x] = IF told = "dependent" THEN seen ELSE @]
  BY <1>2, <1>3 DEF IsSearch
<1>8. DOMAIN z.alive = DOMAIN s.alive /\ z.alive \in [DOMAIN s.alive -> Nat]
  BY <1>5, <1>6, <1>7
<1>9. z.removed = {y \in DOMAIN z.frozen \ z.todo : TestOf(w, y, Rivals(z.frozen, y)) = "independent"}
  <2>1. s.removed = {y \in DOMAIN s.frozen \ s.todo : TestOf(w, y, Rivals(s.frozen, y)) = "independent"}
    BY <1>2 DEF KnowsRetest
  <2>2. DOMAIN z.frozen \ z.todo = (DOMAIN s.frozen \ s.todo) \cup {x}
    BY <1>5, <1>7
  <2>3. told = TestOf(w, x, Rivals(s.frozen, x))
    BY DEF told, others
  <2> QED BY <1>7, <2>1, <2>2, <2>3
<1>10. KnowsRetest(z, w)
  BY <1>2, <1>5, <1>7, <1>8, <1>9 DEF KnowsRetest, IsStrengths
<1> QED BY <1>1, <1>2, <1>4, <1>7, <1>10 DEF SearchKnows, s, w

\* The report is made of what Stable keeps.
LEMMA ReportKeeps ==
    ASSUME SearchKnows(search, world), Report
    PROVE  SearchKnows(search', world')
<1> DEFINE s == search
           w == world
           left == DOMAIN s.alive \ s.removed
<1>1. PICK a : a = Restrict(s.alive, left)
  OBVIOUS
<1>2. PICK z : z = [s EXCEPT !.phase = "done", !.alive = a, !.removed = {}, !.edges = Edges(w, a)]
  OBVIOUS
<1>3. s.phase = "retest" /\ s.todo = {} /\ w' = w /\ search' = z
  BY <1>1, <1>2 DEF Report
<1>4. KnowsRetest(s, w) /\ IsSearch(s) /\ w \in Worlds
  BY <1>3 DEF SearchKnows
<1> HIDE DEF s, w
<1>5. a = [x \in left |-> s.alive[x]] /\ DOMAIN a = left
  BY <1>1 DEF Restrict
<1>6. DOMAIN s.alive = DOMAIN s.frozen /\ DOMAIN s.alive \subseteq Possible(w) /\ s.alive \in [DOMAIN s.alive -> Nat]
      /\ s.frozen = StableAfter(w)[MaxConditionSet]
  BY <1>4 DEF KnowsRetest, IsStrengths
<1>7. left = Stable(w)
  <2>1. left = {x \in DOMAIN s.frozen : TestOf(w, x, Rivals(s.frozen, x)) # "independent"}
    BY <1>3, <1>4, <1>6 DEF KnowsRetest, s
  <2> QED BY <1>6, <2>1 DEF Stable
<1>8. IsStrengths(a, w)
  <2>1. left \subseteq DOMAIN s.alive
    OBVIOUS
  <2> HIDE DEF left
  <2> QED BY <1>5, <1>6, <2>1 DEF IsStrengths
<1>9. /\ IsSearch(z) /\ z.phase = "done" /\ z.alive = a /\ z.frozen = s.frozen /\ z.edges = Edges(w, a)
  BY <1>2, <1>4 DEF IsSearch
<1>10. KnowsResult(z, w)
  BY <1>5, <1>6, <1>7, <1>8, <1>9 DEF KnowsResult
<1> QED BY <1>3, <1>4, <1>9, <1>10 DEF SearchKnows, w

\* A search begins with what passed the tests without conditions.
LEMMA SearchBegins ==
    ASSUME Init
    PROVE  SearchKnows(search, world)
<1>1. CASE NoDiscovery
  <2>1. PICK b : b = Begun(1, <<>>)
    OBVIOUS
  <2>2. IsSearch(b)
    BY <2>1, BegunIs DEF BegunWell
  <2>3. search = [b EXCEPT !.phase = "idle"]
    BY <1>1, <2>1 DEF NoDiscovery
  <2>4. IsSearch(search) /\ search.phase = "idle"
    BY <2>2, <2>3 DEF IsSearch
  <2> QED BY <2>4 DEF SearchKnows
<1>2. CASE DiscoveryInit
  <2>1. world \in Worlds /\ search = Begun(1, Screened(world))
    BY <1>2 DEF DiscoveryInit
  <2>2. Screened(world) = StableAfter(world)[0]
    BY <2>1, WorldsAssumption, StableEquation
  <2>3. 0 \in 0..MaxConditionSet /\ 0 + 1 = 1
    BY DiscoveryAssumption
  <2>4. SearchKnows(Begun(0 + 1, Screened(world)), world)
    BY <2>1, <2>2, <2>3, BeginsSize
  <2> QED BY <2>1, <2>3, <2>4
<1> QED BY <1>1, <1>2 DEF Init

\* Every step keeps what is known of the search.
LEMMA SearchSteps ==
    ASSUME SearchKnows(search, world), [Next]_vars
    PROVE  SearchKnows(search', world')
<1>1. CASE Discover
  <2>1. ASSUME NEW x \in search.todo, TestParent(x) PROVE SearchKnows(search', world')
    BY <2>1, TestKeeps
  <2>2. ASSUME NEW x \in search.todo, Retest(x) PROVE SearchKnows(search', world')
    BY <2>2, RetestKeeps
  <2> QED BY <1>1, <2>1, <2>2, EndKeeps, ReportKeeps DEF Discover, DiscoveryNext
<1>2. ASSUME UNCHANGED discovery PROVE SearchKnows(search', world')
  BY <1>2 DEF discovery
<1>3. UNCHANGED vars => UNCHANGED discovery
  BY DEF vars
<1>4. ASSUME NEW q, AskFailure(q) PROVE UNCHANGED discovery
  BY <1>4 DEF AskFailure
<1>5. ASSUME NEW q, AskCounterfactual(q) PROVE UNCHANGED discovery
  BY <1>5 DEF AskCounterfactual
<1>6. ASSUME NEW n, AskRootCause(n) PROVE UNCHANGED discovery
  BY <1>6 DEF AskRootCause
<1>7. ASSUME NEW n, NEW largest, RunExperiment(n, largest) PROVE UNCHANGED discovery
  BY <1>7 DEF RunExperiment
<1> QED BY <1>1, <1>2, <1>3, <1>4, <1>5, <1>6, <1>7 DEF Next

\* The inductive invariant of a search: at every moment of every size its state is
\* that function of the data, the size and the parents still to test, and of nothing else.
THEOREM SearchesAreKnown == Spec => []SearchKnows(search, world)
<1>1. Init => SearchKnows(search, world)
  BY SearchBegins
<1>2. SearchKnows(search, world) /\ [Next]_vars => SearchKnows(search, world)'
  BY SearchSteps
<1> QED BY <1>1, <1>2, PTL DEF Spec

\* What a search drops was dropped by a test that found it independent.
DroppedByTest(w, x) == \E Z \in SUBSET (Possible(w) \ {x}) : TestOf(w, x, Z) = "independent"

\* What a size has dropped was found independent by a test of it or an earlier one.
LEMMA SizesDropByTests ==
    ASSUME NEW w, IsWorld(w), ~w.flat, NEW x \in Possible(w) \ w.constant,
           NEW s \in 0..MaxConditionSet, x \notin DOMAIN StableAfter(w)[s]
    PROVE  DroppedByTest(w, x)
<1> DEFINE A == StableAfter(w)
           D == {k \in Nat : k \in 0..MaxConditionSet /\ x \notin DOMAIN A[k] => DroppedByTest(w, x)}
<1>1. /\ A[0] = Screened(w)
      /\ \A t \in 1..MaxConditionSet : A[t] = AfterSize(w, t, A[t - 1])
      /\ \A t \in 0..MaxConditionSet : IsStrengths(A[t], w)
  BY StableEquation
<1>2. MaxConditionSet \in Nat /\ x \notin DOMAIN A[s]
  BY DiscoveryAssumption
<1> HIDE DEF A
<1>3. 0 \in D
  <2>1. DOMAIN A[0] = {y \in Possible(w) \ w.constant : TestOf(w, y, {}) # "independent"}
    BY <1>1, ScreenedIsStrengths
  <2>2. {} \in SUBSET (Possible(w) \ {x})
    OBVIOUS
  <2> QED BY <2>1, <2>2 DEF DroppedByTest
<1>4. ASSUME NEW k \in Nat, k \in D PROVE k + 1 \in D
  <2> SUFFICES ASSUME k + 1 \in 0..MaxConditionSet, x \notin DOMAIN A[k + 1] PROVE DroppedByTest(w, x)
    OBVIOUS
  <2>1. PICK t \in Nat : t = k + 1
    OBVIOUS
  <2>2. t \in 1..MaxConditionSet /\ t - 1 = k /\ k \in 0..MaxConditionSet
    BY <1>2, <2>1
  <2>3. A[t] = AfterSize(w, t, A[k]) /\ IsStrengths(A[k], w)
    BY <1>1, <2>2
  <2>4. CASE x \notin DOMAIN A[k]
    BY <1>4, <2>2, <2>4
  <2>5. CASE x \in DOMAIN A[k]
    <3>1. DOMAIN AfterSize(w, t, A[k]) = {y \in DOMAIN A[k] : ~Says(w, t, A[k], y, "independent")}
      BY <2>3, SizeLeaves
    <3>2. Says(w, t, A[k], x, "independent")
      BY <2>1, <2>3, <2>5, <3>1
    <3>3. PICK Z \in kSubset(t, Rivals(A[k], x)) : TestOf(w, x, Z) = "independent"
      BY <3>2 DEF Says, SizeSets
    <3>4. Z \subseteq Rivals(A[k], x)
      BY DEF kSubset
    <3>5. Rivals(A[k], x) \subseteq Possible(w) \ {x}
      BY <2>3, RivalsAreFew
    <3> QED BY <3>3, <3>4, <3>5 DEF DroppedByTest
  <2> QED BY <2>4, <2>5
<1> HIDE DEF D
<1>5. \A k \in Nat : k \in D
  BY <1>3, <1>4, Induction
<1>6. s \in D
  BY <1>2, <1>5
<1> QED BY <1>2, <1>6 DEF D

\* What a search drops was found independent by a test that was done.
LEMMA DropsByTests ==
    ASSUME NEW w, IsWorld(w), ~w.flat, NEW x \in Possible(w) \ w.constant, x \notin Stable(w)
    PROVE  DroppedByTest(w, x)
<1> DEFINE f == StableAfter(w)[MaxConditionSet]
<1>1. MaxConditionSet \in 0..MaxConditionSet
  BY DiscoveryAssumption
<1>2. IsStrengths(f, w)
  BY <1>1, StableEquation
<1>3. CASE x \notin DOMAIN f
  BY <1>1, <1>3, SizesDropByTests
<1>4. CASE x \in DOMAIN f
  <2>1. TestOf(w, x, Rivals(f, x)) = "independent"
    BY <1>4 DEF Stable
  <2>2. Rivals(f, x) \subseteq Possible(w) \ {x}
    BY <1>2, RivalsAreFew
  <2> QED BY <2>1, <2>2 DEF DroppedByTest
<1> QED BY <1>3, <1>4

\* No condition set is larger than the candidates are many.
LEMMA FewAreTested ==
    ASSUME NEW w, IsWorld(w), NEW f, IsStrengths(f, w), NEW x, NEW Z \in SUBSET Rivals(f, x)
    PROVE  Z \in SUBSET (Possible(w) \ {x}) /\ Cardinality(Z) <= MaxConditionCandidates
<1>1. /\ Rivals(f, x) \subseteq Possible(w) \ {x}
      /\ IsFiniteSet(Rivals(f, x)) /\ Cardinality(Rivals(f, x)) <= MaxConditionCandidates
  BY RivalsAreFew
<1>2. Cardinality(Z) <= Cardinality(Rivals(f, x)) /\ Cardinality(Z) \in Nat /\ Cardinality(Rivals(f, x)) \in Nat
  BY <1>1, FS_Subset, FS_CardinalityType
<1> QED BY <1>1, <1>2, DiscoveryAssumption

\* When the tests follow a causal graph no size drops a true parent.
LEMMA SizesKeepCauses ==
    ASSUME NEW w, IsWorld(w), FollowsCauses(w), NEW s \in 0..MaxConditionSet
    PROVE  w.causes \subseteq DOMAIN StableAfter(w)[s]
<1> DEFINE A == StableAfter(w)
           D == {k \in Nat : k \in 0..MaxConditionSet => w.causes \subseteq DOMAIN A[k]}
<1>1. /\ A[0] = Screened(w)
      /\ \A t \in 1..MaxConditionSet : A[t] = AfterSize(w, t, A[t - 1])
      /\ \A t \in 0..MaxConditionSet : IsStrengths(A[t], w)
  BY StableEquation
<1>2. MaxConditionSet \in Nat /\ MaxConditionCandidates \in Nat
  BY DiscoveryAssumption
<1>3. ~w.flat /\ w.causes \subseteq Possible(w) \ w.constant
  BY DEF FollowsCauses
<1>4. ASSUME NEW x \in w.causes, NEW Z \in SUBSET (Possible(w) \ {x}), Cardinality(Z) <= MaxConditionCandidates
      PROVE  TestOf(w, x, Z) # "independent"
  BY <1>3, <1>4 DEF FollowsCauses
<1> HIDE DEF A
<1>5. 0 \in D
  <2>1. DOMAIN A[0] = {y \in Possible(w) \ w.constant : TestOf(w, y, {}) # "independent"}
    BY <1>1, <1>3, ScreenedIsStrengths
  <2>2. Cardinality({}) = 0
    BY FS_EmptySet
  <2>3. \A x \in w.causes : TestOf(w, x, {}) # "independent"
    BY <1>2, <1>4, <2>2
  <2> QED BY <1>3, <2>1, <2>3
<1>6. ASSUME NEW k \in Nat, k \in D PROVE k + 1 \in D
  <2> SUFFICES ASSUME k + 1 \in 0..MaxConditionSet, NEW x \in w.causes PROVE x \in DOMAIN A[k + 1]
    OBVIOUS
  <2>1. PICK t \in Nat : t = k + 1
    OBVIOUS
  <2>2. t \in 1..MaxConditionSet /\ t - 1 = k /\ k \in 0..MaxConditionSet
    BY <1>2, <2>1
  <2>3. A[t] = AfterSize(w, t, A[k]) /\ IsStrengths(A[k], w)
    BY <1>1, <2>2
  <2>4. x \in DOMAIN A[k]
    BY <1>6, <2>2
  <2>5. DOMAIN AfterSize(w, t, A[k]) = {y \in DOMAIN A[k] : ~Says(w, t, A[k], y, "independent")}
    BY <2>3, SizeLeaves
  <2>6. ASSUME NEW Z \in kSubset(t, Rivals(A[k], x)) PROVE TestOf(w, x, Z) # "independent"
    <3>1. Z \in SUBSET Rivals(A[k], x)
      BY DEF kSubset
    <3>2. PICK g : g = A[k]
      OBVIOUS
    <3>3. IsStrengths(g, w) /\ Z \in SUBSET Rivals(g, x)
      BY <2>3, <3>1, <3>2
    <3>4. Z \in SUBSET (Possible(w) \ {x}) /\ Cardinality(Z) <= MaxConditionCandidates
      BY <3>3, FewAreTested
    <3> QED BY <1>4, <3>4
  <2>7. ~Says(w, t, A[k], x, "independent")
    BY <2>6 DEF Says, SizeSets
  <2> QED BY <2>1, <2>3, <2>4, <2>5, <2>7
<1> HIDE DEF D
<1>7. \A k \in Nat : k \in D
  BY <1>5, <1>6, Induction
<1>8. s \in D
  BY <1>2, <1>7
<1> QED BY <1>8 DEF A, D

\* When the tests follow a causal graph the search keeps all true parents, and another
\* one only if a true parent was not among those it was last tested against.
LEMMA CausesAreFound ==
    ASSUME NEW w, IsWorld(w), FollowsCauses(w)
    PROVE  /\ w.causes \subseteq Stable(w)
           /\ \A x \in Stable(w) \ w.causes :
                 ~(w.causes \subseteq Rivals(StableAfter(w)[MaxConditionSet], x))
<1> DEFINE f == StableAfter(w)[MaxConditionSet]
<1>1. MaxConditionSet \in 0..MaxConditionSet
  BY DiscoveryAssumption
<1>2. IsStrengths(f, w) /\ w.causes \subseteq DOMAIN f
  BY <1>1, StableEquation, SizesKeepCauses
<1>3. Stable(w) = {x \in DOMAIN f : TestOf(w, x, Rivals(f, x)) # "independent"}
  BY DEF Stable
<1> HIDE DEF f
<1>4. ASSUME NEW x \in DOMAIN f
      PROVE  /\ x \in w.causes => TestOf(w, x, Rivals(f, x)) # "independent"
             /\ x \notin w.causes /\ w.causes \subseteq Rivals(f, x) => TestOf(w, x, Rivals(f, x)) = "independent"
  <2>1. PICK Z : Z = Rivals(f, x)
    OBVIOUS
  <2>2. Z \in SUBSET (Possible(w) \ {x}) /\ Cardinality(Z) <= MaxConditionCandidates
    BY <1>2, <2>1, FewAreTested
  <2>3. x \in Possible(w)
    BY <1>2 DEF IsStrengths
  <2> QED BY <2>1, <2>2, <2>3 DEF FollowsCauses
<1> QED BY <1>2, <1>3, <1>4 DEF f

\* Every node with a surviving lag is reported by one of its lags.
LEMMA EdgesNameSources ==
    ASSUME NEW w, IsWorld(w), NEW f, IsStrengths(f, w)
    PROVE  /\ Sources(w, Edges(w, f)) = Sources(w, DOMAIN f)
           /\ Cardinality(Edges(w, f)) = Cardinality(Sources(w, DOMAIN f))
<1> DEFINE E == Edges(w, f)
           src == [x \in DOMAIN f |-> w.labels[x][1]]
           T == Sources(w, DOMAIN f)
           name == [x \in E |-> src[x]]
           Beaten(x) == \E y \in DOMAIN f : src[y] = src[x] /\ Outranks(f, y, x)
<1>1. E = {x \in DOMAIN f : src[x] # w.target /\ ~Beaten(x)}
  BY DEF Edges, Outranks
<1>2. T = {src[x] : x \in DOMAIN f} \ {w.target}
  BY DEF Sources
<1>3. Sources(w, E) = {src[x] : x \in E} \ {w.target}
  BY <1>1 DEF Sources
<1>4. DOMAIN f \subseteq Nat /\ IsFiniteSet(DOMAIN f) /\ \A x \in DOMAIN f : f[x] \in Nat
  BY FS_Subset DEF IsWorld, IsStrengths
<1> HIDE DEF src, E, T
<1>5. ASSUME NEW n \in T PROVE \E x \in E : src[x] = n
  <2> DEFINE Y == {y \in DOMAIN f : src[y] = n}
             R == RankOrder(f, Y)
  <2>1. Y \in SUBSET Nat /\ IsFiniteSet(Y) /\ \A y \in Y : f[y] \in Nat
    BY <1>4, FS_Subset
  <2>2. PICK y \in Y : TRUE
    BY <1>2
  <2>3. Cardinality(Y) \in Nat /\ Cardinality(Y) # 0
    BY <2>1, <2>2, FS_EmptySet, FS_CardinalityType
  <2>4. 1 \in 1..Cardinality(Y)
    BY <2>3
  <2> HIDE DEF Y
  <2>5. IsStrictOrder(R, Y) /\ \A x \in Y : Below(R, Y, x) = {i \in Y : Outranks(f, i, x)}
    BY <2>1, RanksOrder
  <2> HIDE DEF R
  <2>6. \E x \in Y : Cardinality(Below(R, Y, x)) = 1 - 1
    <3>1. IsFiniteSet(Y) /\ IsStrictOrder(R, Y)
      BY <2>1, <2>5
    <3>2. PICK i \in 1..Cardinality(Y) : i = 1
      BY <2>4
    <3>3. \E x \in Y : Cardinality(Below(R, Y, x)) = i - 1
      BY <3>1, PlacesAreTaken
    <3> QED BY <3>2, <3>3
  <2>7. PICK x \in Y : Cardinality(Below(R, Y, x)) = 0
    BY <2>6
  <2>8. {i \in Y : Outranks(f, i, x)} = {}
    <3>1. IsFiniteSet({i \in Y : Outranks(f, i, x)})
      BY <2>1, FS_Subset
    <3> QED BY <2>5, <2>7, <3>1, FS_EmptySet
  <2>9. x \in DOMAIN f /\ src[x] = n
    BY DEF Y
  <2>10. ~Beaten(x)
    BY <2>8, <2>9 DEF Y
  <2>11. n # w.target
    BY <1>2
  <2> HIDE DEF Beaten
  <2> QED BY <1>1, <2>9, <2>10, <2>11
<1>6. ASSUME NEW x \in E, NEW y \in E, src[x] = src[y] PROVE x = y
  <2>1. x \in DOMAIN f /\ y \in DOMAIN f /\ ~Outranks(f, x, y) /\ ~Outranks(f, y, x)
    BY <1>1, <1>6
  <2>2. x \in Nat /\ y \in Nat /\ f[x] \in Nat /\ f[y] \in Nat
    BY <1>4, <2>1
  <2> QED BY <2>1, <2>2 DEF Outranks
<1>7. \A x \in E : src[x] \in T
  BY <1>1, <1>2
<1>8. name \in [E -> T] /\ \A x \in E : name[x] = src[x]
  BY <1>7
<1> HIDE DEF name
<1>9. name \in Injection(E, T)
  BY <1>6, <1>8 DEF Injection, IsInjective
<1>10. name \in Surjection(E, T)
  BY <1>5, <1>8 DEF Surjection
<1>11. ExistsBijection(E, T)
  BY <1>9, <1>10 DEF ExistsBijection, Bijection
<1>12. IsFiniteSet(E)
  <2>1. E \subseteq DOMAIN f
    BY <1>1
  <2> QED BY <1>4, <2>1, FS_Subset
<1>13. Cardinality(T) = Cardinality(E)
  BY <1>11, <1>12, FS_Bijection
<1>14. Sources(w, E) = T
  BY <1>2, <1>3, <1>5, <1>7
<1> QED BY <1>13, <1>14 DEF E, T

\* A search that is done, of which that much is known, is right.
LEMMA ResultIsRight ==
    ASSUME SearchKnows(search, world)
    PROVE  DiscoveryIsRight
<1> SUFFICES ASSUME search.phase = "done"
             PROVE  /\ Parents = Stable(world)
                    /\ \A x \in Possible(world) \ (world.constant \cup Parents) :
                          world.flat \/ DroppedByTest(world, x)
                    /\ Sources(world, search.edges) = Sources(world, Parents)
                    /\ Cardinality(search.edges) = Cardinality(Sources(world, Parents))
                    /\ world.causes # Unknown =>
                          /\ world.causes \subseteq Parents
                          /\ \A x \in Parents \ world.causes :
                                ~(world.causes \subseteq Rivals(search.frozen, x))
  BY DEF DiscoveryIsRight, DroppedByTest
<1>1. KnowsResult(search, world) /\ IsWorld(world) /\ (world.causes # Unknown => FollowsCauses(world))
  BY WorldsAssumption DEF SearchKnows
<1>2. Parents = Stable(world) /\ search.frozen = StableAfter(world)[MaxConditionSet]
      /\ search.edges = Edges(world, search.alive) /\ Parents = DOMAIN search.alive /\ IsStrengths(search.alive, world)
  BY <1>1 DEF KnowsResult, Parents
<1>3. \A x \in Possible(world) \ (world.constant \cup Parents) : world.flat \/ DroppedByTest(world, x)
  BY <1>1, <1>2, DropsByTests
<1>4. /\ Sources(world, search.edges) = Sources(world, Parents)
      /\ Cardinality(search.edges) = Cardinality(Sources(world, Parents))
  BY <1>1, <1>2, EdgesNameSources
<1>5. ASSUME world.causes # Unknown
      PROVE  /\ world.causes \subseteq Parents
             /\ \A x \in Parents \ world.causes : ~(world.causes \subseteq Rivals(search.frozen, x))
  BY <1>1, <1>2, <1>5, CausesAreFound
<1> QED BY <1>2, <1>3, <1>4, <1>5

\* Every search ends with the same parents whatever the order of its tests, drops none
\* without a test, reports each surviving source once, and finds all true parents of
\* data that follows a causal graph (DiscoveryIsRight; _discover_parents).
THEOREM DiscoveryAlwaysRight == Spec => []DiscoveryIsRight
<1>1. SearchKnows(search, world) => DiscoveryIsRight
  BY ResultIsRight
<1> QED BY <1>1, SearchesAreKnown, PTL
=============================================================================
