------------------------- MODULE ResilienceMonitor -------------------------
(***************************************************************************)
(* ResilienceMonitor.evaluate of backend/simulation/resilience_monitor.py: *)
(* every rule is judged against a reading of the twin's topology, alerts   *)
(* are edge-triggered per (rule, scope), and alerts whose scope was not    *)
(* judged are resolved at the end.  Every alert goes through the sinks,    *)
(* and a sink that raises ends the evaluation where it stands.             *)
(*                                                                         *)
(* A graph is what the rules read of it: the two sizes behind the "state"  *)
(* ratios, and for each what-if scenario (numbered in the order of their   *)
(* ids) the indicators the failure pipeline finds.  Ratios are whole       *)
(* percents rounded down, which decides "lt" rules with whole-percent      *)
(* thresholds exactly; the binary rounding of the floats is left out.      *)
(***************************************************************************)
EXTENDS Integers, Sequences, SequencesExt

CONSTANTS Rules,           \* the rules in order: records name, indicator, op, threshold, margin, scope
          Scenarios,       \* the numbers of the what-if scenarios graphs may have
          Graphs,          \* the topologies evaluate may be handed
          Sweep,           \* whether the sweep is on
          MaxScenarios,    \* at most so many scenarios are swept
          SinksMayRaise,   \* whether some sink may raise
          None             \* no reference yet

State == 0      \* the scope id "state"; scenarios are numbered from 1
Key == (Range(Rules) \X ({State} \cup Scenarios))

ASSUME MonitorAssumption ==
    /\ Scenarios \subseteq Nat \ {State}
    /\ Sweep \in BOOLEAN /\ SinksMayRaise \in BOOLEAN
    /\ MaxScenarios \in Nat
    /\ Rules \in Seq(Range(Rules))
    /\ \A r \in Range(Rules) : r.scope \in {"state", "sweep"}
    /\ \A g \in Graphs : DOMAIN g.sweep \subseteq Scenarios

VARIABLES reference,    \* the graph that counts as healthy
          graph,        \* the graph of the latest evaluation
          active,       \* _active: the alerts that are on
          seen,         \* the alerts this evaluation found on
          todo,         \* the (rule, scope) pairs still to be judged, in order
          gone,         \* the alerts to be resolved because their scope was not judged
          pc,           \* idle, judging or removing
          outcome,      \* how the latest evaluation ended: ok, raised or none
          evaluations,  \* stats.evaluations
          raised,       \* whether some sink has raised so far
          fired,        \* how many fired alerts each (rule, scope) has had
          resolved      \* and how many resolved ones

alertVars == <<reference, graph, active, seen, todo, gone, pc, outcome, evaluations,
               raised, fired, resolved>>

AlertsInit ==
    /\ reference = None /\ graph = None
    /\ active = {} /\ seen = {} /\ todo = <<>> /\ gone = {}
    /\ pc = "idle" /\ outcome = "none" /\ evaluations = 0
    /\ raised = FALSE
    /\ fired = [k \in Key |-> 0] /\ resolved = [k \in Key |-> 0]

-----------------------------------------------------------------------------
\* What the rules say of a value.
Breached(rule, value) ==
    \/ rule.op = "lt" /\ value < rule.threshold
    \/ rule.op = "gt" /\ value > rule.threshold
    \/ rule.op = "is_false" /\ value = FALSE
    \/ rule.op = "nonempty" /\ value > 0

\* Mistaken form of Cleared: the margin is forgotten.
ClearedWithoutMargin(rule, value) == ~Breached(rule, value)

Cleared(rule, value) ==
    CASE rule.op = "lt" -> value >= rule.threshold + rule.margin
      [] rule.op = "gt" -> value <= rule.threshold - rule.margin
      [] OTHER -> ~Breached(rule, value)

\* A size against the reference's, in percent; an empty reference counts as whole.
Ratio(after, before) == IF before = 0 THEN 100 ELSE (100 * after) \div before

\* The value a rule judges in a scope of graph g.
Value(ref, g, k) ==
    IF k[2] = State
    THEN Ratio(g[k[1].indicator], ref[k[1].indicator])
    ELSE g.sweep[k[2]][k[1].indicator]

\* The scenarios of g in the order of their ids, cut off at MaxScenarios.
Swept(g) ==
    LET all == SetToSortSeq(DOMAIN g.sweep, <)
    IN  IF Len(all) <= MaxScenarios THEN all ELSE SubSeq(all, 1, MaxScenarios)

OfScope(scope) == SelectSeq(Rules, LAMBDA r : r.scope = scope)

\* What evaluate judges, in its order: the state rules, then for each scenario
\* every sweep rule.
Agenda(g) ==
    LET inState(r) == <<r, State>>
        ofScenario(s) == [i \in DOMAIN OfScope("sweep") |-> <<OfScope("sweep")[i], s>>]
    IN  [i \in DOMAIN OfScope("state") |-> inState(OfScope("state")[i])]
        \o (IF Sweep THEN FlattenSeq([i \in DOMAIN Swept(g) |-> ofScenario(Swept(g)[i])])
                     ELSE <<>>)

\* What there is to judge is a sequence of (rule, scope) pairs, the rules that
\* compare have numbers to compare, and "is_false" asks a bool.
ASSUME AgendaAssumption ==
    \A g \in Graphs :
        /\ Agenda(g) \in Seq(Key)
        /\ \A ref \in Graphs, k \in Range(Agenda(g)) :
              /\ k[1].op \in {"lt", "gt"} => /\ Value(ref, g, k) \in Int
                                             /\ k[1].threshold \in Int /\ k[1].margin \in Int
              /\ k[1].op = "is_false" => Value(ref, g, k) \in BOOLEAN

-----------------------------------------------------------------------------
\* evaluate(twin): the first graph ever seen becomes the reference.
Evaluate(g) ==
    /\ pc = "idle"
    /\ graph' = g
    /\ reference' = IF reference = None THEN g ELSE reference
    /\ evaluations' = evaluations + 1
    /\ seen' = {} /\ todo' = Agenda(g) /\ gone' = {}
    /\ pc' = "judging" /\ outcome' = "none"
    /\ UNCHANGED <<active, raised, fired, resolved>>

\* The end of an evaluation whose sink raised.
Abandon == /\ SinksMayRaise
           /\ pc' = "idle" /\ outcome' = "raised" /\ raised' = TRUE
           /\ todo' = <<>> /\ gone' = {}

\* _emit returned: on to the next rule; or a sink raised out of it.
NextRule == todo' = Tail(todo) /\ UNCHANGED <<pc, outcome, raised, gone>>
Judged == NextRule \/ Abandon

Judging == pc = "judging" /\ todo # <<>>
Reading == Value(reference, graph, Head(todo))
RuleAtHand == Head(todo)[1]

\* Mistaken form of JudgeFires: the alert is not put on the active list.
JudgeFiresForgetting ==
    /\ Judging /\ Head(todo) \notin active /\ Breached(RuleAtHand, Reading)
    /\ seen' = seen \cup {Head(todo)}
    /\ fired' = [fired EXCEPT ![Head(todo)] = @ + 1]
    /\ Judged
    /\ UNCHANGED <<reference, graph, active, evaluations, resolved>>

\* _judge, alert off and threshold crossed.
JudgeFires ==
    /\ Judging /\ Head(todo) \notin active /\ Breached(RuleAtHand, Reading)
    /\ active' = active \cup {Head(todo)}
    /\ seen' = seen \cup {Head(todo)}
    /\ fired' = [fired EXCEPT ![Head(todo)] = @ + 1]
    /\ Judged
    /\ UNCHANGED <<reference, graph, evaluations, resolved>>

\* Mistaken form of JudgeResolves: the alert stays on the active list.
JudgeResolvesKeeping ==
    /\ Judging /\ Head(todo) \in active /\ Cleared(RuleAtHand, Reading)
    /\ resolved' = [resolved EXCEPT ![Head(todo)] = @ + 1]
    /\ Judged
    /\ UNCHANGED <<reference, graph, active, seen, evaluations, fired>>

\* _judge, alert on and threshold cleared by the margin.
JudgeResolves ==
    /\ Judging /\ Head(todo) \in active /\ Cleared(RuleAtHand, Reading)
    /\ active' = active \ {Head(todo)}
    /\ resolved' = [resolved EXCEPT ![Head(todo)] = @ + 1]
    /\ Judged
    /\ UNCHANGED <<reference, graph, seen, evaluations, fired>>

\* Mistaken form of JudgeHolds: the alert is not marked as seen.
JudgeHoldsUnseen ==
    /\ Judging /\ Head(todo) \in active /\ ~Cleared(RuleAtHand, Reading)
    /\ NextRule
    /\ UNCHANGED <<reference, graph, active, seen, evaluations, fired, resolved>>

\* _judge, alert on and threshold not cleared: silence.
JudgeHolds ==
    /\ Judging /\ Head(todo) \in active /\ ~Cleared(RuleAtHand, Reading)
    /\ seen' = seen \cup {Head(todo)}
    /\ NextRule
    /\ UNCHANGED <<reference, graph, active, evaluations, fired, resolved>>

\* _judge, alert off and threshold not crossed.
JudgePasses ==
    /\ Judging /\ Head(todo) \notin active /\ ~Breached(RuleAtHand, Reading)
    /\ NextRule
    /\ UNCHANGED <<reference, graph, active, seen, evaluations, fired, resolved>>

\* The alerts nobody saw in this evaluation are listed for removal.
CollectGone ==
    /\ pc = "judging" /\ todo = <<>>
    /\ pc' = "removing" /\ gone' = active \ seen
    /\ UNCHANGED <<reference, graph, active, seen, todo, outcome, evaluations, raised,
                   fired, resolved>>

\* One of them is resolved.  The alert is emitted before it leaves the active
\* list, so a sink that raises leaves it there.  The order of the dict is left
\* out: any of them may come first.
RemoveGone(k) ==
    /\ pc = "removing" /\ k \in gone
    /\ resolved' = [resolved EXCEPT ![k] = @ + 1]
    /\ \/ /\ active' = active \ {k} /\ gone' = gone \ {k}
          /\ UNCHANGED <<pc, outcome, raised, todo>>
       \/ /\ Abandon /\ UNCHANGED active
    /\ UNCHANGED <<reference, graph, seen, evaluations, fired>>

\* evaluate returns the alerts it produced.
EndEvaluation ==
    /\ pc = "removing" /\ gone = {}
    /\ pc' = "idle" /\ outcome' = "ok"
    /\ UNCHANGED <<reference, graph, active, seen, todo, gone, evaluations, raised,
                   fired, resolved>>

AlertsNext == \/ \E g \in Graphs : Evaluate(g)
        \/ JudgeFires \/ JudgeResolves \/ JudgeHolds \/ JudgePasses
        \/ CollectGone \/ (\E k \in gone : RemoveGone(k)) \/ EndEvaluation

AlertsSpec == AlertsInit /\ [][AlertsNext]_alertVars

-----------------------------------------------------------------------------
\* The state in range; only evaluations under way have work left.
AlertsTypeOK ==
    /\ active \subseteq Key /\ seen \subseteq active /\ gone \subseteq active
    /\ todo \in Seq(Key)
    /\ pc \in {"idle", "judging", "removing"}
    /\ outcome \in {"none", "ok", "raised"}
    /\ pc = "idle" => todo = <<>> /\ gone = {}
    /\ evaluations \in Nat
    /\ fired \in [Key -> Nat] /\ resolved \in [Key -> Nat]

\* "One fired on crossing, silence while breached, one resolved": for each
\* (rule, scope) the alerts alternate, beginning with fired, as long as no sink
\* has raised.
Alternates(k) == fired[k] - resolved[k] \in {0, 1}
EdgeTriggered == ~raised => \A k \in Key : Alternates(k)

\* The outage alerts (state rules) alternate even when sinks raise in the
\* middle of an evaluation.
OutagesAlternate == \A k \in Key : k[2] = State => Alternates(k)

\* The active list says which alerts are on: exactly those whose latest alert
\* is a fired one, as long as no sink has raised.
ActiveIsLatest == ~raised => \A k \in Key : k \in active <=> fired[k] = resolved[k] + 1

\* After an evaluation that returned, the active list fits the graph: whatever
\* it breaches is on, and what is on was judged and has not cleared.
Verdict ==
    pc = "idle" /\ outcome = "ok" =>
        /\ \A k \in Range(Agenda(graph)) :
              Breached(k[1], Value(reference, graph, k)) => k \in active
        /\ \A k \in active : /\ k \in Range(Agenda(graph))
                             /\ ~Cleared(k[1], Value(reference, graph, k))

\* An alert is resolved only when its value has recovered past the threshold
\* by the margin or its scope has disappeared from the graph.
ScopeGone(k) == k[2] # State /\ k[2] \notin DOMAIN graph.sweep
Recovered(k) ==
    LET value == Value(reference, graph, k)
    IN  CASE k[1].op = "lt" -> value >= k[1].threshold + k[1].margin
          [] k[1].op = "is_false" -> value = TRUE
          [] OTHER -> Cleared(k[1], value)
ResolvedForAReason ==
    [][\A k \in Key : resolved'[k] # resolved[k] => ScopeGone(k) \/ Recovered(k)]_alertVars

-----------------------------------------------------------------------------
\* What the theorems ask of the rules and the cut-off.  The margins let no reading
\* breach a rule and clear it.
MarginsKeepApart == \A g \in Graphs : \A k \in Range(Agenda(g)) : k[1].margin >= 0

\* What an evaluation of g judges when the sweep is not cut off: the state rules,
\* and with the sweep on every sweep rule in every scenario of g.
Due(g) == {k \in Key : IF k[2] = State THEN k[1].scope = "state"
                       ELSE Sweep /\ k[1].scope = "sweep" /\ k[2] \in DOMAIN g.sweep}
NothingCutOff == \A g \in Graphs : Range(Agenda(g)) = Due(g)
=============================================================================
