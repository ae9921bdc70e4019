--------------------- MODULE ResilienceMonitoringProofs ---------------------
(***************************************************************************)
(* Theorems about the monitor and its daemon, for all rules, topologies,   *)
(* cut-offs, intervals and numbers of notifications.  First each component *)
(* by itself: the alerts alternate and the active list is exact while no   *)
(* sink raises; every notification is accounted for, and an idle daemon    *)
(* has evaluated the latest twin unless an object came back.  Then their   *)
(* composition, every step of which is a step of each component or leaves  *)
(* it alone, so that it inherits these theorems.                           *)
(***************************************************************************)
EXTENDS ResilienceMonitoring, TLAPS

\* What is listed for removal is on, and only while removing.
GoneIsActive == /\ gone \subseteq active
                /\ pc # "removing" => gone = {}
Counted == fired \in [Key -> Nat] /\ resolved \in [Key -> Nat]

\* The inductive invariant.
Latest == Counted /\ GoneIsActive /\ EdgeTriggered /\ ActiveIsLatest

\* Counting one alert more on k leaves the counts of the other keys alone.
LEMMA OneMore ==
    ASSUME NEW S, NEW f \in [S -> Nat], NEW k
    PROVE  /\ [f EXCEPT ![k] = @ + 1] \in [S -> Nat]
           /\ \A x \in S : [f EXCEPT ![k] = @ + 1][x] = IF x = k THEN f[x] + 1 ELSE f[x]
<1> DEFINE h == [f EXCEPT ![k] = @ + 1]
<1>1. \A x \in S : h[x] = IF x = k THEN f[x] + 1 ELSE f[x]
  OBVIOUS
<1>2. \A x \in S : h[x] \in Nat
  BY <1>1
<1>3. h = [x \in S |-> h[x]]
  BY Zenon
<1> HIDE DEF h
<1>4. h \in [S -> Nat]
  BY <1>2, <1>3
<1> QED BY <1>1, <1>4 DEF h

LEMMA LatestHolds == AlertsSpec => []Latest
<1>1. AlertsInit => Latest
  BY DEF AlertsInit, Latest, Counted, GoneIsActive, EdgeTriggered, Alternates, ActiveIsLatest
<1>2. Latest /\ [AlertsNext]_alertVars => Latest'
  <2> SUFFICES ASSUME Latest, [AlertsNext]_alertVars PROVE Latest'
    OBVIOUS
  <2> USE DEF Latest, Counted, GoneIsActive, EdgeTriggered, Alternates, ActiveIsLatest
  <2>1. ASSUME NEW g \in Graphs, Evaluate(g) PROVE Latest'
    BY <2>1 DEF Evaluate
  <2>2. CASE JudgeFires
    <3> DEFINE k == Head(todo)
    <3>1. /\ k \notin active /\ active' = active \cup {k}
          /\ fired' = [fired EXCEPT ![k] = @ + 1] /\ resolved' = resolved
          /\ gone' = {} /\ pc' # "removing" /\ (~raised' => ~raised)
      BY <2>2 DEF JudgeFires, Judging, Judged, NextRule, Abandon
    <3> HIDE DEF k
    <3>2. /\ fired' \in [Key -> Nat]
          /\ \A x \in Key : fired'[x] = IF x = k THEN fired[x] + 1 ELSE fired[x]
      BY <3>1, OneMore
    <3>3. ~raised' => \A x \in Key : /\ x \in active' <=> fired'[x] = resolved'[x] + 1
                                     /\ fired'[x] - resolved'[x] \in {0, 1}
      BY <3>1, <3>2
    <3> QED BY <3>1, <3>2, <3>3
  <2>3. CASE JudgeResolves
    <3> DEFINE k == Head(todo)
    <3>1. /\ k \in active /\ active' = active \ {k}
          /\ resolved' = [resolved EXCEPT ![k] = @ + 1] /\ fired' = fired
          /\ gone' = {} /\ pc' # "removing" /\ (~raised' => ~raised)
      BY <2>3 DEF JudgeResolves, Judging, Judged, NextRule, Abandon
    <3> HIDE DEF k
    <3>2. /\ resolved' \in [Key -> Nat]
          /\ \A x \in Key : resolved'[x] = IF x = k THEN resolved[x] + 1 ELSE resolved[x]
      BY <3>1, OneMore
    <3>3. ~raised' => \A x \in Key : /\ x \in active' <=> fired'[x] = resolved'[x] + 1
                                     /\ fired'[x] - resolved'[x] \in {0, 1}
      BY <3>1, <3>2
    <3> QED BY <3>1, <3>2, <3>3
  <2>4. CASE JudgeHolds
    BY <2>4 DEF JudgeHolds, Judging, NextRule
  <2>5. CASE JudgePasses
    BY <2>5 DEF JudgePasses, Judging, NextRule
  <2>6. CASE CollectGone
    BY <2>6 DEF CollectGone
  <2>7. ASSUME NEW k \in gone, RemoveGone(k) PROVE Latest'
    <3>1. k \in active /\ resolved' = [resolved EXCEPT ![k] = @ + 1] /\ fired' = fired
      BY <2>7 DEF RemoveGone
    <3>2. /\ resolved' \in [Key -> Nat]
          /\ \A x \in Key : resolved'[x] = IF x = k THEN resolved[x] + 1 ELSE resolved[x]
      BY <3>1, OneMore
    <3>3. CASE active' = active \ {k} /\ gone' = gone \ {k} /\ raised' = raised /\ pc' = pc
      <4>1. ~raised' => \A x \in Key : /\ x \in active' <=> fired'[x] = resolved'[x] + 1
                                       /\ fired'[x] - resolved'[x] \in {0, 1}
        BY <3>1, <3>2, <3>3
      <4>2. gone' \subseteq active' /\ pc' = "removing"
        BY <2>7, <3>3 DEF RemoveGone
      <4> QED BY <3>1, <3>2, <4>1, <4>2
    <3>4. CASE raised' = TRUE /\ gone' = {}
      BY <3>1, <3>2, <3>4
    <3> QED BY <2>7, <3>3, <3>4 DEF RemoveGone, Abandon
  <2>8. CASE EndEvaluation
    BY <2>8 DEF EndEvaluation
  <2>9. CASE UNCHANGED alertVars
    BY <2>9 DEF alertVars
  <2> QED BY <2>1, <2>2, <2>3, <2>4, <2>5, <2>6, <2>7, <2>8, <2>9 DEF AlertsNext
<1> QED BY <1>1, <1>2, PTL DEF AlertsSpec

-----------------------------------------------------------------------------
(* The verdict of an evaluation.  While it judges, what it has seen is on, *)
(* was judged and has not cleared, and what it has judged and breaches is  *)
(* seen; while it removes, what is on and not listed for removal is what   *)
(* was seen.  A judged alert that is breached must not be cleared by the   *)
(* same reading, which a negative margin would allow.                      *)

Unjudged == Range(todo)
Tells(k) == Breached(k[1], Value(reference, graph, k))
Clears(k) == Cleared(k[1], Value(reference, graph, k))

\* What an evaluation under way knows when only the pairs in rest are left.
SeenIsRight(rest) ==
    /\ reference \in Graphs /\ graph \in Graphs
    /\ seen \subseteq active /\ seen \subseteq Range(Agenda(graph))
    /\ \A k \in seen : ~Clears(k)
    /\ \A k \in Range(Agenda(graph)) : Tells(k) /\ k \notin rest => k \in seen

\* The inductive invariant.
VerdictInv ==
    /\ reference \in Graphs \cup {None}
    /\ pc = "judging" => /\ todo \in Seq(Key) /\ Unjudged \subseteq Range(Agenda(graph))
                         /\ SeenIsRight(Unjudged)
    /\ pc = "removing" => active \ gone = seen /\ SeenIsRight({})
    /\ pc \in {"idle", "judging", "removing"}
    /\ Verdict

\* No reading both breaches a rule and clears it.
LEMMA BreachedIsNotCleared ==
    ASSUME MarginsKeepApart, NEW g \in Graphs, NEW ref \in Graphs, NEW k \in Range(Agenda(g)),
           Breached(k[1], Value(ref, g, k))
    PROVE  ~Cleared(k[1], Value(ref, g, k))
<1> DEFINE value == Value(ref, g, k)
           rule  == k[1]
<1>1. rule.op \in {"lt", "gt"} =>
        value \in Int /\ rule.threshold \in Int /\ rule.margin \in Int /\ rule.margin >= 0
  BY AgendaAssumption DEF MarginsKeepApart
<1> HIDE DEF value, rule
<1>2. Breached(rule, value)
  BY DEF value, rule
<1>3. ~Cleared(rule, value)
  BY <1>1, <1>2 DEF Breached, Cleared
<1> QED BY <1>3 DEF value, rule

\* The pair at the head of a nonempty sequence, and the rest.
LEMMA HeadAndRest ==
    ASSUME NEW S, NEW q \in Seq(S), q # <<>>
    PROVE  /\ Tail(q) \in Seq(S) /\ Head(q) \in Range(q)
           /\ Range(q) = {Head(q)} \cup Range(Tail(q))
<1>1. /\ Len(q) \in Nat \ {0} /\ DOMAIN q = 1..Len(q) /\ Head(q) = q[1]
      /\ Tail(q) \in Seq(S) /\ Len(Tail(q)) = Len(q) - 1 /\ DOMAIN Tail(q) = 1..(Len(q) - 1)
      /\ \A i \in 1..(Len(q) - 1) : Tail(q)[i] = q[i + 1]
  OBVIOUS
<1>2. \A i \in 1..Len(q) : i = 1 \/ (i - 1 \in 1..(Len(q) - 1) /\ (i - 1) + 1 = i)
  BY <1>1
<1>3. Range(q) \subseteq {Head(q)} \cup Range(Tail(q))
  <2> SUFFICES ASSUME NEW i \in 1..Len(q), i # 1 PROVE q[i] \in Range(Tail(q))
    BY <1>1 DEF Range
  <2>1. i - 1 \in DOMAIN Tail(q) /\ Tail(q)[i - 1] = q[i]
    BY <1>1, <1>2
  <2> QED BY <2>1 DEF Range
<1>4. {Head(q)} \cup Range(Tail(q)) \subseteq Range(q)
  <2>1. 1 \in 1..Len(q) /\ \A i \in 1..(Len(q) - 1) : i + 1 \in 1..Len(q)
    BY <1>1
  <2> QED BY <1>1, <2>1 DEF Range
<1> QED BY <1>1, <1>3, <1>4

\* One rule judged: the pair at the head is told by what the rule said.
LEMMA JudgingKeeps ==
    ASSUME MarginsKeepApart, VerdictInv, JudgeFires \/ JudgeResolves \/ JudgeHolds \/ JudgePasses
    PROVE  VerdictInv'
<1>1. PICK k : k = Head(todo)
  OBVIOUS
<1>2. /\ pc = "judging" /\ todo # <<>> /\ todo \in Seq(Key) /\ Unjudged \subseteq Range(Agenda(graph))
      /\ SeenIsRight(Unjudged) /\ UNCHANGED <<reference, graph>>
  BY DEF JudgeFires, JudgeResolves, JudgeHolds, JudgePasses, Judging, VerdictInv
<1>3. PICK rest : /\ rest = Range(Tail(todo)) /\ Tail(todo) \in Seq(Key)
                  /\ k \in Range(Agenda(graph)) /\ Unjudged = {k} \cup rest
  BY <1>1, <1>2, HeadAndRest DEF Unjudged
<1>4. Tells(k) => ~Clears(k)
  BY <1>2, <1>3, BreachedIsNotCleared DEF Tells, Clears, SeenIsRight
<1>5. CASE Abandon
  <2>1. pc' = "idle" /\ outcome' = "raised"
    BY <1>5 DEF Abandon
  <2> QED BY <1>2, <2>1 DEF VerdictInv, Verdict
<1>6. CASE NextRule
  <2>1. todo' = Tail(todo) /\ pc' = "judging" /\ Unjudged' = rest
    BY <1>2, <1>3, <1>6 DEF NextRule, Unjudged
  <2>2. /\ seen' \subseteq active' /\ seen \subseteq seen' /\ seen' \subseteq seen \cup {k}
        /\ k \in seen' => k \in seen \/ ~Clears(k)
        /\ Tells(k) => k \in seen'
    <3>1. CASE JudgeFires
      <4>1. /\ active' = active \cup {k} /\ seen' = seen \cup {k} /\ Tells(k)
        BY <1>1, <3>1 DEF JudgeFires, Reading, RuleAtHand, Tells
      <4> QED BY <1>2, <1>4, <4>1 DEF SeenIsRight
    <3>2. CASE JudgeResolves
      <4>1. /\ active' = active \ {k} /\ seen' = seen /\ Clears(k)
        BY <1>1, <3>2 DEF JudgeResolves, Reading, RuleAtHand, Clears
      <4> QED BY <1>2, <1>4, <4>1 DEF SeenIsRight
    <3>3. CASE JudgeHolds
      <4>1. /\ k \in active /\ active' = active /\ seen' = seen \cup {k} /\ ~Clears(k)
        BY <1>1, <3>3 DEF JudgeHolds, Reading, RuleAtHand, Clears
      <4> QED BY <1>2, <4>1 DEF SeenIsRight
    <3>4. CASE JudgePasses
      <4>1. /\ active' = active /\ seen' = seen /\ ~Tells(k)
        BY <1>1, <3>4 DEF JudgePasses, Reading, RuleAtHand, Tells
      <4> QED BY <1>2, <4>1 DEF SeenIsRight
    <3> QED BY <3>1, <3>2, <3>3, <3>4
  <2>3. \A x : (Tells(x) <=> Tells(x)') /\ (Clears(x) <=> Clears(x)')
    BY <1>2 DEF Tells, Clears
  <2>4. SeenIsRight(rest)'
    <3>1. seen' \subseteq Range(Agenda(graph')) /\ reference' \in Graphs /\ graph' \in Graphs
      BY <1>2, <1>3, <2>2 DEF SeenIsRight
    <3>2. \A x \in seen' : ~Clears(x)
      BY <1>2, <2>2 DEF SeenIsRight
    <3>3. \A x \in Range(Agenda(graph)) : Tells(x) /\ x \notin rest => x \in seen'
      BY <1>2, <1>3, <2>2 DEF SeenIsRight
    <3> QED BY <1>2, <2>1, <2>2, <2>3, <3>1, <3>2, <3>3 DEF SeenIsRight
  <2> QED BY <1>2, <1>3, <2>1, <2>4 DEF VerdictInv, Verdict
<1> QED
  BY <1>5, <1>6 DEF JudgeFires, JudgeResolves, JudgeHolds, JudgePasses, Judged

LEMMA VerdictHolds ==
    ASSUME MarginsKeepApart
    PROVE  AlertsSpec => []VerdictInv
<1>1. AlertsInit => VerdictInv
  BY DEF AlertsInit, VerdictInv, Verdict
<1>2. VerdictInv /\ GoneIsActive /\ [AlertsNext]_alertVars => VerdictInv'
  <2> SUFFICES ASSUME VerdictInv, GoneIsActive, [AlertsNext]_alertVars PROVE VerdictInv'
    OBVIOUS
  <2>1. ASSUME NEW g \in Graphs, Evaluate(g) PROVE VerdictInv'
    <3>1. /\ pc' = "judging" /\ graph' = g /\ reference' \in Graphs /\ seen' = {}
          /\ todo' = Agenda(g) /\ Unjudged' = Range(Agenda(g)) /\ todo' \in Seq(Key)
      BY <2>1, AgendaAssumption DEF Evaluate, VerdictInv, Unjudged
    <3>2. \A x \in Range(Agenda(graph')) : x \in Unjudged'
      BY <3>1
    <3> QED BY <3>1, <3>2 DEF VerdictInv, SeenIsRight, Verdict
  <2>2. CASE JudgeFires \/ JudgeResolves \/ JudgeHolds \/ JudgePasses
    BY <2>2, JudgingKeeps
  <2>3. CASE CollectGone
    <3>1. /\ pc = "judging" /\ todo = <<>> /\ pc' = "removing" /\ gone' = active \ seen
          /\ UNCHANGED <<reference, graph, active, seen>>
      BY <2>3 DEF CollectGone
    <3>2. SeenIsRight(Unjudged) /\ Unjudged = {}
      BY <3>1 DEF VerdictInv, Unjudged, Range
    <3>3. SeenIsRight({}) /\ SeenIsRight({})'
      BY <3>1, <3>2 DEF SeenIsRight, Tells, Clears
    <3>4. active' \ gone' = seen'
      BY <3>1, <3>3 DEF SeenIsRight
    <3> QED BY <3>1, <3>3, <3>4 DEF VerdictInv, Verdict
  <2>4. ASSUME NEW k \in gone, RemoveGone(k) PROVE VerdictInv'
    <3>1. /\ pc = "removing" /\ active \ gone = seen /\ SeenIsRight({})
          /\ UNCHANGED <<reference, graph, seen>>
      BY <2>4 DEF RemoveGone, VerdictInv
    <3>2. CASE active' = active \ {k} /\ gone' = gone \ {k} /\ pc' = pc
      <4>1. active' \ gone' = seen'
        BY <3>1, <3>2
      <4>2. seen' \subseteq active'
        BY <4>1
      <4>3. SeenIsRight({})'
        BY <3>1, <4>2 DEF SeenIsRight, Tells, Clears
      <4> QED BY <3>1, <3>2, <4>1, <4>3 DEF VerdictInv, Verdict
    <3>3. CASE Abandon
      <4>1. pc' = "idle" /\ outcome' = "raised"
        BY <3>3 DEF Abandon
      <4> QED BY <3>1, <4>1 DEF VerdictInv, Verdict
    <3> QED BY <2>4, <3>2, <3>3 DEF RemoveGone
  <2>5. CASE EndEvaluation
    <3>1. /\ pc' = "idle" /\ active = seen /\ SeenIsRight({})
          /\ UNCHANGED <<reference, graph, active, seen>>
      BY <2>5 DEF EndEvaluation, VerdictInv
    <3>2. Verdict'
      BY <3>1 DEF Verdict, SeenIsRight, Tells, Clears
    <3> QED BY <3>1, <3>2 DEF VerdictInv
  <2>6. CASE UNCHANGED alertVars
    BY <2>6 DEF alertVars, VerdictInv, SeenIsRight, Tells, Clears, Unjudged, Verdict
  <2> QED BY <2>1, <2>2, <2>3, <2>4, <2>5, <2>6 DEF AlertsNext
<1>3. Latest => GoneIsActive
  BY DEF Latest
<1> QED BY <1>1, <1>2, <1>3, LatestHolds, PTL DEF AlertsSpec

-----------------------------------------------------------------------------
(* Why an alert is resolved.  The sweep must not be cut off: a scenario    *)
(* pushed past the cut-off is resolved as if it had disappeared.           *)

\* The inductive invariant: what is on was due once; what has been judged and is
\* still on is seen, so that nothing that is due is listed for removal.
ReasonInv ==
    /\ graph \in Graphs \cup {None} /\ reference \in Graphs \cup {None}
    /\ active \subseteq UNION {Due(g) : g \in Graphs}
    /\ pc = "judging" =>
          /\ reference \in Graphs /\ graph \in Graphs
          /\ todo \in Seq(Key) /\ Unjudged \subseteq Due(graph)
          /\ \A k \in Due(graph) : k \in active /\ k \notin Unjudged => k \in seen
    /\ pc = "removing" => graph \in Graphs /\ gone \cap Due(graph) = {}

\* One rule judged: the pair at the head is off, seen, or left by a sink that raised.
LEMMA JudgingKeepsReasons ==
    ASSUME ReasonInv, JudgeFires \/ JudgeResolves \/ JudgeHolds \/ JudgePasses
    PROVE  ReasonInv'
<1>1. PICK k : k = Head(todo)
  OBVIOUS
<1>2. /\ pc = "judging" /\ todo # <<>> /\ todo \in Seq(Key) /\ Unjudged \subseteq Due(graph)
      /\ graph \in Graphs /\ reference \in Graphs /\ UNCHANGED <<reference, graph>>
      /\ \A x \in Due(graph) : x \in active /\ x \notin Unjudged => x \in seen
  BY DEF JudgeFires, JudgeResolves, JudgeHolds, JudgePasses, Judging, ReasonInv
<1>3. PICK rest : /\ rest = Range(Tail(todo)) /\ Tail(todo) \in Seq(Key)
                  /\ Unjudged = {k} \cup rest
  BY <1>1, <1>2, HeadAndRest DEF Unjudged
<1>4. /\ active' \subseteq active \cup {k} /\ seen \subseteq seen'
      /\ k \in active' => k \in seen'
  BY <1>1 DEF JudgeFires, JudgeResolves, JudgeHolds, JudgePasses
<1>5. active' \subseteq UNION {Due(g) : g \in Graphs}
  BY <1>2, <1>3, <1>4 DEF ReasonInv
<1>6. CASE Abandon
  <2>1. pc' = "idle"
    BY <1>6 DEF Abandon
  <2> QED BY <1>2, <1>5, <2>1 DEF ReasonInv
<1>7. CASE NextRule
  <2>1. todo' = Tail(todo) /\ pc' = "judging" /\ Unjudged' = rest
    BY <1>2, <1>3, <1>7 DEF NextRule, Unjudged
  <2>2. \A x \in Due(graph) : x \in active' /\ x \notin rest => x \in seen'
    BY <1>2, <1>3, <1>4
  <2> QED BY <1>2, <1>3, <1>5, <2>1, <2>2 DEF ReasonInv
<1> QED
  BY <1>6, <1>7 DEF JudgeFires, JudgeResolves, JudgeHolds, JudgePasses, Judged

LEMMA ReasonsHold ==
    ASSUME NothingCutOff
    PROVE  AlertsSpec => []ReasonInv
<1>1. AlertsInit => ReasonInv
  BY DEF AlertsInit, ReasonInv
<1>2. ReasonInv /\ [AlertsNext]_alertVars => ReasonInv'
  <2> SUFFICES ASSUME ReasonInv, [AlertsNext]_alertVars PROVE ReasonInv'
    OBVIOUS
  <2>1. ASSUME NEW g \in Graphs, Evaluate(g) PROVE ReasonInv'
    <3>1. /\ pc' = "judging" /\ graph' = g /\ reference' \in Graphs /\ active' = active
          /\ Unjudged' = Due(g) /\ todo' \in Seq(Key)
      BY <2>1, AgendaAssumption DEF Evaluate, ReasonInv, Unjudged, NothingCutOff
    <3> QED BY <3>1 DEF ReasonInv
  <2>2. CASE JudgeFires \/ JudgeResolves \/ JudgeHolds \/ JudgePasses
    BY <2>2, JudgingKeepsReasons
  <2>3. CASE CollectGone
    <3>1. /\ pc = "judging" /\ todo = <<>> /\ pc' = "removing" /\ gone' = active \ seen
          /\ UNCHANGED <<reference, graph, active>>
      BY <2>3 DEF CollectGone
    <3>2. Unjudged = {}
      BY <3>1 DEF Unjudged, Range
    <3> QED BY <3>1, <3>2 DEF ReasonInv
  <2>4. ASSUME NEW k \in gone, RemoveGone(k) PROVE ReasonInv'
    <3>1. /\ pc = "removing" /\ active' \subseteq active /\ gone' \subseteq gone
          /\ pc' \in {"idle", "removing"} /\ UNCHANGED <<reference, graph>>
      BY <2>4 DEF RemoveGone, Abandon
    <3> QED BY <3>1 DEF ReasonInv
  <2>5. CASE EndEvaluation
    BY <2>5 DEF EndEvaluation, ReasonInv
  <2>6. CASE UNCHANGED alertVars
    BY <2>6 DEF alertVars, ReasonInv, Unjudged
  <2> QED BY <2>1, <2>2, <2>3, <2>4, <2>5, <2>6 DEF AlertsNext
<1> QED BY <1>1, <1>2, PTL DEF AlertsSpec

\* A rule that clears in its margin says that its value has recovered.
LEMMA ClearedIsRecovered ==
    ASSUME NEW k, graph \in Graphs, reference \in Graphs, k \in Range(Agenda(graph)), Clears(k)
    PROVE  Recovered(k)
<1> DEFINE value == Value(reference, graph, k)
           rule  == k[1]
<1>1. rule.op = "is_false" => value \in BOOLEAN
  BY AgendaAssumption
<1>2. Cleared(rule, value)
  BY DEF Clears
<1>3. Recovered(k) <=> CASE rule.op = "lt" -> value >= rule.threshold + rule.margin
                         [] rule.op = "is_false" -> value = TRUE
                         [] OTHER -> Cleared(rule, value)
  BY DEF Recovered
<1> HIDE DEF value, rule
<1>4. CASE rule.op = "lt"
  BY <1>2, <1>3, <1>4 DEF Cleared
<1>5. CASE rule.op = "is_false"
  <2>1. ~(value = FALSE)
    BY <1>2, <1>5 DEF Cleared, Breached
  <2>2. value = TRUE
    BY <1>1, <1>5, <2>1
  <2> QED BY <1>3, <1>5, <2>2
<1>6. CASE rule.op \notin {"lt", "is_false"}
  BY <1>2, <1>3, <1>6
<1> QED BY <1>4, <1>5, <1>6

-----------------------------------------------------------------------------
USE MonitorDaemonAssumption

\* The state stays in range and the worker holds a twin exactly while it works on one.
LEMMA DaemonTyping == DaemonSpec => []DaemonTypeOK
<1>1. ASSUME DaemonInit PROVE DaemonTypeOK
  <2>1. ~busy /\ worker \notin {"spacing", "evaluating", "finishing"}
    BY <1>1 DEF DaemonInit, busy
  <2>2. since \in 0..MinInterval /\ quiet \in 0..MinInterval /\ calls \in 0..MaxNotifies
    BY <1>1 DEF DaemonInit
  <2> QED BY <1>1, <2>1, <2>2 DEF DaemonInit, DaemonTypeOK
<1>2. DaemonTypeOK /\ [DaemonNext]_daemonVars => DaemonTypeOK'
  <2> SUFFICES ASSUME DaemonTypeOK, [DaemonNext]_daemonVars PROVE DaemonTypeOK'
    OBVIOUS
  <2>1. CASE Start
    BY <2>1 DEF DaemonTypeOK, busy, Start, accounts
  <2>2. CASE Stop
    BY <2>2 DEF DaemonTypeOK, busy, Stop, accounts
  <2>3. ASSUME NEW t \in Twins, NotifyUnchanged(t) PROVE DaemonTypeOK'
    BY <2>3 DEF DaemonTypeOK, busy, NotifyUnchanged, Handing
  <2>4. ASSUME NEW t \in Twins, NotifyPends(t) PROVE DaemonTypeOK'
    BY <2>4 DEF DaemonTypeOK, busy, NotifyPends, Handing, Count
  <2>5. CASE Take
    BY <2>5 DEF DaemonTypeOK, busy, Take, accounts
  <2>6. CASE Exit
    BY <2>6 DEF DaemonTypeOK, busy, Exit, accounts
  <2>7. CASE Begin
    BY <2>7 DEF DaemonTypeOK, busy, Begin, accounts
  <2>8. CASE EvaluateReturns
    BY <2>8 DEF DaemonTypeOK, busy, EvaluateReturns, accounts
  <2>9. CASE EvaluateRaises
    BY <2>9 DEF DaemonTypeOK, busy, EvaluateRaises, accounts
  <2>10. CASE Finish
    BY <2>10 DEF DaemonTypeOK, busy, Finish, accounts
  <2>11. CASE Tick
    BY <2>11 DEF DaemonTypeOK, busy, Tick, accounts
  <2>12. CASE UNCHANGED daemonVars
    BY <2>12 DEF DaemonTypeOK, busy, daemonVars
  <2> QED BY <2>1, <2>2, <2>3, <2>4, <2>5, <2>6, <2>7, <2>8, <2>9, <2>10, <2>11, <2>12
          DEF DaemonNext, Notify, Worker
<1> QED BY <1>1, <1>2, PTL DEF DaemonSpec

\* Every notify call is accounted for exactly once, whatever is superseded, fails or stops.
LEMMA DaemonAccounts == DaemonSpec => []NotifiesAccounted
<1>1. DaemonInit => NotifiesAccounted
  BY DEF DaemonInit, NotifiesAccounted, Count
<1>2. DaemonTypeOK /\ NotifiesAccounted /\ [DaemonNext]_daemonVars => NotifiesAccounted'
  <2> SUFFICES ASSUME DaemonTypeOK, NotifiesAccounted, [DaemonNext]_daemonVars PROVE NotifiesAccounted'
    OBVIOUS
  <2> USE DEF DaemonTypeOK, NotifiesAccounted, Count
  <2>1. CASE Start
    BY <2>1 DEF Start, accounts
  <2>2. CASE Stop
    BY <2>2 DEF Stop, accounts
  <2>3. ASSUME NEW t \in Twins, NotifyUnchanged(t) PROVE NotifiesAccounted'
    BY <2>3 DEF NotifyUnchanged, Handing
  <2>4. ASSUME NEW t \in Twins, NotifyPends(t) PROVE NotifiesAccounted'
    BY <2>4 DEF NotifyPends, Handing
  <2>5. CASE Take
    BY <2>5 DEF Take, accounts
  <2>6. CASE Exit
    BY <2>6 DEF Exit, accounts
  <2>7. CASE Begin
    BY <2>7 DEF Begin, accounts
  <2>8. CASE EvaluateReturns
    BY <2>8 DEF EvaluateReturns, accounts
  <2>9. CASE EvaluateRaises
    BY <2>9 DEF EvaluateRaises, accounts
  <2>10. CASE Finish
    BY <2>10 DEF Finish, accounts
  <2>11. CASE Tick
    BY <2>11 DEF Tick, accounts
  <2>12. CASE UNCHANGED daemonVars
    BY <2>12 DEF daemonVars
  <2> QED BY <2>1, <2>2, <2>3, <2>4, <2>5, <2>6, <2>7, <2>8, <2>9, <2>10, <2>11, <2>12
          DEF DaemonNext, Notify, Worker
<1> QED BY <1>1, <1>2, DaemonTyping, PTL DEF DaemonSpec

-----------------------------------------------------------------------------
\* The latest twin is the one furthest behind in the pipeline from the mailbox
\* through the worker to _last, and everything in the pipeline was handed over.
Furthest == IF pending # NoTwin THEN pending ELSE IF busy THEN current ELSE last
Pipeline == /\ ~repeated => latest = Furthest
            /\ {pending, current, last} \subseteq handed \cup {NoTwin}

\* Unless an object is handed over twice, a monitor that reports to be idle has
\* evaluated the latest twin.
LEMMA DaemonIdleMeansLatest == DaemonSpec => []FreshIdleMeansLatest
<1>1. DaemonInit => Pipeline
  BY DEF DaemonInit, Pipeline, Furthest, busy
<1>2. DaemonTypeOK /\ Pipeline /\ [DaemonNext]_daemonVars => Pipeline'
  <2> SUFFICES ASSUME DaemonTypeOK, Pipeline, [DaemonNext]_daemonVars PROVE Pipeline'
    OBVIOUS
  <2> USE DEF Pipeline, Furthest, busy
  <2>1. CASE Start
    BY <2>1 DEF Start, accounts
  <2>2. CASE Stop
    BY <2>2 DEF Stop, accounts
  <2>3. ASSUME NEW t \in Twins, NotifyUnchanged(t) PROVE Pipeline'
    BY <2>3 DEF NotifyUnchanged, Handing
  <2>4. ASSUME NEW t \in Twins, NotifyPends(t) PROVE Pipeline'
    BY <2>4 DEF NotifyPends, Handing
  <2>5. CASE Take
    BY <2>5 DEF Take, accounts
  <2>6. CASE Exit
    BY <2>6 DEF Exit, accounts
  <2>7. CASE Begin
    BY <2>7 DEF Begin, accounts
  <2>8. CASE EvaluateReturns
    BY <2>8 DEF EvaluateReturns, accounts
  <2>9. CASE EvaluateRaises
    BY <2>9 DEF EvaluateRaises, accounts
  <2>10. CASE Finish
    BY <2>10 DEF Finish, accounts, DaemonTypeOK
  <2>11. CASE Tick
    BY <2>11 DEF Tick, accounts
  <2>12. CASE UNCHANGED daemonVars
    BY <2>12 DEF daemonVars
  <2> QED BY <2>1, <2>2, <2>3, <2>4, <2>5, <2>6, <2>7, <2>8, <2>9, <2>10, <2>11, <2>12
          DEF DaemonNext, Notify, Worker
<1>3. Pipeline => FreshIdleMeansLatest
  BY DEF Pipeline, Furthest, FreshIdleMeansLatest, IdleMeansLatest
<1> QED BY <1>1, <1>2, <1>3, DaemonTyping, PTL DEF DaemonSpec

-----------------------------------------------------------------------------
\* Every step of the composition is a step of the daemon or leaves it alone.
LEMMA ComposedDaemon == Spec => DaemonSpec
<1>1. [Next]_vars => [DaemonNext]_daemonVars
  BY DEF Next, vars, Outside, BeginEvaluation, EvaluationStep, FinishEvaluation,
         DaemonNext, Worker
<1> QED BY <1>1, PTL DEF Spec, Init, DaemonSpec

\* And of the alert rules: what is evaluated is the topology of a twin.
LEMMA ComposedAlerts == Spec => AlertsSpec
<1>1. DaemonTypeOK /\ [Next]_vars => [AlertsNext]_alertVars
  <2> SUFFICES ASSUME DaemonTypeOK, Next PROVE [AlertsNext]_alertVars
    BY DEF vars
  <2>1. CASE Outside
    BY <2>1 DEF Outside
  <2>2. CASE BeginEvaluation
    <3>1. current \in Twins
      BY <2>2 DEF BeginEvaluation, Begin, DaemonTypeOK, busy
    <3>2. Topology[current] \in Graphs
      BY <3>1, TopologyAssumption
    <3> QED BY <2>2, <3>2 DEF BeginEvaluation, AlertsNext
  <2>3. CASE EvaluationStep
    BY <2>3 DEF EvaluationStep, AlertsNext
  <2>4. CASE FinishEvaluation
    BY <2>4 DEF FinishEvaluation, AlertsNext
  <2> QED BY <2>1, <2>2, <2>3, <2>4 DEF Next
<1> QED BY <1>1, ComposedDaemon, DaemonTyping, PTL DEF Spec, Init, AlertsSpec

\* For each (rule, scope) the alerts alternate, beginning with fired, while no
\* sink has raised: one alert on crossing, silence, one on clearing.
THEOREM MonitoringEdgeTriggered == Spec => []EdgeTriggered
<1>1. Latest => EdgeTriggered
  BY DEF Latest
<1> QED BY <1>1, LatestHolds, ComposedAlerts, PTL

\* The active list holds exactly the alerts whose latest one is a fired one,
\* while no sink has raised.
THEOREM MonitoringActiveIsLatest == Spec => []ActiveIsLatest
<1>1. Latest => ActiveIsLatest
  BY DEF Latest
<1> QED BY <1>1, LatestHolds, ComposedAlerts, PTL

\* Every notify call is accounted for exactly once, whatever is superseded, fails
\* or stops.
THEOREM MonitoringNotifiesAccounted == Spec => []NotifiesAccounted
BY DaemonAccounts, ComposedDaemon, PTL

\* Unless an object was handed over twice, wait_idle returns True only when the
\* latest twin has been evaluated.
THEOREM MonitoringIdleMeansLatest == Spec => []FreshIdleMeansLatest
BY DaemonIdleMeansLatest, ComposedDaemon, PTL

\* The graph of the monitor is that of the twin the worker evaluates, and once it
\* has finished that of the twin in _last.
GraphIsOfTwin ==
    /\ worker \in {"evaluating", "finishing"} => graph = Topology[current]
    /\ worker \notin {"evaluating", "finishing"} /\ last # NoTwin => graph = Topology[last]

LEMMA GraphFollowsTwin == Spec => []GraphIsOfTwin
<1>1. Init => GraphIsOfTwin
  BY DEF Init, DaemonInit, GraphIsOfTwin
<1>2. GraphIsOfTwin /\ [Next]_vars => GraphIsOfTwin'
  <2> SUFFICES ASSUME GraphIsOfTwin, [Next]_vars PROVE GraphIsOfTwin'
    OBVIOUS
  <2> USE DEF GraphIsOfTwin
  <2>1. CASE Outside
    <3>1. UNCHANGED graph
      BY <2>1 DEF Outside, alertVars
    <3>2. CASE Take \/ Exit \/ Finish
      BY <3>1, <3>2 DEF Take, Exit, Finish
    <3>3. CASE Start \/ Stop \/ (\E t \in Twins : Notify(t)) \/ Tick
      <4>1. /\ last' = last /\ current' = current
            /\ worker' = worker \/ (worker = "none" /\ worker' = "waiting")
        BY <3>3 DEF Start, Stop, Notify, NotifyUnchanged, NotifyPends, Tick
      <4> QED BY <3>1, <4>1
    <3> QED BY <2>1, <3>2, <3>3 DEF Outside
  <2>2. CASE BeginEvaluation
    BY <2>2 DEF BeginEvaluation, Begin, Evaluate
  <2>3. CASE EvaluationStep
    <3>1. UNCHANGED graph
      BY <2>3 DEF EvaluationStep, JudgeFires, JudgeResolves, JudgeHolds, JudgePasses, CollectGone, RemoveGone
    <3>2. UNCHANGED daemonVars \/ EvaluateRaises
      BY <2>3 DEF EvaluationStep
    <3> QED BY <3>1, <3>2 DEF daemonVars, EvaluateRaises
  <2>4. CASE FinishEvaluation
    BY <2>4 DEF FinishEvaluation, EndEvaluation, EvaluateReturns
  <2>5. CASE UNCHANGED vars
    BY <2>5 DEF vars, alertVars, daemonVars
  <2> QED BY <2>1, <2>2, <2>3, <2>4, <2>5 DEF Next
<1> QED BY <1>1, <1>2, PTL DEF Spec

\* When wait_idle returns True, no object came back and the latest evaluation
\* returned, the active alerts are exactly what the rules say of the topology of
\* the twin notified last: whatever it breaches is on, and what is on was judged
\* on it and has not cleared.
THEOREM MonitoringIdleVerdict ==
    ASSUME MarginsKeepApart
    PROVE  Spec => []IdleVerdict
<1>1. DaemonTypeOK /\ GraphIsOfTwin /\ FreshIdleMeansLatest /\ VerdictInv => IdleVerdict
  BY DEF DaemonTypeOK, GraphIsOfTwin, FreshIdleMeansLatest, IdleMeansLatest, VerdictInv, IdleVerdict
<1>2. AlertsSpec => []VerdictInv
  BY VerdictHolds
<1> QED
  BY <1>1, <1>2, ComposedAlerts, ComposedDaemon, DaemonTyping, GraphFollowsTwin,
     MonitoringIdleMeansLatest, PTL
\* With a sweep that is not cut off, an alert is resolved only when its value has
\* recovered past the threshold by the margin, or when its scope has disappeared
\* from the graph, whatever sinks raise in between.
THEOREM MonitoringResolvedForAReason ==
    ASSUME NothingCutOff
    PROVE  Spec => ResolvedForAReason
<1>1. ASSUME Latest, ReasonInv, NothingCutOff, [AlertsNext]_alertVars,
             NEW k \in Key, resolved'[k] # resolved[k]
      PROVE  ScopeGone(k) \/ Recovered(k)
  <2>1. CASE JudgeResolves
    <3>1. PICK h : h = Head(todo)
      OBVIOUS
    <3>2. /\ pc = "judging" /\ todo # <<>> /\ resolved' = [resolved EXCEPT ![h] = @ + 1]
          /\ Clears(h)
      BY <2>1, <3>1 DEF JudgeResolves, Judging, Reading, RuleAtHand, Clears
    <3>3. k = h
      BY <1>1, <3>2, OneMore DEF Latest, Counted
    <3>4. h \in Unjudged /\ graph \in Graphs /\ reference \in Graphs /\ Unjudged \subseteq Due(graph)
      BY <1>1, <3>1, <3>2, HeadAndRest DEF ReasonInv, Unjudged
    <3>5. h \in Range(Agenda(graph))
      BY <1>1, <3>4 DEF NothingCutOff
    <3> QED BY <3>2, <3>3, <3>4, <3>5, ClearedIsRecovered
  <2>2. ASSUME NEW h \in gone, RemoveGone(h) PROVE ScopeGone(k)
    <3>1. pc = "removing" /\ resolved' = [resolved EXCEPT ![h] = @ + 1]
      BY <2>2 DEF RemoveGone
    <3>2. k = h
      BY <1>1, <3>1, OneMore DEF Latest, Counted
    <3>3. k \in active /\ graph \in Graphs /\ k \notin Due(graph)
      BY <1>1, <2>2, <3>1, <3>2 DEF Latest, GoneIsActive, ReasonInv
    <3>4. PICK g \in Graphs : k \in Due(g)
      BY <1>1, <3>3 DEF ReasonInv
    <3> QED BY <3>3, <3>4 DEF Due, ScopeGone
  <2>3. ASSUME NEW g \in Graphs, Evaluate(g) PROVE FALSE
    BY <1>1, <2>3 DEF Evaluate
  <2>4. CASE JudgeFires \/ JudgeHolds \/ JudgePasses \/ CollectGone \/ EndEvaluation
    BY <1>1, <2>4 DEF JudgeFires, JudgeHolds, JudgePasses, CollectGone, EndEvaluation
  <2>5. CASE UNCHANGED alertVars
    BY <1>1, <2>5 DEF alertVars
  <2> QED BY <1>1, <2>1, <2>2, <2>3, <2>4, <2>5 DEF AlertsNext
<1>2. AlertsSpec => []ReasonInv
  BY ReasonsHold
<1>3. NothingCutOff /\ Latest /\ ReasonInv /\ [AlertsNext]_alertVars =>
        [\A k \in Key : resolved'[k] # resolved[k] => ScopeGone(k) \/ Recovered(k)]_alertVars
  BY <1>1
<1>4. Latest /\ ReasonInv /\ [AlertsNext]_alertVars =>
        [\A k \in Key : resolved'[k] # resolved[k] => ScopeGone(k) \/ Recovered(k)]_alertVars
  BY <1>3
<1> QED
  BY <1>2, <1>4, LatestHolds, ComposedAlerts, PTL DEF AlertsSpec, ResolvedForAReason
=============================================================================
