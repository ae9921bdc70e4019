----------------------------- MODULE CausalWorlds -----------------------------
(***************************************************************************)
(* Data for CausalDiscovery: series that follow a causal graph, where a    *)
(* test says independent exactly when the graph separates the two (the     *)
(* faithfulness the method assumes), and data that follow none: copies of  *)
(* each other, constant series, tests that are undefined, too few rows.    *)
(***************************************************************************)
EXTENDS CausalDiscovery

Now == 4            \* the slice of the target; the slices before are 0..Now - 1
Effect == 3         \* the target
Labels == <<<<1, 1>>, <<1, 2>>, <<2, 1>>, <<2, 2>>, <<3, 1>>, <<3, 2>>>>

\* A link <<s, t, k>> says that s moves t k buckets later: pairs of an effect
\* and a cause of it.
Because(links) ==
    UNION {{<<<<l[2], n>>, <<l[1], n - l[3]>>>> : n \in l[3]..Now} : l \in links}

RECURSIVE Reach(_, _)
Reach(S, pairs) ==
    LET next == {p[2] : p \in {q \in pairs : q[1] \in S}}
    IN  IF next \subseteq S THEN S ELSE Reach(S \cup next, pairs)

\* d-separation: Z cuts x from y in the moral graph of their ancestors.
Separated(because, x, y, Z) ==
    LET A      == Reach({x, y} \cup Z, because)
        within == {p \in because : p[1] \in A}
        moral  == within \cup {<<p[2], p[1]>> : p \in within}
                  \cup {<<p[1][2], p[2][2]>> : p \in {q \in within \X within : q[1][1] = q[2][1]}}
    IN  y \notin Reach({x}, {p \in moral : p[2] \notin Z})

Vertex(x) == <<Labels[x][1], Now - Labels[x][2]>>

\* The tests a search may do on n possible parents.
Tests(n) ==
    {t \in (1..n) \X UNION {kSubset(k, 1..n) : k \in 0..MaxConditionCandidates} : t[1] \notin t[2]}

World(n, target, independent, rank) ==
    [labels |-> [x \in 1..n |-> Labels[x]], target |-> target, flat |-> FALSE, constant |-> {},
     sample |-> 100, undefined |-> {}, independent |-> independent, alone |-> rank, given |-> rank,
     causes |-> Unknown]

Ranks == {[x \in 1..6 |-> x], [x \in 1..6 |-> 7 - x], [x \in 1..6 |-> 1 + ((x + 2) % 6)]}

FaithfulWorlds(links) ==
    LET because == Because(links)
        told   == {t \in Tests(6) :
                      Separated(because, Vertex(t[1]), <<Effect, Now>>, {Vertex(z) : z \in t[2]})}
        causes == {x \in 1..6 : <<Labels[x][1], Effect, Labels[x][2]>> \in links}
    IN  {[World(6, Effect, w[1], w[2]) EXCEPT !.causes = causes] : w \in {told} \X Ranks}

CausalGraphs == {
    {<<1, 2, 1>>, <<2, 3, 1>>},                                                 \* chain
    {<<1, 2, 1>>, <<1, 3, 2>>, <<1, 1, 1>>},                                    \* common cause
    {<<1, 1, 1>>, <<2, 2, 1>>, <<3, 3, 1>>, <<1, 2, 1>>, <<2, 3, 1>>},          \* with inertia
    {<<1, 3, 1>>, <<2, 3, 1>>, <<3, 1, 1>>, <<1, 1, 2>>},                       \* feedback
    {<<1, 3, 1>>, <<1, 3, 2>>, <<2, 3, 2>>, <<1, 2, 1>>}}                       \* two lags

\* Up to two tests find independence: among them the copies that explain each
\* other away.
OddWorlds ==
    LET pairs == {t \in Tests(4) : Cardinality(t[2]) = 1 /\ t[1] < 4}
        few   == {{s, t} : s, t \in pairs} \cup {{}}
        plain == {World(5, 2, i, [x \in 1..5 |-> IF x < 4 THEN 1 ELSE 2]) : i \in few}
    IN  plain
        \cup {[w EXCEPT !.constant = {4}] : w \in plain}
        \cup {[w EXCEPT !.sample = 5] : w \in plain}
        \cup {[w EXCEPT !.undefined = {<<1, {}>>, <<1, {2}>>, <<2, {1}>>}] : w \in plain}
        \cup {[w EXCEPT !.flat = TRUE] : w \in plain}

MCWorlds == OddWorlds \cup UNION {FaithfulWorlds(links) : links \in CausalGraphs}
=============================================================================
