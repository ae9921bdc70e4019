--------------------------- MODULE CausalDiscovery ---------------------------
(***************************************************************************)
(* Time-series PC (dependency/causal_discovery.py): which nodes' earlier   *)
(* activity explains the activity of a target, found by tests of           *)
(* conditional independence.  One search is for one target: the loop over  *)
(* the targets shares nothing but counters, which are left out.            *)
(*                                                                         *)
(* A possible parent is an index into labels, the pairs of a node and a    *)
(* lag.  The numbers (partial correlations and Fisher's z) are abstracted  *)
(* to what a test says; a world gives the outcome of every test:           *)
(*   labels, target    the possible parents, and the node they may explain *)
(*   flat, constant    the target, the possible parents that never vary    *)
(*   sample            rows of the matrix                                  *)
(*   undefined         tests <<parent, condition set>> that cannot be      *)
(*                     done: the set is redundant or explains everything   *)
(*   independent       tests whose p-value is above alpha                  *)
(*   alone, given      rank of a parent's correlation without and with a   *)
(*                     condition set, if a test finds it dependent         *)
(*   causes            the true parents, Unknown if the tests follow none  *)
(***************************************************************************)
EXTENDS Integers, Sequences, FiniteSets, FiniteSetsExt, Functions

CONSTANTS Worlds,                   \* the data a search may be given
          MaxConditionSet,          \* size of the largest condition sets tried
          MaxConditionCandidates    \* how many others they are taken from

ASSUME DiscoveryAssumption ==
    /\ MaxConditionSet \in Nat \ {0}
    /\ MaxConditionCandidates \in Nat \ {0}

VARIABLES
    world,      \* the data
    search      \* the search: phase, size of the condition sets; alive,
                \* parent -> strength; frozen, alive when the size was begun;
                \* todo, parents still to test; removed; progressed; edges,
                \* what it reports

discovery == <<world, search>>

Unknown == {0}      \* no index is 0

Possible(w) == DOMAIN w.labels

\* fisher_z_p_value is 1, "no evidence", once there are too few rows.
TestOf(w, x, Z) ==
    IF <<x, Z>> \in w.undefined THEN "undefined"
    ELSE IF w.sample - Cardinality(Z) - 3 <= 0 \/ <<x, Z>> \in w.independent THEN "independent"
    ELSE "dependent"

\* What the data of a search always is.
IsWorld(w) ==
    /\ Possible(w) \subseteq Nat \ {0} /\ IsFiniteSet(Possible(w))
    /\ w.alone \in [Possible(w) -> Nat] /\ w.given \in [Possible(w) -> Nat]

\* Data whose true parents are known meets the assumptions of the method
\* (causal sufficiency, faithfulness): no test makes a cause independent, and
\* given all the causes every other possible parent is.
FollowsCauses(w) ==
    /\ ~w.flat
    /\ w.causes \subseteq Possible(w) \ w.constant
    /\ \A x \in Possible(w) : \A Z \in SUBSET (Possible(w) \ {x}) :
          Cardinality(Z) <= MaxConditionCandidates =>
             /\ x \in w.causes => TestOf(w, x, Z) # "independent"
             /\ x \notin w.causes /\ w.causes \subseteq Z => TestOf(w, x, Z) = "independent"

ASSUME WorldsAssumption ==
    \A w \in Worlds : IsWorld(w) /\ (w.causes # Unknown => FollowsCauses(w))

Strength(w, x, Z) == IF Z = {} THEN w.alone[x] ELSE w.given[x]

\* sorted(..., key=lambda j: (-strength, j))[:max_condition_candidates]
Rivals(strength, x) ==
    LET others == DOMAIN strength \ {x}
        Stronger(j) == {i \in others : \/ strength[i] > strength[j]
                                       \/ strength[i] = strength[j] /\ i < j}
    IN  {j \in others : Cardinality(Stronger(j)) < MaxConditionCandidates}

\* What is tested without conditions: what cannot be tested stays.
Screened(w) ==
    LET kept == {x \in Possible(w) \ w.constant : TestOf(w, x, {}) # "independent"}
    IN  IF w.flat THEN <<>>
        ELSE [x \in kept |-> IF TestOf(w, x, {}) = "dependent" THEN w.alone[x] ELSE 0]

\* The best lag of every source; a target's own past explains, but is no edge.
Edges(w, alive) ==
    LET Source(x) == w.labels[x][1]
        Beaten(x) == \E y \in DOMAIN alive :
                        /\ Source(y) = Source(x)
                        /\ alive[y] > alive[x] \/ (alive[y] = alive[x] /\ y < x)
    IN  {x \in DOMAIN alive : Source(x) # w.target /\ ~Beaten(x)}

-----------------------------------------------------------------------------

\* A size is begun: the strengths its condition sets are chosen by are frozen.
Begun(size, alive) ==
    [phase |-> IF size <= MaxConditionSet THEN "condition" ELSE "retest",
     size |-> size, alive |-> alive, frozen |-> alive, todo |-> DOMAIN alive,
     removed |-> {}, progressed |-> FALSE, edges |-> {}]

\* Discovery begins with what passes the test without conditions.
DiscoveryInit ==
    /\ world \in Worlds
    /\ search = Begun(1, Screened(world))

NoDiscovery ==
    /\ world = {}
    /\ search = [Begun(1, <<>>) EXCEPT !.phase = "idle"]

\* Mistaken form of ConditionSets: chosen among what is left by now.
ConditionSetsOfAlive(s, x) ==
    kSubset(s.size, Rivals(Restrict(s.alive, {x} \cup (DOMAIN s.alive \ s.removed)), x))

\* combinations(others, size)
ConditionSets(s, x) == kSubset(s.size, Rivals(s.frozen, x))

\* The code takes the parents by index; here they come in any order.
TestParent(x) ==
    LET sets     == ConditionSets(search, x)
        Told(t)  == \E Z \in sets : TestOf(world, x, Z) = t
    IN  /\ search.phase = "condition"
        /\ x \in search.todo
        /\ search' = [search EXCEPT
               !.todo = @ \ {x},
               !.progressed = @ \/ sets # {},
               !.removed = IF Told("independent") THEN @ \cup {x} ELSE @,
               !.alive[x] = IF Told("dependent") /\ ~Told("independent") THEN world.given[x] ELSE @]
        /\ UNCHANGED world

\* The removed ones go, and a larger size is tried if this one found a set.
EndSize ==
    LET alive == Restrict(search.alive, DOMAIN search.alive \ search.removed)
    IN  /\ search.phase = "condition"
        /\ search.todo = {}
        /\ search' = IF search.progressed THEN Begun(search.size + 1, alive)
                     ELSE Begun(MaxConditionSet + 1, alive)
        /\ UNCHANGED world

\* The final pass: each survivor given its strongest fellow survivors.
Retest(x) ==
    LET others == Rivals(search.frozen, x)
        told   == TestOf(world, x, others)
    IN  /\ search.phase = "retest"
        /\ x \in search.todo
        /\ search' = [search EXCEPT
               !.todo = @ \ {x},
               !.removed = IF told = "independent" THEN @ \cup {x} ELSE @,
               !.alive[x] = IF told = "dependent" THEN Strength(world, x, others) ELSE @]
        /\ UNCHANGED world

Report ==
    LET alive == Restrict(search.alive, DOMAIN search.alive \ search.removed)
    IN  /\ search.phase = "retest"
        /\ search.todo = {}
        /\ search' = [search EXCEPT !.phase = "done", !.alive = alive, !.removed = {},
                                    !.edges = Edges(world, alive)]
        /\ UNCHANGED world

DiscoveryNext ==
    \/ \E x \in search.todo : TestParent(x) \/ Retest(x)
    \/ EndSize \/ Report

-----------------------------------------------------------------------------
(* What a search promises.                                                  *)

\* PC-stable as a function: what is left after every size up to s.
StableAfter(w) ==
    LET after[s \in 0..MaxConditionSet] ==
          IF s = 0 THEN Screened(w)
          ELSE LET before  == after[s - 1]
                   Sets(x) == kSubset(s, Rivals(before, x))
                   left    == {x \in DOMAIN before :
                                 \A Z \in Sets(x) : TestOf(w, x, Z) # "independent"}
               IN  [x \in left |->
                      IF \E Z \in Sets(x) : TestOf(w, x, Z) = "dependent" THEN w.given[x] ELSE before[x]]
    IN  after

Stable(w) ==
    LET survivors == StableAfter(w)[MaxConditionSet]
    IN  {x \in DOMAIN survivors : TestOf(w, x, Rivals(survivors, x)) # "independent"}

Parents == DOMAIN search.alive

Sources(w, X) == {w.labels[x][1] : x \in X} \ {w.target}

\* Whatever the order in which the possible parents of a size are tested, the
\* same are found ("so the result does not depend on iteration order"); what
\* is dropped was dropped by a test that was done, never by an undefined one;
\* every node with a surviving lag is reported once; and when the tests follow
\* a causal graph all true parents are found, and another one survives only
\* if a true one was not among the strongest it was last tested against.
\* (_discover_parents, discover_from_series.)
DiscoveryIsRight ==
    search.phase = "done" =>
    /\ Parents = Stable(world)
    /\ \A x \in Possible(world) \ (world.constant \cup Parents) :
          \/ world.flat
          \/ \E Z \in SUBSET (Possible(world) \ {x}) : TestOf(world, x, Z) = "independent"
    /\ Sources(world, search.edges) = Sources(world, Parents)
    /\ Cardinality(search.edges) = Cardinality(Sources(world, Parents))
    /\ world.causes # Unknown =>
          /\ world.causes \subseteq Parents
          /\ \A x \in Parents \ world.causes :
                ~(world.causes \subseteq Rivals(search.frozen, x))
=============================================================================
