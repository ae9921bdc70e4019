---------------------------- MODULE PathEngineProofs ----------------------------
(* What the operators of PathEngine compute, for every finite graph: the    *)
(* components partition the nodes, the shortest path is the cheapest, what  *)
(* is sorted by counting the smaller ones is sorted.  The operators are     *)
(* recursive functions; each is shown to exist as a function on the natural *)
(* numbers first (Recursion), and what it computes follows by induction,    *)
(* which is stated for sets (Induction): a predicate P is {n \in Nat : P}.   *)
EXTENDS PathEngine, FiniteSetTheorems, WellFoundedInduction, TLAPS

\* A nonempty set of natural numbers has a least element.
LEMMA LeastElement ==
    ASSUME NEW T \in SUBSET Nat, T # {}
    PROVE  \E m \in T : \A n \in T : m <= n
<1>1. PICK R : R = OpToRel(<, Nat)
  BY Zenon
<1>2. IsWellFoundedOn(R, Nat)
  BY <1>1, NatLessThanWellFounded, Zenon
<1>3. \A x, y \in Nat : x < y => <<x, y>> \in R
  BY <1>1, Zenon DEF OpToRel
<1>4. PICK m \in T : \A n \in T : ~(<<n, m>> \in R)
  BY <1>2, WFMin, Zenon
<1>5. ASSUME NEW n \in T PROVE m <= n
  <2>1. m \in Nat /\ n \in Nat /\ ~(n < m)
    BY <1>3, <1>4
  <2> QED BY <2>1
<1> QED BY <1>5

\* Induction, over the set of the numbers that have a property.
LEMMA Induction ==
    ASSUME NEW T, 0 \in T, \A n \in Nat : n \in T => n + 1 \in T
    PROVE  \A n \in Nat : n \in T
<1> SUFFICES ASSUME Nat \ T # {} PROVE FALSE
  OBVIOUS
<1>1. PICK m \in Nat \ T : \A n \in Nat \ T : m <= n
  BY LeastElement
<1>2. m # 0 /\ m - 1 \in Nat /\ m - 1 \notin Nat \ T
  BY <1>1
<1> QED BY <1>1, <1>2

Solves(f, base, step) == f = [n \in Nat |-> IF n = 0 THEN base ELSE step[n][f[n - 1]]]

\* There is a function of the natural numbers for every recursion equation.
LEMMA Recursion ==
    ASSUME NEW S, NEW base \in S, NEW step \in [Nat -> [S -> S]]
    PROVE  \E f \in [Nat -> S] : Solves(f, base, step)
<1> DEFINE Upto(n, f) == f \in [0..n -> S] /\ f[0] = base /\ \A i \in 1..n : f[i] = step[i][f[i - 1]]
           T == {n \in Nat : \E f : Upto(n, f)}
<1>1. \A n \in Nat : \E f : Upto(n, f)
  <2>1. 0 \in T
    <3>1. Upto(0, [i \in 0..0 |-> base])
      OBVIOUS
    <3> QED BY <3>1
  <2>2. ASSUME NEW n \in Nat, n \in T PROVE n + 1 \in T
    <3>1. PICK f : Upto(n, f)
      BY <2>2
    <3>2. PICK g : g = [i \in 0..(n + 1) |-> IF i = n + 1 THEN step[n + 1][f[n]] ELSE f[i]]
      OBVIOUS
    <3>3. n + 1 # 0 /\ n \in 0..n /\ \A i \in 1..n : i \in 0..n /\ i - 1 \in 0..n /\ i # n + 1 /\ i - 1 # n + 1
      OBVIOUS
    <3>4. g \in [0..(n + 1) -> S]
      BY <3>1, <3>2, <3>3
    <3>5. g[0] = base
      BY <3>1, <3>2, <3>3
    <3>6. ASSUME NEW i \in 1..(n + 1) PROVE g[i] = step[i][g[i - 1]]
      BY <3>1, <3>2, <3>3
    <3> QED BY <3>4, <3>5, <3>6
  <2> HIDE DEF T
  <2>3. \A n \in Nat : n \in T
    BY <2>1, <2>2, Induction
  <2> QED BY <2>3 DEF T
<1> DEFINE U == {m \in Nat : \A n \in Nat : \A f, g : m <= n /\ Upto(m, f) /\ Upto(n, g) => f[m] = g[m]}
<1>2. \A m \in Nat : m \in U
  <2>1. 0 \in U
    OBVIOUS
  <2>2. ASSUME NEW m \in Nat, m \in U PROVE m + 1 \in U
    <3> HIDE DEF Upto
    <3> SUFFICES ASSUME NEW n \in Nat, NEW f, NEW g, m + 1 <= n, Upto(m + 1, f), Upto(n, g)
                 PROVE  f[m + 1] = g[m + 1]
      OBVIOUS
    <3> USE DEF Upto
    <3>1. PICK h : h = [i \in 0..m |-> f[i]]
      OBVIOUS
    <3>2. /\ 0 \in 0..m /\ m \in 0..m /\ m + 1 \in 1..n /\ m + 1 \in 1..(m + 1) /\ m <= n
          /\ \A i \in 1..m : i \in 0..m /\ i - 1 \in 0..m /\ i \in 1..(m + 1) /\ i \in 0..(m + 1)
      OBVIOUS
    <3>3. Upto(m, h)
      <4>1. \A i \in 0..m : h[i] = f[i] /\ f[i] \in S
        BY <3>1
      <4>2. \A i \in 1..m : h[i] = step[i][h[i - 1]]
        BY <3>2, <4>1
      <4>3. h \in [0..m -> S] /\ h[0] = base
        BY <3>1, <3>2, <4>1
      <4> QED BY <4>2, <4>3
    <3>4. h[m] = g[m]
      <4> HIDE DEF Upto
      <4> QED BY <2>2, <3>2, <3>3
    <3>5. h[m] = f[m] /\ f[m + 1] = step[m + 1][f[m]] /\ g[m + 1] = step[m + 1][g[m]]
      BY <3>1, <3>2
    <3> QED BY <3>4, <3>5
  <2> HIDE DEF U
  <2> QED BY <2>1, <2>2, Induction
<1>3. PICK F : F = [n \in Nat |-> CHOOSE f : Upto(n, f)]
  OBVIOUS
<1>4. \A n \in Nat : Upto(n, F[n])
  <2> HIDE DEF Upto
  <2> QED BY <1>1, <1>3
<1>5. PICK f : f = [n \in Nat |-> F[n][n]]
  OBVIOUS
<1>6. f \in [Nat -> S]
  <2>1. ASSUME NEW n \in Nat PROVE F[n][n] \in S
    BY <1>4
  <2> QED BY <1>5, <2>1
<1>7. ASSUME NEW n \in Nat \ {0} PROVE f[n] = step[n][f[n - 1]]
  <2>1. Upto(n, F[n]) /\ Upto(n - 1, F[n - 1]) /\ n - 1 \in Nat /\ n - 1 <= n /\ n \in 1..n
    BY <1>4
  <2>2. F[n][n] = step[n][F[n][n - 1]]
    BY <2>1
  <2>3. F[n - 1][n - 1] = F[n][n - 1]
    <3> HIDE DEF Upto
    <3> QED BY <1>2, <2>1
  <2> QED BY <1>5, <2>1, <2>2, <2>3
<1>8. f[0] = base
  <2>1. Upto(0, F[0])
    BY <1>4
  <2> QED BY <1>5, <2>1
<1>9. Solves(f, base, step)
  BY <1>6, <1>7, <1>8 DEF Solves
<1> QED BY <1>6, <1>9
-----------------------------------------------------------------------------
(* Connectivity. *)

Nearer(g, T) == T \cup UNION {Adjacent(g, n) : n \in T}

\* What Within computes step by step: the start itself, then one hop more.
LEMMA WithinEquation ==
    ASSUME NEW g, NEW S
    PROVE  /\ Within(g, S)[0] = S
           /\ \A d \in Nat : Within(g, S)[d + 1] = Nearer(g, Within(g, S)[d])
<1> DEFINE U == S \cup g.nodes
           Step == [d \in Nat |-> [T \in SUBSET U |-> Nearer(g, T)]]
           Eq(f) == f = [d \in Nat |-> IF d = 0 THEN S
                                       ELSE LET closer == f[d - 1]
                                            IN  closer \cup UNION {Adjacent(g, n) : n \in closer}]
<1>1. S \in SUBSET U
  OBVIOUS
<1>2. Step \in [Nat -> [SUBSET U -> SUBSET U]]
  BY DEF Nearer, Adjacent
<1>3. PICK f \in [Nat -> SUBSET U] : f = [d \in Nat |-> IF d = 0 THEN S ELSE Step[d][f[d - 1]]]
  <2> DEFINE V == SUBSET U
  <2>1. S \in V /\ Step \in [Nat -> [V -> V]]
    BY <1>1, <1>2
  <2> HIDE DEF V, Step
  <2>2. PICK h \in [Nat -> V] : Solves(h, S, Step)
    BY <2>1, Recursion
  <2> QED BY <2>2 DEF V, Solves
<1>4. \A d \in Nat \ {0} : f[d - 1] \in SUBSET U /\ Step[d][f[d - 1]] = Nearer(g, f[d - 1])
  OBVIOUS
<1>5. Eq(f)
  BY <1>3, <1>4 DEF Nearer
<1>6. Eq(Within(g, S))
  <2>1. Within(g, S) = CHOOSE h : Eq(h)
    BY DEF Within
  <2> HIDE DEF Eq
  <2> QED BY <1>5, <2>1
<1>7. Within(g, S)[0] = S
  BY <1>6
<1>8. ASSUME NEW d \in Nat PROVE Within(g, S)[d + 1] = Nearer(g, Within(g, S)[d])
  BY <1>6 DEF Nearer
<1> QED BY <1>7, <1>8

Closed(g, T) == \A n \in T, m \in g.nodes : {n, m} \in g.edges => m \in T

\* One more hop adds nodes of the graph that an edge joins to the set, all of them.
LEMMA NearerMembers ==
    ASSUME NEW g, NEW T
    PROVE  /\ T \subseteq Nearer(g, T) /\ Nearer(g, T) \subseteq T \cup g.nodes
           /\ \A x \in Nearer(g, T) \ T : \E n \in T : {n, x} \in g.edges
           /\ \A n \in T : \A x \in g.nodes : {n, x} \in g.edges => x \in Nearer(g, T)
<1>1. \A n, x : x \in Adjacent(g, n) <=> x \in g.nodes /\ {n, x} \in g.edges
  BY DEF Adjacent
<1>2. \A x : x \in Nearer(g, T) <=> x \in T \/ \E n \in T : x \in Adjacent(g, n)
  BY DEF Nearer
<1> QED BY <1>1, <1>2

\* A set is closed under edges exactly when one more hop adds nothing.
LEMMA NearerStops ==
    ASSUME NEW g, NEW T
    PROVE  Closed(g, T) <=> Nearer(g, T) = T
<1>1. ASSUME Closed(g, T) PROVE Nearer(g, T) = T
  <2>1. \A x \in Nearer(g, T) : x \in T
    BY <1>1, NearerMembers DEF Closed
  <2> QED BY <2>1, NearerMembers
<1>2. ASSUME Nearer(g, T) = T PROVE Closed(g, T)
  BY <1>2, NearerMembers DEF Closed
<1> QED BY <1>1, <1>2

\* The nodes within some hops are the start and nodes of the graph.
LEMMA WithinBounds ==
    ASSUME NEW g, NEW S, NEW d \in Nat
    PROVE  /\ Within(g, S)[d] \subseteq S \cup g.nodes
           /\ S \subseteq Within(g, S)[d]
<1> DEFINE P(W) == S \subseteq W /\ W \subseteq S \cup g.nodes
           T == {e \in Nat : P(Within(g, S)[e])}
<1>1. 0 \in T
  BY WithinEquation
<1>2. ASSUME NEW e \in Nat, e \in T PROVE e + 1 \in T
  <2>1. Within(g, S)[e + 1] = Nearer(g, Within(g, S)[e])
    BY WithinEquation
  <2> HIDE DEF T
  <2>2. S \subseteq Within(g, S)[e] /\ Within(g, S)[e] \subseteq S \cup g.nodes
    BY <1>2 DEF T
  <2> QED BY <2>1, <2>2, NearerMembers DEF T
<1> HIDE DEF T
<1>3. d \in T
  BY <1>1, <1>2, Induction
<1> QED BY <1>3 DEF T

\* A closed set around the start holds everything within any distance.
LEMMA WithinClosed ==
    ASSUME NEW g, NEW S, NEW T, S \subseteq T, Closed(g, T), NEW d \in Nat
    PROVE  Within(g, S)[d] \subseteq T
<1> DEFINE D == {e \in Nat : Within(g, S)[e] \subseteq T}
<1>1. 0 \in D
  BY WithinEquation
<1>2. ASSUME NEW e \in Nat, e \in D PROVE e + 1 \in D
  <2>1. Within(g, S)[e + 1] = Nearer(g, Within(g, S)[e])
    BY WithinEquation
  <2>2. Within(g, S)[e] \subseteq T
    BY <1>2
  <2>3. Nearer(g, Within(g, S)[e]) \subseteq T
    BY <2>2, NearerMembers DEF Closed
  <2> QED BY <2>1, <2>3
<1> HIDE DEF D
<1>3. d \in D
  BY <1>1, <1>2, Induction
<1> QED BY <1>3 DEF D

\* Distances stop growing: after as many steps as there are nodes, nothing
\* new is reached.
LEMMA WithinStops ==
    ASSUME NEW g, IsFiniteSet(g.nodes), NEW n \in g.nodes
    PROVE  Closed(g, ComponentOf(g, n))
<1> DEFINE W(d) == Within(g, {n})[d]
           N == Cardinality(g.nodes)
           D == {d \in Nat : Closed(g, W(d)) \/ Cardinality(W(d)) >= d + 1}
<1>1. \A d \in Nat : W(d) \subseteq g.nodes /\ n \in W(d) /\ W(d + 1) = Nearer(g, W(d))
  BY WithinBounds, WithinEquation
<1>2. \A d \in Nat : IsFiniteSet(W(d)) /\ Cardinality(W(d)) \in Nat /\ Cardinality(W(d)) <= N
  BY <1>1, FS_Subset, FS_CardinalityType
<1>3. N \in Nat
  BY FS_CardinalityType
<1>4. 0 \in D
  <2>1. W(0) = {n}
    BY WithinEquation
  <2> QED BY <2>1, FS_Singleton
<1>5. ASSUME NEW d \in Nat, d \in D PROVE d + 1 \in D
  <2> HIDE DEF W
  <2>1. CASE Closed(g, W(d))
    <3>1. W(d + 1) = W(d)
      BY <1>1, <2>1, NearerStops
    <3> QED BY <2>1, <3>1
  <2>2. CASE Cardinality(W(d)) >= d + 1 /\ ~Closed(g, W(d))
    <3>1. W(d) \subseteq W(d + 1) /\ W(d) # W(d + 1)
      BY <1>1, <2>2, NearerMembers, NearerStops
    <3>2. Cardinality(W(d)) < Cardinality(W(d + 1))
      BY <1>2, <3>1, FS_Subset
    <3> QED BY <1>2, <2>2, <3>2
  <2> QED BY <1>5, <2>1, <2>2
<1>6. N \in D
  <2> HIDE DEF D
  <2> QED BY <1>3, <1>4, <1>5, Induction
<1>7. Cardinality(W(N)) <= N
  BY <1>2, <1>3
<1>8. Closed(g, W(N))
  <2> HIDE DEF W
  <2> QED BY <1>2, <1>3, <1>6, <1>7
<1> QED BY <1>8 DEF ComponentOf

\* The component of a node (graph_connectivity of path_engine.py) is the least set
\* with it that no edge leaves.
LEMMA ComponentIsLeast ==
    ASSUME NEW g, IsFiniteSet(g.nodes), NEW n \in g.nodes
    PROVE  /\ n \in ComponentOf(g, n) /\ ComponentOf(g, n) \subseteq g.nodes
           /\ Closed(g, ComponentOf(g, n))
           /\ \A T : n \in T /\ Closed(g, T) => ComponentOf(g, n) \subseteq T
<1>1. Cardinality(g.nodes) \in Nat
  BY FS_CardinalityType
<1>2. ASSUME NEW T, n \in T, Closed(g, T) PROVE ComponentOf(g, n) \subseteq T
  BY <1>1, <1>2, WithinClosed DEF ComponentOf
<1>3. n \in ComponentOf(g, n) /\ ComponentOf(g, n) \subseteq g.nodes
  BY <1>1, WithinBounds DEF ComponentOf
<1> QED BY <1>2, <1>3, WithinStops

\* The components partition the nodes.
LEMMA ComponentsAgree ==
    ASSUME NEW g, IsFiniteSet(g.nodes), NEW n \in g.nodes, NEW m \in ComponentOf(g, n)
    PROVE  m \in g.nodes /\ ComponentOf(g, m) = ComponentOf(g, n)
<1>1. m \in g.nodes
  BY ComponentIsLeast
<1>2. ASSUME NEW x \in g.nodes, NEW y \in ComponentOf(g, x) PROVE ComponentOf(g, y) \subseteq ComponentOf(g, x)
  BY ComponentIsLeast
<1>3. n \in ComponentOf(g, m)
  <2> SUFFICES ASSUME n \notin ComponentOf(g, m) PROVE FALSE
    OBVIOUS
  <2> DEFINE T == g.nodes \ ComponentOf(g, m)
  <2>1. Closed(g, T)
    <3> SUFFICES ASSUME NEW x \in T, NEW y \in g.nodes, {x, y} \in g.edges, y \in ComponentOf(g, m)
                 PROVE  FALSE
      BY DEF Closed
    <3>1. {y, x} \in g.edges
      <4>1. {y, x} = {x, y}
        OBVIOUS
      <4> QED BY <4>1
    <3> QED BY <1>1, <3>1, ComponentIsLeast DEF Closed
  <2>2. ComponentOf(g, n) \subseteq T
    BY <2>1, ComponentIsLeast
  <2> QED BY <1>1, <2>2, ComponentIsLeast
<1> QED BY <1>1, <1>2, <1>3

\* The components partition the nodes of a graph.
LEMMA ComponentsPartition ==
    ASSUME NEW g, IsFiniteSet(g.nodes)
    PROVE  /\ UNION Components(g) = g.nodes
           /\ {} \notin Components(g)
           /\ \A C, D \in Components(g) : C \cap D # {} => C = D
           /\ \A C \in Components(g) : \A n \in C : n \in g.nodes /\ C = ComponentOf(g, n)
           /\ \A C \in Components(g) : Closed(g, C) /\ C \subseteq g.nodes /\ IsFiniteSet(C)
           /\ IsFiniteSet(Components(g))
<1>1. \A C \in Components(g) : \A n \in C : n \in g.nodes /\ C = ComponentOf(g, n)
  BY ComponentsAgree DEF Components
<1>2. \A n \in g.nodes : n \in ComponentOf(g, n) /\ ComponentOf(g, n) \subseteq g.nodes
  BY ComponentIsLeast
<1>3. \A C \in Components(g) : Closed(g, C) /\ C \subseteq g.nodes /\ IsFiniteSet(C) /\ C # {}
  BY ComponentIsLeast, FS_Subset DEF Components
<1>4. UNION Components(g) = g.nodes
  BY <1>2 DEF Components
<1>5. Components(g) \subseteq SUBSET g.nodes
  BY <1>3
<1>6. IsFiniteSet(Components(g))
  BY <1>5, FS_SUBSET, FS_Subset
<1> QED BY <1>1, <1>3, <1>4, <1>6

\* With fewer nodes and edges the components only get smaller.
LEMMA ComponentsShrink ==
    ASSUME NEW g, NEW h, IsFiniteSet(g.nodes), h.nodes \subseteq g.nodes, h.edges \subseteq g.edges,
           NEW n \in h.nodes
    PROVE  ComponentOf(h, n) \subseteq ComponentOf(g, n)
<1>1. IsFiniteSet(h.nodes)
  BY FS_Subset
<1>2. n \in ComponentOf(g, n) /\ Closed(g, ComponentOf(g, n))
  BY ComponentIsLeast
<1>3. Closed(h, ComponentOf(g, n))
  BY <1>2 DEF Closed
<1> QED BY <1>1, <1>2, <1>3, ComponentIsLeast

\* Costs do not matter for connectivity.
LEMMA SameEdgesSameComponents ==
    ASSUME NEW g, NEW h, IsFiniteSet(g.nodes), h.nodes = g.nodes, h.edges = g.edges
    PROVE  Components(h) = Components(g) /\ Connectivity(h) = Connectivity(g)
<1>1. \A n \in g.nodes : ComponentOf(h, n) = ComponentOf(g, n)
  <2>1. \A n \in g.nodes : ComponentOf(h, n) \subseteq ComponentOf(g, n)
    BY ComponentsShrink
  <2>2. \A n \in g.nodes : ComponentOf(g, n) \subseteq ComponentOf(h, n)
    BY ComponentsShrink
  <2> QED BY <2>1, <2>2
<1>2. Components(h) = Components(g)
  BY <1>1 DEF Components
<1> QED BY <1>2 DEF Connectivity

-----------------------------------------------------------------------------
(* The least element, the largest component. *)

\* The minimum of a nonempty set of natural numbers is its least element.
LEMMA MinOfNaturals ==
    ASSUME NEW S \in SUBSET Nat, S # {}
    PROVE  Min(S) \in S /\ \A y \in S : Min(S) <= y
<1>1. \E x \in S : \A y \in S : x <= y
  BY LeastElement
<1> QED BY <1>1, Zenon DEF Min

\* Among finitely many finite sets of numbers there is one that the engine's tie
\* break, by size and then by least member, takes as the largest.
LEMMA LargestExists ==
    ASSUME NEW K, IsFiniteSet(K), K # {},
           \A C \in K : C # {} /\ C \in SUBSET Nat /\ IsFiniteSet(C)
    PROVE  \E C \in K : IsLargest(C, K)
<1> DEFINE B == Cardinality(UNION K)
           Short == {B - Cardinality(C) : C \in K}
<1>1. B \in Nat /\ \A C \in K : Cardinality(C) \in Nat /\ Cardinality(C) <= B
  <2>1. IsFiniteSet(UNION K)
    BY FS_UNION
  <2>2. \A C \in K : C \in SUBSET (UNION K)
    OBVIOUS
  <2> QED BY <2>1, <2>2, FS_Subset, FS_CardinalityType
<1>2. Short \in SUBSET Nat /\ Short # {}
  <2> HIDE DEF B
  <2>1. \A C \in K : B - Cardinality(C) \in Nat
    BY <1>1
  <2> QED BY <2>1
<1>3. PICK k \in Short : \A j \in Short : k <= j
  BY <1>2, LeastElement
<1>4. PICK M \in K : k = B - Cardinality(M)
  OBVIOUS
<1>5. \A D \in K : Cardinality(D) <= Cardinality(M)
  <2>1. \A D \in K : B - Cardinality(D) \in Short
    OBVIOUS
  <2>2. \A D \in K : k <= B - Cardinality(D)
    BY <1>3, <2>1
  <2> HIDE DEF B, Short
  <2> QED BY <1>1, <1>4, <2>2
<1> DEFINE Big == {C \in K : Cardinality(C) = Cardinality(M)}
           Firsts == {Min(C) : C \in Big}
<1>6. \A C \in K : Min(C) \in C /\ Min(C) \in Nat
  BY MinOfNaturals
<1>7. PICK m \in Firsts : \A j \in Firsts : m <= j
  <2>1. Firsts \in SUBSET Nat /\ Firsts # {}
    BY <1>6
  <2> HIDE DEF Firsts
  <2> QED BY <2>1, LeastElement
<1>8. PICK C \in Big : m = Min(C)
  OBVIOUS
<1>9. ASSUME NEW D \in K
      PROVE  \/ Cardinality(C) > Cardinality(D)
             \/ Cardinality(C) = Cardinality(D) /\ Min(C) <= Min(D)
  <2>1. CASE Cardinality(D) = Cardinality(M)
    BY <1>7, <1>8, <2>1
  <2>2. CASE Cardinality(D) # Cardinality(M)
    BY <1>1, <1>5, <1>8, <2>2
  <2> QED BY <2>1, <2>2
<1> QED BY <1>9 DEF IsLargest

\* The largest component is a component of the graph, and the largest; none without
\* nodes.
LEMMA LargestComponent ==
    ASSUME NEW g, IsFiniteSet(g.nodes), g.nodes \in SUBSET Nat
    PROVE  /\ g.nodes = {} => Connectivity(g).largest = {}
           /\ g.nodes # {} => /\ Connectivity(g).largest \in Components(g)
                              /\ IsLargest(Connectivity(g).largest, Components(g))
           /\ Connectivity(g).largest \subseteq g.nodes
           /\ IsFiniteSet(Connectivity(g).largest)
           /\ Connectivity(g).components = Components(g)
<1>1. Components(g) = {} <=> g.nodes = {}
  BY ComponentsPartition
<1>2. ASSUME g.nodes # {} PROVE \E C \in Components(g) : IsLargest(C, Components(g))
  <2> DEFINE K == Components(g)
  <2>1. IsFiniteSet(K) /\ K # {} /\ \A C \in K : C # {} /\ C \in SUBSET Nat /\ IsFiniteSet(C)
    <3>1. IsFiniteSet(K) /\ K # {} /\ {} \notin K
      BY <1>1, <1>2, ComponentsPartition
    <3>2. \A C \in K : C \subseteq g.nodes /\ IsFiniteSet(C)
      BY ComponentsPartition
    <3> HIDE DEF K
    <3> QED BY <3>1, <3>2
  <2> HIDE DEF K
  <2>2. \E C \in K : IsLargest(C, K)
    BY <2>1, LargestExists
  <2> QED BY <2>2 DEF K
<1>3. /\ Connectivity(g).components = Components(g)
      /\ Connectivity(g).largest = IF Components(g) = {} THEN {}
                                   ELSE CHOOSE C \in Components(g) : IsLargest(C, Components(g))
  BY DEF Connectivity
<1>4. CASE g.nodes = {}
  BY <1>1, <1>3, <1>4, FS_EmptySet
<1>5. CASE g.nodes # {}
  <2>1. /\ Connectivity(g).largest \in Components(g)
        /\ IsLargest(Connectivity(g).largest, Components(g))
    BY <1>1, <1>2, <1>3, <1>5, Zenon
  <2> QED BY <1>3, <1>5, <2>1, ComponentsPartition
<1> QED BY <1>4, <1>5

-----------------------------------------------------------------------------
(* Paths. *)

\* A simple path of g that starts at s.
IsTrail(g, p, s) ==
    /\ p \in Seq(g.nodes) /\ Len(p) >= 1 /\ p[1] = s
    /\ \A i \in 1..(Len(p) - 1) : {p[i], p[i + 1]} \in g.edges
    /\ \A i, j \in 1..Len(p) : p[i] = p[j] => i = j

IsPath(g, p, s, t) == IsTrail(g, p, s) /\ p[Len(p)] = t

Longer(g, T) == UNION {{Append(p, m) : m \in Adjacent(g, Last(p)) \ ToSet(p)} : p \in T}

\* A path of one node.
LEMMA SingletonPath ==
    ASSUME NEW S, NEW s \in S
    PROVE  <<s>> \in Seq(S) /\ Len(<<s>>) = 1 /\ <<s>>[1] = s
OBVIOUS

\* A path of two nodes.
LEMMA PairPath ==
    ASSUME NEW S, NEW s \in S, NEW t \in S
    PROVE  /\ <<s, t>> \in Seq(S) /\ Len(<<s, t>>) = 2
           /\ <<s, t>>[1] = s /\ <<s, t>>[2] = t
OBVIOUS

Lengthens(g, p, m, q) ==
    {p[Len(p)], m} \in g.edges /\ m \notin ToSet(p) /\ q = Append(p, m)

\* A longer trail comes from a shorter one by a hop to a new node.
LEMMA LongerFrom ==
    ASSUME NEW g, NEW T, NEW q \in Longer(g, T)
    PROVE  \E p \in T, m \in g.nodes : Lengthens(g, p, m, q)
<1>1. PICK p \in T : q \in {Append(p, m) : m \in Adjacent(g, Last(p)) \ ToSet(p)}
  BY DEF Longer
<1>2. PICK m \in Adjacent(g, Last(p)) \ ToSet(p) : q = Append(p, m)
  BY <1>1
<1>3. m \in g.nodes /\ {p[Len(p)], m} \in g.edges /\ m \notin ToSet(p)
  BY <1>2 DEF Adjacent, Last
<1>4. Lengthens(g, p, m, q)
  BY <1>2, <1>3 DEF Lengthens
<1> QED BY <1>3, <1>4

\* Every hop from the end of a trail to a node not on it makes a longer one.
LEMMA LongerInto ==
    ASSUME NEW g, NEW T, NEW p \in T, NEW m \in g.nodes,
           {p[Len(p)], m} \in g.edges, m \notin ToSet(p)
    PROVE  Append(p, m) \in Longer(g, T)
<1>1. m \in Adjacent(g, Last(p)) \ ToSet(p)
  BY DEF Adjacent, Last
<1> QED BY <1>1 DEF Longer

\* One round of the enumeration turns the trails of one length into those of the next.
LEMMA TrailLonger ==
    ASSUME NEW g, NEW s, NEW k \in Nat, NEW T, T = {p \in Seq(g.nodes) : IsTrail(g, p, s) /\ Len(p) = k + 1}
    PROVE  Longer(g, T) = {p \in Seq(g.nodes) : IsTrail(g, p, s) /\ Len(p) = k + 2}
<1>1. ASSUME NEW p \in T, NEW m \in g.nodes, {p[Len(p)], m} \in g.edges, m \notin ToSet(p)
      PROVE  /\ Append(p, m) \in Seq(g.nodes) /\ IsTrail(g, Append(p, m), s)
             /\ Len(Append(p, m)) = k + 2
  <2>1. p \in Seq(g.nodes) /\ IsTrail(g, p, s) /\ Len(p) = k + 1
    BY <1>1
  <2>2. PICK q : q = Append(p, m)
    OBVIOUS
  <2>3. /\ q \in Seq(g.nodes) /\ Len(q) = k + 2 /\ q[k + 2] = m
        /\ \A i \in 1..(k + 1) : q[i] = p[i]
    BY <2>1, <2>2
  <2>4. \A i \in 1..(k + 1) : p[i] # m
    BY <1>1, <2>1 DEF ToSet
  <2>5. \A i \in 1..(Len(q) - 1) : {q[i], q[i + 1]} \in g.edges
    <3>0. Len(q) - 1 = k + 1 /\ Len(p) - 1 = k
      BY <2>1, <2>3
    <3> SUFFICES ASSUME NEW i \in 1..(k + 1) PROVE {q[i], q[i + 1]} \in g.edges
      BY <3>0
    <3>1. CASE i = k + 1
      <4>1. q[i] = p[Len(p)] /\ q[i + 1] = m
        BY <2>1, <2>3, <3>1
      <4> QED BY <1>1, <4>1
    <3>2. CASE i # k + 1
      <4>1. i \in 1..k /\ i \in 1..(k + 1) /\ i + 1 \in 1..(k + 1)
        BY <3>2
      <4>2. q[i] = p[i] /\ q[i + 1] = p[i + 1] /\ {p[i], p[i + 1]} \in g.edges
        BY <2>1, <2>3, <3>0, <4>1 DEF IsTrail
      <4> QED BY <4>2
    <3> QED BY <3>1, <3>2
  <2>6. \A i, j \in 1..Len(q) : q[i] = q[j] => i = j
    <3>1. \A i, j \in 1..(k + 1) : p[i] = p[j] => i = j
      BY <2>1 DEF IsTrail
    <3> QED BY <2>3, <2>4, <3>1
  <2>7. q[1] = s /\ Len(q) >= 1
    BY <2>1, <2>3 DEF IsTrail
  <2>8. IsTrail(g, q, s)
    BY <2>3, <2>5, <2>6, <2>7 DEF IsTrail
  <2> QED BY <2>2, <2>3, <2>8
<1>2. ASSUME NEW q \in Seq(g.nodes), IsTrail(g, q, s), Len(q) = k + 2
      PROVE  \E p \in T : \E m \in g.nodes :
                {p[Len(p)], m} \in g.edges /\ m \notin ToSet(p) /\ q = Append(p, m)
  <2>1. PICK p : p = [i \in 1..(k + 1) |-> q[i]]
    OBVIOUS
  <2>2. p \in Seq(g.nodes) /\ Len(p) = k + 1 /\ \A i \in 1..(k + 1) : p[i] = q[i]
    BY <1>2, <2>1
  <2>3. PICK m \in g.nodes : m = q[k + 2]
    BY <1>2
  <2>4. IsTrail(g, p, s)
    <3>1. \A i \in 1..(k + 1) : i \in 1..Len(q)
      BY <1>2
    <3>2. \A i, j \in 1..Len(p) : p[i] = p[j] => i = j
      BY <1>2, <2>2, <3>1 DEF IsTrail
    <3>3. \A i \in 1..(Len(p) - 1) : {p[i], p[i + 1]} \in g.edges
      <4>1. Len(p) - 1 = k /\ Len(q) - 1 = k + 1
        BY <1>2, <2>2
      <4> SUFFICES ASSUME NEW i \in 1..k PROVE {p[i], p[i + 1]} \in g.edges
        BY <4>1
      <4>2. i \in 1..(Len(q) - 1) /\ i \in 1..(k + 1) /\ i + 1 \in 1..(k + 1)
        BY <4>1
      <4>3. {q[i], q[i + 1]} \in g.edges
        BY <1>2, <4>2 DEF IsTrail
      <4>4. p[i] = q[i] /\ p[i + 1] = q[i + 1]
        BY <2>2, <4>2
      <4> QED BY <4>3, <4>4
    <3>4. p[1] = s /\ Len(p) >= 1
      BY <1>2, <2>2 DEF IsTrail
    <3> QED BY <2>2, <3>2, <3>3, <3>4 DEF IsTrail
  <2>5. {p[Len(p)], m} \in g.edges
    <3>1. k + 1 \in 1..(Len(q) - 1) /\ k + 1 + 1 = k + 2
      BY <1>2
    <3>2. {q[k + 1], q[k + 1 + 1]} \in g.edges
      BY <1>2, <3>1 DEF IsTrail
    <3>3. p[Len(p)] = q[k + 1] /\ m = q[k + 1 + 1]
      BY <2>2, <2>3, <3>1
    <3> QED BY <3>2, <3>3
  <2>6. m \notin ToSet(p)
    BY <1>2, <2>2, <2>3 DEF IsTrail, ToSet
  <2>7. q = Append(p, m)
    BY <1>2, <2>2, <2>3
  <2> QED BY <2>2, <2>4, <2>5, <2>6, <2>7
<1>3. ASSUME NEW q \in Longer(g, T) PROVE q \in Seq(g.nodes) /\ IsTrail(g, q, s) /\ Len(q) = k + 2
  <2>1. PICK p \in T, m \in g.nodes : Lengthens(g, p, m, q)
    BY LongerFrom, Zenon
  <2> QED BY <1>1, <2>1 DEF Lengthens
<1>4. ASSUME NEW q \in Seq(g.nodes), IsTrail(g, q, s), Len(q) = k + 2 PROVE q \in Longer(g, T)
  <2>1. PICK p \in T, m \in g.nodes :
           {p[Len(p)], m} \in g.edges /\ m \notin ToSet(p) /\ q = Append(p, m)
    BY <1>2, <1>4
  <2> QED BY <2>1, LongerInto
<1> QED BY <1>3, <1>4

\* A trail visits no node twice, so it is not longer than the graph is large.
LEMMA TrailIsShort ==
    ASSUME NEW g, IsFiniteSet(g.nodes), NEW p, NEW s, IsTrail(g, p, s)
    PROVE  Len(p) <= Cardinality(g.nodes)
<1>1. p \in Injection(1..Len(p), g.nodes) /\ Len(p) \in Nat
  BY DEF IsTrail, Injection, IsInjective
<1>2. PICK n \in Nat : n = Len(p)
  BY <1>1
<1>3. Cardinality(1..n) = IF 1 > n THEN 0 ELSE n - 1 + 1
  BY FS_Interval
<1>4. Cardinality(1..Len(p)) = Len(p)
  BY <1>2, <1>3
<1> QED BY <1>1, <1>4, FS_Injection

\* SimplePaths are the simple paths.
LEMMA SimplePathsArePaths ==
    ASSUME NEW g, IsFiniteSet(g.nodes), NEW s \in g.nodes, NEW t
    PROVE  SimplePaths(g, s, t) = {p \in Seq(g.nodes) : IsPath(g, p, s, t)}
<1> DEFINE Paths == Seq(g.nodes)
           V == SUBSET Paths
           Step == [k \in Nat |-> [T \in V |-> Longer(g, T)]]
           Eq(f) == f = [k \in Nat |-> IF k = 0 THEN {<<s>>}
                                       ELSE LET shorter == f[k - 1]
                                            IN  UNION {{Append(p, m) : m \in Adjacent(g, Last(p)) \ ToSet(p)} :
                                                       p \in shorter}]
           Trails(k) == {p \in Paths : IsTrail(g, p, s) /\ Len(p) = k + 1}
<1>1. PICK f \in [Nat -> V] : f = [k \in Nat |-> IF k = 0 THEN {<<s>>} ELSE Step[k][f[k - 1]]]
  <2>1. ASSUME NEW T \in V PROVE Longer(g, T) \in V
    <3> SUFFICES ASSUME NEW q \in Longer(g, T) PROVE q \in Paths
      OBVIOUS
    <3>1. PICK p \in T, m \in g.nodes : Lengthens(g, p, m, q)
      BY LongerFrom, Zenon
    <3>2. p \in Seq(g.nodes)
      OBVIOUS
    <3> QED BY <3>1, <3>2 DEF Lengthens
  <2>2. {<<s>>} \in V
    OBVIOUS
  <2> HIDE DEF V
  <2>3. Step \in [Nat -> [V -> V]]
    BY <2>1
  <2>4. PICK start \in V : start = {<<s>>}
    BY <2>2
  <2> HIDE DEF Step
  <2>5. PICK h \in [Nat -> V] : Solves(h, start, Step)
    BY <2>3, Recursion
  <2> QED BY <2>4, <2>5 DEF Solves
<1>2. Eq(f)
  <2>1. \A k \in Nat \ {0} : f[k - 1] \in V /\ Step[k][f[k - 1]] = Longer(g, f[k - 1])
    <3> HIDE DEF V
    <3> QED OBVIOUS
  <2> HIDE DEF Step, V
  <2> QED BY <1>1, <2>1 DEF Longer
<1> DEFINE from == CHOOSE h : Eq(h)
<1>3. Eq(from)
  <2> HIDE DEF Eq
  <2> QED BY <1>2
<1>4. from[0] = {<<s>>} /\ \A k \in Nat : from[k + 1] = Longer(g, from[k])
  <2> HIDE DEF from
  <2>1. from[0] = {<<s>>}
    BY <1>3
  <2>2. ASSUME NEW k \in Nat \ {0} PROVE from[k] = Longer(g, from[k - 1])
    BY <1>3 DEF Longer
  <2> QED BY <2>1, <2>2
<1>5. SimplePaths(g, s, t) =
        {p \in UNION {from[k] : k \in 0..(Cardinality(g.nodes) - 1)} : Last(p) = t}
  BY DEF SimplePaths
<1> HIDE DEF from
<1>6. \A k \in Nat : from[k] = Trails(k)
  <2> DEFINE D == {k \in Nat : from[k] = Trails(k)}
  <2>1. 0 \in D
    <3>1. \A p \in Trails(0) : p = <<s>>
      BY DEF IsTrail
    <3>2. <<s>> \in Trails(0)
      <4> HIDE DEF D, Trails, Eq, Step, V, Paths
      <4>1. PICK p : p = <<s>>
        OBVIOUS
      <4>4. p \in Seq(g.nodes) /\ Len(p) = 1 /\ p[1] = s
        BY <4>1, SingletonPath
      <4> USE DEF Trails, Paths
      <4>3. IsTrail(g, p, s)
        BY <4>4 DEF IsTrail
      <4> QED BY <4>1, <4>4, <4>3
    <3> QED BY <1>4, <3>1, <3>2
  <2>2. ASSUME NEW k \in Nat, k \in D PROVE k + 1 \in D
    <3>1. Longer(g, Trails(k)) = {p \in Seq(g.nodes) : IsTrail(g, p, s) /\ Len(p) = k + 2}
      BY TrailLonger
    <3>2. k + 1 + 1 = k + 2
      OBVIOUS
    <3>3. Longer(g, Trails(k)) = Trails(k + 1)
      BY <3>1, <3>2
    <3>4. from[k] = Trails(k) /\ from[k + 1] = Longer(g, from[k])
      BY <1>4, <2>2
    <3> HIDE DEF Trails
    <3> QED BY <3>3, <3>4
  <2> HIDE DEF D
  <2>3. \A k \in Nat : k \in D
    BY <2>1, <2>2, Induction
  <2> QED BY <2>3 DEF D
<1>7. ASSUME NEW p \in SimplePaths(g, s, t) PROVE p \in Seq(g.nodes) /\ IsPath(g, p, s, t)
  <2>1. PICK k \in 0..(Cardinality(g.nodes) - 1) : p \in from[k]
    BY <1>5
  <2>2. p \in Trails(k) /\ Last(p) = t
    BY <1>5, <1>6, <2>1, FS_CardinalityType
  <2> QED BY <2>2 DEF IsPath, Last
<1>8. ASSUME NEW p \in Seq(g.nodes), IsPath(g, p, s, t) PROVE p \in SimplePaths(g, s, t)
  <2>1. Len(p) <= Cardinality(g.nodes) /\ Len(p) >= 1 /\ Len(p) \in Nat
    <3>1. IsTrail(g, p, s)
      BY <1>8 DEF IsPath
    <3>2. Len(p) <= Cardinality(g.nodes)
      BY <3>1, TrailIsShort
    <3> QED BY <3>1, <3>2 DEF IsTrail
  <2>2. PICK k : k = Len(p) - 1
    OBVIOUS
  <2>3. k \in 0..(Cardinality(g.nodes) - 1) /\ k \in Nat /\ Len(p) = k + 1
    BY <2>1, <2>2, FS_CardinalityType
  <2>4. p \in from[k] /\ Last(p) = t
    BY <1>6, <1>8, <2>3 DEF IsPath, Last
  <2> QED BY <1>5, <2>3, <2>4
<1> QED BY <1>7, <1>8

\* A path costs the sum of what its edges weigh.
Hop(p, i) == {p[i], p[i + 1]}

Summed(f, weight, p) ==
    /\ f \in [1..Len(p) -> Nat] /\ f[1] = 0
    /\ \A i \in 1..(Len(p) - 1) : f[i + 1] = f[i] + weight[Hop(p, i)]

\* The cost of a path is the sum over its hops.
LEMMA PathCostIsSum ==
    ASSUME NEW S, NEW p \in Seq(S), Len(p) >= 1, NEW weight,
           \A i \in 1..(Len(p) - 1) : weight[Hop(p, i)] \in Nat
    PROVE  \E f : Summed(f, weight, p) /\ PathCost(weight, p) = f[Len(p)]
<1> DEFINE n == Len(p)
           Toll(i) == IF i \in 1..(n - 1) THEN weight[Hop(p, i)] ELSE 0
           Step == [i \in Nat |-> [x \in Nat |-> x + Toll(i)]]
           Eq(f) == f = [i \in 1..Len(p) |->
                           IF i = 1 THEN 0 ELSE f[i - 1] + weight[{p[i - 1], p[i]}]]
<1>0. n \in Nat /\ n >= 1
  OBVIOUS
<1>1. PICK h \in [Nat -> Nat] : Solves(h, 0, Step)
  <2>1. \A i \in Nat : Toll(i) \in Nat
    OBVIOUS
  <2> HIDE DEF Toll
  <2>2. Step \in [Nat -> [Nat -> Nat]]
    <3>1. ASSUME NEW i \in Nat PROVE [x \in Nat |-> x + Toll(i)] \in [Nat -> Nat]
      <4>1. Toll(i) \in Nat
        BY <2>1
      <4> QED BY <4>1
    <3> QED BY <3>1, Zenon
  <2> HIDE DEF Step
  <2> QED BY <2>2, Recursion
<1>2. h[0] = 0 /\ \A i \in 1..(n - 1) : h[i] = h[i - 1] + weight[Hop(p, i)]
  <2>1. h[0] = 0
    BY <1>1 DEF Solves
  <2>2. ASSUME NEW i \in 1..(n - 1) PROVE h[i] = h[i - 1] + weight[Hop(p, i)]
    <3>1. i \in Nat /\ i # 0 /\ i - 1 \in Nat /\ h[i - 1] \in Nat
      <4> HIDE DEF n, Step, Toll
      <4>1. i \in Nat /\ i # 0 /\ i - 1 \in Nat
        BY <1>0
      <4> QED BY <4>1
    <3>2. Toll(i) = weight[Hop(p, i)]
      OBVIOUS
    <3>3. h[i] = Step[i][h[i - 1]]
      <4> HIDE DEF Step
      <4> QED BY <1>1, <3>1 DEF Solves
    <3>4. Step[i][h[i - 1]] = h[i - 1] + Toll(i)
      <4> HIDE DEF Toll
      <4> QED BY <3>1
    <3> QED BY <3>2, <3>3, <3>4
  <2> QED BY <2>1, <2>2
<1> HIDE DEF Step, Toll
<1>3. PICK f : f = [i \in 1..n |-> h[i - 1]]
  OBVIOUS
<1>4. Summed(f, weight, p)
  <2>1. f \in [1..n -> Nat] /\ f[1] = 0
    <3> HIDE DEF n
    <3>1. \A i \in 1..n : i - 1 \in Nat /\ h[i - 1] \in Nat
      BY <1>0
    <3>2. 1 \in 1..n /\ 1 - 1 = 0
      BY <1>0
    <3> QED BY <1>2, <1>3, <3>1, <3>2
  <2>2. ASSUME NEW i \in 1..(n - 1) PROVE f[i + 1] = f[i] + weight[Hop(p, i)]
    <3>1. i \in 1..n /\ i + 1 \in 1..n /\ i + 1 - 1 = i
      BY <1>0
    <3> HIDE DEF n
    <3>2. f[i + 1] = h[i] /\ f[i] = h[i - 1]
      BY <1>3, <3>1
    <3> QED BY <1>2, <3>2
  <2> QED BY <2>1, <2>2 DEF Summed
<1>5. ASSUME NEW i \in 1..n, i # 1 PROVE f[i] = f[i - 1] + weight[{p[i - 1], p[i]}]
  <2>1. i - 1 \in 1..(n - 1) /\ i - 1 + 1 = i
    BY <1>0, <1>5
  <2>2. f[i - 1 + 1] = f[i - 1] + weight[{p[i - 1], p[i - 1 + 1]}]
    BY <1>4, <2>1 DEF Summed, Hop
  <2> QED BY <2>1, <2>2
<1>6. Eq(f)
  BY <1>0, <1>3, <1>4, <1>5 DEF Summed
<1>7. \A e : Eq(e) => e = f
  <2> SUFFICES ASSUME NEW e, Eq(e) PROVE e = f
    OBVIOUS
  <2> DEFINE D == {k \in Nat : k \in 1..n => e[k] = f[k]}
  <2>1. 0 \in D
    OBVIOUS
  <2>2. ASSUME NEW k \in Nat, k \in D PROVE k + 1 \in D
    <3>0. k + 1 \in Nat
      OBVIOUS
    <3> SUFFICES ASSUME k + 1 \in 1..n PROVE e[k + 1] = f[k + 1]
      BY <3>0
    <3>1. CASE k = 0
      <4>1. 1 \in 1..n
        BY <1>0
      <4>2. e[1] = 0 /\ f[1] = 0
        BY <1>6, <4>1
      <4> QED BY <3>1, <4>2
    <3>2. CASE k # 0
      <4>1. k \in 1..n /\ k + 1 # 1 /\ k + 1 - 1 = k
        BY <1>0, <3>2
      <4>2. e[k] = f[k]
        BY <2>2, <4>1
      <4>3. PICK j \in 1..n : j = k + 1
        OBVIOUS
      <4>4. e[j] = e[j - 1] + weight[{p[j - 1], p[j]}]
        BY <4>1, <4>3
      <4>5. f[j] = f[j - 1] + weight[{p[j - 1], p[j]}]
        BY <1>5, <4>1, <4>3
      <4> QED BY <4>1, <4>2, <4>3, <4>4, <4>5
    <3> QED BY <3>1, <3>2
  <2> HIDE DEF D
  <2>3. \A k \in Nat : k \in D
    BY <2>1, <2>2, Induction
  <2>4. \A k \in 1..n : e[k] = f[k]
    <3>1. \A k \in 1..n : k \in D
      BY <1>0, <2>3
    <3> QED BY <3>1 DEF D
  <2>5. DOMAIN e = 1..n /\ DOMAIN f = 1..n
    BY <1>6
  <2>6. e = [k \in 1..n |-> e[k]] /\ f = [k \in 1..n |-> f[k]]
    BY <1>6
  <2> QED BY <2>4, <2>6
<1>8. PathCost(weight, p) = (CHOOSE e : Eq(e))[Len(p)]
  BY DEF PathCost
<1>9. (CHOOSE e : Eq(e)) = f
  <2> HIDE DEF Eq
  <2> QED BY <1>6, <1>7
<1> QED BY <1>4, <1>8, <1>9

\* Hop by hop no dearer is no dearer.
LEMMA PathCostMonotone ==
    ASSUME NEW S, NEW p \in Seq(S), Len(p) >= 1, NEW v, NEW w,
           \A i \in 1..(Len(p) - 1) :
              v[Hop(p, i)] \in Nat /\ w[Hop(p, i)] \in Nat /\ v[Hop(p, i)] <= w[Hop(p, i)]
    PROVE  /\ PathCost(v, p) \in Nat /\ PathCost(w, p) \in Nat
           /\ PathCost(v, p) <= PathCost(w, p)
<1>1. PICK f : Summed(f, v, p) /\ PathCost(v, p) = f[Len(p)]
  BY PathCostIsSum
<1>2. PICK h : Summed(h, w, p) /\ PathCost(w, p) = h[Len(p)]
  BY PathCostIsSum
<1> DEFINE D == {k \in Nat : k \in 1..Len(p) => f[k] <= h[k]}
<1>3. 0 \in D
  OBVIOUS
<1>4. ASSUME NEW k \in Nat, k \in D PROVE k + 1 \in D
  <2> SUFFICES ASSUME k + 1 \in 1..Len(p) PROVE f[k + 1] <= h[k + 1]
    OBVIOUS
  <2>1. CASE k = 0
    BY <1>1, <1>2, <2>1 DEF Summed
  <2>2. CASE k # 0
    <3>1. k \in 1..Len(p) /\ k \in 1..(Len(p) - 1)
      BY <2>2
    <3>2. f[k] <= h[k] /\ f[k] \in Nat /\ h[k] \in Nat
      BY <1>1, <1>2, <1>4, <3>1 DEF Summed
    <3>3. f[k + 1] = f[k] + v[Hop(p, k)] /\ h[k + 1] = h[k] + w[Hop(p, k)]
      BY <1>1, <1>2, <3>1 DEF Summed
    <3> QED BY <3>1, <3>2, <3>3
  <2> QED BY <2>1, <2>2
<1> HIDE DEF D
<1>5. \A k \in Nat : k \in D
  BY <1>3, <1>4, Induction
<1>6. Len(p) \in 1..Len(p) /\ Len(p) \in Nat
  OBVIOUS
<1>7. f[Len(p)] <= h[Len(p)]
  BY <1>5, <1>6 DEF D
<1>8. f[Len(p)] \in Nat /\ h[Len(p)] \in Nat
  BY <1>1, <1>2, <1>6 DEF Summed
<1> QED BY <1>1, <1>2, <1>7, <1>8

\* r is a cheapest path of g under the weights w, or there is none.
IsCheapest(r, g, w, s, t) ==
    IF r = NoPath THEN {s, t} \subseteq g.nodes => \A p : ~IsPath(g, p, s, t)
    ELSE /\ {s, t} \subseteq g.nodes
         /\ IsPath(g, r.nodes, s, t)
         /\ r.cost = PathCost(w, r.nodes) /\ r.cost \in Nat
         /\ \A p : IsPath(g, p, s, t) => r.cost <= PathCost(w, p) /\ PathCost(w, p) \in Nat

\* A path over edges that have weights has a cost.
LEMMA PathCostOfPath ==
    ASSUME NEW g, NEW w, \A e \in g.edges : w[e] \in Nat, NEW s, NEW t, NEW p, IsPath(g, p, s, t)
    PROVE  PathCost(w, p) \in Nat
<1>1. p \in Seq(g.nodes) /\ Len(p) >= 1 /\ \A i \in 1..(Len(p) - 1) : w[Hop(p, i)] \in Nat
  BY DEF IsPath, IsTrail, Hop
<1>2. \A i \in 1..(Len(p) - 1) :
         w[Hop(p, i)] \in Nat /\ w[Hop(p, i)] \in Nat /\ w[Hop(p, i)] <= w[Hop(p, i)]
  BY <1>1
<1> QED BY <1>1, <1>2, PathCostMonotone

\* The path the engine returns (shortest_path of path_engine.py) is NoPath exactly
\* when there is none, and else a path that no other is cheaper than.
LEMMA ShortestPathIsCheapest ==
    ASSUME NEW g, IsFiniteSet(g.nodes), NEW w, \A e \in g.edges : w[e] \in Nat, NEW s, NEW t
    PROVE  IsCheapest(ShortestPath(g, w, s, t), g, w, s, t)
<1> DEFINE paths == IF {s, t} \subseteq g.nodes THEN SimplePaths(g, s, t) ELSE {}
           all   == {[nodes |-> p, cost |-> PathCost(w, p)] : p \in paths}
           r     == ShortestPath(g, w, s, t)
<1>1. r = IF all = {} THEN NoPath ELSE CHOOSE p \in all : \A q \in all : p.cost <= q.cost
  BY DEF ShortestPath
<1>2. ASSUME {s, t} \subseteq g.nodes PROVE \A p : p \in paths <=> IsPath(g, p, s, t)
  <2>1. paths = {p \in Seq(g.nodes) : IsPath(g, p, s, t)}
    BY <1>2, SimplePathsArePaths
  <2> HIDE DEF paths
  <2> QED BY <2>1 DEF IsPath, IsTrail
<1>3. ASSUME NEW p \in paths PROVE PathCost(w, p) \in Nat /\ Len(p) >= 1 /\ {s, t} \subseteq g.nodes
  <2>1. {s, t} \subseteq g.nodes
    OBVIOUS
  <2>2. IsPath(g, p, s, t)
    BY <1>2, <2>1
  <2> QED BY <2>1, <2>2, PathCostOfPath DEF IsPath, IsTrail
<1> HIDE DEF r
<1>4. CASE all = {}
  <2>1. r = NoPath /\ paths = {}
    BY <1>1, <1>4
  <2> HIDE DEF paths, all
  <2>2. IsCheapest(r, g, w, s, t)
    BY <1>2, <2>1 DEF IsCheapest
  <2> QED BY <2>2 DEF r
<1>5. CASE all # {}
  <2> DEFINE costs == {q.cost : q \in all}
  <2>1. \A q \in all : q.cost \in Nat
    <3> HIDE DEF paths
    <3> QED BY <1>3
  <2>2. \E p \in all : \A q \in all : p.cost <= q.cost
    <3> HIDE DEF all
    <3>1. costs \in SUBSET Nat /\ costs # {}
      BY <1>5, <2>1
    <3>2. PICK m \in costs : \A n \in costs : m <= n
      <4> HIDE DEF costs
      <4> QED BY <3>1, LeastElement
    <3> QED BY <3>2
  <2>3. r \in all /\ \A q \in all : r.cost <= q.cost
    <3> HIDE DEF all
    <3> QED BY <1>1, <1>5, <2>2
  <2>4. PICK p \in paths : r = [nodes |-> p, cost |-> PathCost(w, p)]
    BY <2>3
  <2>5. r.nodes = p /\ r.cost = PathCost(w, p) /\ Len(p) >= 1
    BY <1>3, <2>4
  <2>6. {s, t} \subseteq g.nodes /\ IsPath(g, p, s, t) /\ PathCost(w, p) \in Nat
    <3> HIDE DEF paths
    <3> QED BY <1>2, <1>3
  <2>7. r # NoPath
    <3>1. NoPath.nodes = <<>>
      BY DEF NoPath
    <3> QED BY <2>5, <3>1
  <2>8. ASSUME NEW q, IsPath(g, q, s, t) PROVE r.cost <= PathCost(w, q) /\ PathCost(w, q) \in Nat
    <3>1. q \in paths
      <4> HIDE DEF paths
      <4> QED BY <1>2, <2>6, <2>8
    <3>2. [nodes |-> q, cost |-> PathCost(w, q)] \in all
      <4> HIDE DEF paths
      <4> QED BY <3>1
    <3>3. r.cost <= [nodes |-> q, cost |-> PathCost(w, q)].cost
      <4> HIDE DEF all
      <4> QED BY <2>3, <3>2
    <3> QED BY <2>8, <3>3, PathCostOfPath
  <2>9. IsCheapest(r, g, w, s, t)
    <3> HIDE DEF paths, all
    <3> QED BY <2>5, <2>6, <2>7, <2>8 DEF IsCheapest
  <2> QED BY <2>9 DEF r
<1> QED BY <1>4, <1>5

\* What a route change holds (compute_route_change).
LEMMA RouteChangeFields ==
    ASSUME NEW g, NEW h, NEW w, NEW pair
    PROVE  LET c == RouteChange(g, h, w, pair)
           IN  /\ c.baseline = ShortestPath(g, g.cost, pair[1], pair[2])
               /\ c.current = ShortestPath(h, w, pair[1], pair[2])
               /\ c.pair = pair
               /\ c.baseline = NoPath \/ c.current = NoPath => c.delta = 0
               /\ c.baseline # NoPath /\ c.current # NoPath => c.delta = c.current.cost - c.baseline.cost
BY DEF RouteChange, None

\* A path of the smaller graph is one of the larger.
LEMMA PathInLarger ==
    ASSUME NEW g, NEW h, h.nodes \subseteq g.nodes, h.edges \subseteq g.edges,
           NEW s, NEW t, NEW p, IsPath(h, p, s, t)
    PROVE  IsPath(g, p, s, t)
<1>1. p \in Seq(h.nodes) /\ p \in Seq(g.nodes)
  BY DEF IsPath, IsTrail
<1> QED BY <1>1 DEF IsPath, IsTrail

\* Fewer nodes and edges, no cheaper: no route appears, none gets cheaper.
LEMMA RouteNoBetter ==
    ASSUME NEW g, IsTopology(g), NEW h, h.nodes \subseteq g.nodes, h.edges \subseteq g.edges,
           NEW w, \A e \in h.edges : w[e] \in Nat /\ g.cost[e] <= w[e],
           NEW pair, NEW c, c = RouteChange(g, h, w, pair)
    PROVE  c.current = NoPath \/ (c.baseline # NoPath /\ c.delta >= 0)
<1> DEFINE s == pair[1]
           t == pair[2]
<1> HIDE DEF s, t
<1>1. IsFiniteSet(h.nodes) /\ IsFiniteSet(g.nodes) /\ \A e \in g.edges : g.cost[e] \in Nat
  BY FS_Subset DEF IsTopology
<1>2. c.baseline = ShortestPath(g, g.cost, s, t) /\ c.current = ShortestPath(h, w, s, t)
  BY RouteChangeFields DEF s, t
<1>3. IsCheapest(c.baseline, g, g.cost, s, t)
  BY <1>1, <1>2, ShortestPathIsCheapest
<1>4. IsCheapest(c.current, h, w, s, t)
  BY <1>1, <1>2, ShortestPathIsCheapest
<1> SUFFICES ASSUME c.current # NoPath PROVE c.baseline # NoPath /\ c.delta >= 0
  OBVIOUS
<1>5. PICK p : p = c.current.nodes
  OBVIOUS
<1>6. {s, t} \subseteq h.nodes /\ IsPath(h, p, s, t) /\ c.current.cost = PathCost(w, p) /\ PathCost(w, p) \in Nat
  BY <1>4, <1>5 DEF IsCheapest
<1>7. IsPath(g, p, s, t)
  BY <1>6, PathInLarger
<1>8. c.baseline # NoPath
  BY <1>3, <1>6, <1>7 DEF IsCheapest
<1>9. c.baseline.cost <= PathCost(g.cost, p) /\ c.baseline.cost \in Nat
  BY <1>3, <1>7, <1>8 DEF IsCheapest
<1>10. PathCost(g.cost, p) <= PathCost(w, p) /\ PathCost(g.cost, p) \in Nat
  <2>1. p \in Seq(h.nodes) /\ Len(p) >= 1 /\ \A i \in 1..(Len(p) - 1) : Hop(p, i) \in h.edges
    BY <1>6 DEF IsPath, IsTrail, Hop
  <2>2. \A i \in 1..(Len(p) - 1) :
           g.cost[Hop(p, i)] \in Nat /\ w[Hop(p, i)] \in Nat /\ g.cost[Hop(p, i)] <= w[Hop(p, i)]
    BY <1>1, <2>1
  <2> QED BY <2>1, <2>2, PathCostMonotone
<1>11. c.delta = c.current.cost - c.baseline.cost
  BY <1>8, RouteChangeFields
<1> QED BY <1>6, <1>8, <1>9, <1>10, <1>11

\* One more edge, between the two ends of the route, and no other cost: there
\* is a route, and it is no dearer.
LEMMA RouteNoWorse ==
    ASSUME NEW g, IsTopology(g), NEW h, h.nodes = g.nodes, g.edges \subseteq h.edges,
           NEW w, \A e \in h.edges : w[e] \in Nat, \A e \in g.edges : w[e] = g.cost[e],
           NEW s \in g.nodes, NEW t \in g.nodes, s # t, {s, t} \in h.edges,
           NEW c, c = RouteChange(g, h, w, <<s, t>>)
    PROVE  c.current # NoPath /\ c.delta <= 0
<1>1. IsFiniteSet(h.nodes) /\ IsFiniteSet(g.nodes) /\ \A e \in g.edges : g.cost[e] \in Nat
  BY DEF IsTopology
<1>2. c.baseline = ShortestPath(g, g.cost, s, t) /\ c.current = ShortestPath(h, w, s, t)
  BY RouteChangeFields
<1>3. IsCheapest(c.baseline, g, g.cost, s, t)
  BY <1>1, <1>2, ShortestPathIsCheapest
<1>4. IsCheapest(c.current, h, w, s, t)
  BY <1>1, <1>2, ShortestPathIsCheapest
<1>5. PICK q : q = <<s, t>>
  OBVIOUS
<1>6. IsPath(h, q, s, t)
  <2>1. q \in Seq(g.nodes) /\ Len(q) = 2 /\ q[1] = s /\ q[2] = t
    BY <1>5, PairPath
  <2>2. \A i \in 1..(Len(q) - 1) : i = 1 /\ i + 1 = 2
    BY <2>1
  <2>3. {q[1], q[2]} \in h.edges
    BY <2>1
  <2>4. \A i \in 1..(Len(q) - 1) : {q[i], q[i + 1]} \in h.edges
    BY <2>2, <2>3
  <2>5. \A i, j \in 1..Len(q) : q[i] = q[j] => i = j
    BY <2>1
  <2>6. q \in Seq(h.nodes) /\ Len(q) >= 1 /\ q[Len(q)] = t
    BY <2>1
  <2> QED BY <2>1, <2>4, <2>5, <2>6 DEF IsPath, IsTrail
<1>7. c.current # NoPath
  BY <1>4, <1>6 DEF IsCheapest
<1>8. CASE c.baseline = NoPath
  BY <1>7, <1>8, RouteChangeFields
<1>9. CASE c.baseline # NoPath
  <2>1. PICK p : p = c.baseline.nodes
    OBVIOUS
  <2>2. IsPath(g, p, s, t) /\ c.baseline.cost = PathCost(g.cost, p) /\ c.baseline.cost \in Nat
    BY <1>3, <1>9, <2>1 DEF IsCheapest
  <2>3. IsPath(h, p, s, t)
    BY <2>2, PathInLarger
  <2>4. c.current.cost <= PathCost(w, p) /\ PathCost(w, p) \in Nat /\ c.current.cost \in Nat
    BY <1>4, <1>7, <2>3 DEF IsCheapest
  <2>5. PathCost(w, p) <= PathCost(g.cost, p)
    <3>1. p \in Seq(g.nodes) /\ Len(p) >= 1 /\ \A i \in 1..(Len(p) - 1) : Hop(p, i) \in g.edges
      BY <2>2 DEF IsPath, IsTrail, Hop
    <3>2. \A i \in 1..(Len(p) - 1) :
             w[Hop(p, i)] \in Nat /\ g.cost[Hop(p, i)] \in Nat /\ w[Hop(p, i)] <= g.cost[Hop(p, i)]
      BY <1>1, <3>1
    <3> QED BY <3>1, <3>2, PathCostMonotone
  <2>6. c.delta = c.current.cost - c.baseline.cost
    BY <1>7, <1>9, RouteChangeFields
  <2> QED BY <1>7, <2>2, <2>4, <2>5, <2>6
<1> QED BY <1>8, <1>9

-----------------------------------------------------------------------------
(* Sorting. *)

IsStrictOrder(R, S) ==
    /\ \A x \in S : <<x, x>> \notin R
    /\ \A x, y \in S : x # y => <<x, y>> \in R \/ <<y, x>> \in R
    /\ \A x, y, z \in S : <<x, y>> \in R /\ <<y, z>> \in R => <<x, z>> \in R

Below(R, S, x) == {y \in S \ {x} : <<y, x>> \in R}

\* How many are below an element orders the elements.
LEMMA BelowCounts ==
    ASSUME NEW S, IsFiniteSet(S), NEW R, IsStrictOrder(R, S)
    PROVE  /\ \A x \in S : Cardinality(Below(R, S, x)) \in 0..(Cardinality(S) - 1)
           /\ \A x, y \in S : Cardinality(Below(R, S, x)) = Cardinality(Below(R, S, y)) => x = y
<1> DEFINE n == Cardinality(S)
<1>1. n \in Nat
  BY FS_CardinalityType
<1>2. \A x \in S : /\ IsFiniteSet(Below(R, S, x)) /\ Cardinality(Below(R, S, x)) \in Nat
                   /\ Cardinality(Below(R, S, x)) <= n - 1
  <2> TAKE x \in S
  <2>1. IsFiniteSet(S \ {x}) /\ Cardinality(S \ {x}) = n - 1
    BY FS_RemoveElement
  <2>2. Below(R, S, x) \in SUBSET (S \ {x})
    BY DEF Below
  <2> HIDE DEF n
  <2> QED BY <2>1, <2>2, FS_Subset, FS_CardinalityType
<1>3. ASSUME NEW x \in S, NEW y \in S, <<x, y>> \in R
      PROVE  Cardinality(Below(R, S, x)) < Cardinality(Below(R, S, y))
  <2>1. Below(R, S, x) \subseteq Below(R, S, y)
    BY <1>3 DEF Below, IsStrictOrder
  <2>2. x \in Below(R, S, y) /\ x \notin Below(R, S, x)
    BY <1>3 DEF Below, IsStrictOrder
  <2>3. Below(R, S, x) # Below(R, S, y)
    BY <2>2
  <2> HIDE DEF n
  <2> QED BY <1>2, <2>1, <2>3, FS_Subset
<1>4. ASSUME NEW x \in S, NEW y \in S, Cardinality(Below(R, S, x)) = Cardinality(Below(R, S, y))
      PROVE  x = y
  <2> SUFFICES ASSUME x # y PROVE FALSE
    OBVIOUS
  <2>1. <<x, y>> \in R \/ <<y, x>> \in R
    BY DEF IsStrictOrder
  <2> HIDE DEF n
  <2> QED BY <1>2, <1>3, <1>4, <2>1
<1>5. \A x \in S : Cardinality(Below(R, S, x)) \in 0..(n - 1)
  <2> HIDE DEF n
  <2> QED BY <1>1, <1>2
<1> QED BY <1>4, <1>5

\* Every place of a sorted finite set has its element.
LEMMA PlacesAreTaken ==
    ASSUME NEW S, IsFiniteSet(S), NEW R, IsStrictOrder(R, S), NEW i \in 1..Cardinality(S)
    PROVE  \E x \in S : Cardinality(Below(R, S, x)) = i - 1
<1> DEFINE n == Cardinality(S)
           rank == [x \in S |-> Cardinality(Below(R, S, x))]
           T == 0..(n - 1)
<1>1. n \in Nat
  BY FS_CardinalityType
<1>4. rank \in Injection(S, T)
  <2>1. \A x \in S : Cardinality(Below(R, S, x)) \in T
    BY BelowCounts
  <2>2. ASSUME NEW x \in S, NEW y \in S, rank[x] = rank[y] PROVE x = y
    BY <2>2, BelowCounts
  <2>3. rank \in [S -> T]
    <3> HIDE DEF T
    <3> QED BY <2>1
  <2>4. \A x, y \in S : rank[x] = rank[y] => x = y
    BY <2>2
  <2> HIDE DEF T, rank
  <2> QED BY <2>3, <2>4 DEF Injection, IsInjective
<1>5. IsFiniteSet(T) /\ Cardinality(T) = n
  <2> HIDE DEF n
  <2>1. 0 \in Int /\ n - 1 \in Int
    BY <1>1
  <2>2. IsFiniteSet(0..(n - 1)) /\ Cardinality(0..(n - 1)) = IF 0 > n - 1 THEN 0 ELSE (n - 1) - 0 + 1
    BY <2>1, FS_Interval
  <2> QED BY <1>1, <2>2
<1>6. rank \in Surjection(S, T)
  <2> HIDE DEF T, rank
  <2> QED BY <1>4, <1>5, FS_Injection
<1>7. i - 1 \in T
  <2>1. i \in 1..n
    OBVIOUS
  <2> HIDE DEF n
  <2> QED BY <1>1, <2>1
<1>8. PICK x \in S : rank[x] = i - 1
  <2> HIDE DEF T, rank
  <2> QED BY <1>6, <1>7 DEF Surjection
<1> QED BY <1>8

\* The image of a finite set is finite.
LEMMA ImageIsFinite ==
    ASSUME NEW S, IsFiniteSet(S), NEW f
    PROVE  IsFiniteSet({f[x] : x \in S})
<1> DEFINE h == [x \in S |-> f[x]]
           T == {f[x] : x \in S}
<1>1. h \in Surjection(S, T)
  BY DEF Surjection
<1> HIDE DEF h, T
<1>2. IsFiniteSet(T)
  BY <1>1, FS_Surjection
<1> QED BY <1>2 DEF T

EdgeEnds(e, a, b) == e = {a, b} /\ a < b /\ Min(e) = a /\ Max(e) = b

\* An edge is its two ends, the smaller and the larger.
LEMMA PairEnds ==
    ASSUME NEW a \in Nat, NEW b \in Nat, a < b
    PROVE  EdgeEnds({a, b}, a, b)
<1>1. \A x \in {a, b} : (\A y \in {a, b} : x =< y) => x = a
  OBVIOUS
<1>2. \A x \in {a, b} : (\A y \in {a, b} : x >= y) => x = b
  OBVIOUS
<1>3. a \in {a, b} /\ \A y \in {a, b} : a =< y
  OBVIOUS
<1>4. b \in {a, b} /\ \A y \in {a, b} : b >= y
  OBVIOUS
<1>5. Min({a, b}) = a
  BY <1>1, <1>3, Zenon DEF Min
<1>6. Max({a, b}) = b
  BY <1>2, <1>4, Zenon DEF Max
<1> QED BY <1>5, <1>6 DEF EdgeEnds

\* An edge of a topology joins two nodes of it.
LEMMA EdgeIsItsEnds ==
    ASSUME NEW g, IsTopology(g), NEW e \in g.edges
    PROVE  \E a, b \in g.nodes : EdgeEnds(e, a, b)
<1>1. e \subseteq g.nodes /\ IsFiniteSet(e) /\ Cardinality(e) = 2 /\ g.nodes \subseteq Nat
  BY FS_Subset DEF IsTopology
<1>2. PICK x : x \in e
  BY <1>1, FS_EmptySet
<1>3. IsFiniteSet(e \ {x}) /\ Cardinality(e \ {x}) = 1
  <2>1. /\ IsFiniteSet(e \ {x})
        /\ Cardinality(e \ {x}) = IF x \in e THEN Cardinality(e) - 1 ELSE Cardinality(e)
    BY <1>1, FS_RemoveElement
  <2> QED BY <1>1, <1>2, <2>1
<1>4. PICK y : e \ {x} = {y}
  BY <1>3, FS_Singleton
<1>5. e = {x, y} /\ e = {y, x} /\ x # y /\ x \in g.nodes /\ y \in g.nodes /\ x \in Nat /\ y \in Nat
  BY <1>1, <1>2, <1>4
<1>6. x < y \/ y < x
  BY <1>5
<1> QED BY <1>5, <1>6, PairEnds

-----------------------------------------------------------------------------
(* Paths and components. *)

\* A path extended by a node it does not visit.
LEMMA PathExtended ==
    ASSUME NEW g, NEW p, NEW s, NEW x, IsPath(g, p, s, x), NEW y \in g.nodes, {x, y} \in g.edges,
           \A i \in 1..Len(p) : p[i] # y
    PROVE  \E q : IsPath(g, q, s, y)
<1>1. PICK k \in Nat : Len(p) = k + 1 /\ p \in Seq(g.nodes)
  <2>1. Len(p) \in Nat /\ Len(p) >= 1 /\ p \in Seq(g.nodes)
    BY DEF IsPath, IsTrail
  <2>2. Len(p) - 1 \in Nat /\ Len(p) = (Len(p) - 1) + 1
    BY <2>1
  <2> QED BY <2>1, <2>2
<1>2. PICK T : T = {q \in Seq(g.nodes) : IsTrail(g, q, s) /\ Len(q) = k + 1}
  OBVIOUS
<1>3. p \in T /\ p[Len(p)] = x /\ y \notin ToSet(p)
  BY <1>1, <1>2 DEF IsPath, ToSet
<1>4. Append(p, y) \in Longer(g, T)
  BY <1>3, LongerInto
<1>5. IsTrail(g, Append(p, y), s)
  BY <1>2, <1>4, TrailLonger
<1>6. PICK q : q = Append(p, y)
  OBVIOUS
<1>7. q[Len(q)] = y
  BY <1>1, <1>6
<1> QED BY <1>5, <1>6, <1>7 DEF IsPath

\* The beginning of a path is a path.
LEMMA PathBegun ==
    ASSUME NEW g, NEW p, NEW s, IsTrail(g, p, s), NEW j \in 1..Len(p)
    PROVE  \E q : IsPath(g, q, s, p[j])
<1>1. PICK q : q = [i \in 1..j |-> p[i]]
  OBVIOUS
<1>2. p \in Seq(g.nodes) /\ Len(p) \in Nat
  BY DEF IsTrail
<1>3. q \in Seq(g.nodes) /\ Len(q) = j /\ \A i \in 1..j : q[i] = p[i] /\ i \in 1..Len(p)
  BY <1>1, <1>2
<1>4. \A i \in 1..(j - 1) : i \in 1..(Len(p) - 1) /\ i \in 1..j /\ i + 1 \in 1..j
  BY <1>2
<1>5. ASSUME NEW i \in 1..(Len(q) - 1) PROVE {q[i], q[i + 1]} \in g.edges
  <2>1. i \in 1..(Len(p) - 1) /\ q[i] = p[i] /\ q[i + 1] = p[i + 1]
    BY <1>3, <1>4
  <2>2. {p[i], p[i + 1]} \in g.edges
    BY <2>1 DEF IsTrail
  <2> QED BY <2>1, <2>2
<1>6. \A a, b \in 1..Len(q) : q[a] = q[b] => a = b
  BY <1>3 DEF IsTrail
<1>7. q[1] = s /\ Len(q) >= 1
  BY <1>2, <1>3 DEF IsTrail
<1>8. IsTrail(g, q, s)
  BY <1>3, <1>5, <1>6, <1>7, Zenon DEF IsTrail
<1>9. q[Len(q)] = p[j]
  BY <1>3
<1> QED BY <1>8, <1>9 DEF IsPath

\* A node is in the component of another exactly when a simple path leads there.
LEMMA ConnectedByPath ==
    ASSUME NEW g, IsFiniteSet(g.nodes), NEW s \in g.nodes, NEW t
    PROVE  t \in ComponentOf(g, s) <=> \E p : IsPath(g, p, s, t)
<1> DEFINE T == {x \in g.nodes : \E p : IsPath(g, p, s, x)}
<1>1. s \in T
  <2>1. PICK p : p = <<s>>
    OBVIOUS
  <2>2. p \in Seq(g.nodes) /\ Len(p) = 1 /\ p[1] = s
    BY <2>1, SingletonPath
  <2>3. IsPath(g, p, s, s)
    BY <2>2 DEF IsPath, IsTrail
  <2> QED BY <2>3
<1>2. Closed(g, T)
  <2> SUFFICES ASSUME NEW x \in T, NEW y \in g.nodes, {x, y} \in g.edges
               PROVE  \E q : IsPath(g, q, s, y)
    BY DEF Closed
  <2>1. PICK p : IsPath(g, p, s, x)
    OBVIOUS
  <2>2. CASE \A i \in 1..Len(p) : p[i] # y
    BY <2>1, <2>2, PathExtended
  <2>3. CASE \E i \in 1..Len(p) : p[i] = y
    BY <2>1, <2>3, PathBegun DEF IsPath
  <2> QED BY <2>2, <2>3
<1>3. t \in ComponentOf(g, s) => \E p : IsPath(g, p, s, t)
  <2>1. ComponentOf(g, s) \subseteq T
    <3> HIDE DEF T
    <3> QED BY <1>1, <1>2, ComponentIsLeast
  <2> QED BY <2>1
<1>4. ASSUME NEW p, IsPath(g, p, s, t) PROVE t \in ComponentOf(g, s)
  <2> DEFINE C == ComponentOf(g, s)
             D == {k \in Nat : k + 1 \in 1..Len(p) => p[k + 1] \in C}
  <2>1. s \in C /\ Closed(g, C)
    BY ComponentIsLeast
  <2>2. p \in Seq(g.nodes) /\ Len(p) \in Nat /\ Len(p) >= 1 /\ p[1] = s /\ p[Len(p)] = t
    BY <1>4 DEF IsPath, IsTrail
  <2>7. \A i \in 1..(Len(p) - 1) : {p[i], p[i + 1]} \in g.edges
    BY <1>4, Zenon DEF IsPath, IsTrail
  <2> HIDE DEF C
  <2>3. 0 \in D
    BY <2>1, <2>2
  <2>4. ASSUME NEW k \in Nat, k \in D PROVE k + 1 \in D
    <3> SUFFICES ASSUME k + 1 + 1 \in 1..Len(p) PROVE p[k + 1 + 1] \in C
      OBVIOUS
    <3>1. k + 1 \in 1..Len(p) /\ k + 1 \in 1..(Len(p) - 1)
      BY <2>2
    <3>2. p[k + 1] \in C /\ p[k + 1 + 1] \in g.nodes
      BY <2>2, <2>4, <3>1
    <3>3. {p[k + 1], p[k + 1 + 1]} \in g.edges
      BY <2>7, <3>1
    <3> QED BY <2>1, <3>2, <3>3 DEF Closed
  <2> HIDE DEF D
  <2>5. \A k \in Nat : k \in D
    BY <2>3, <2>4, Induction
  <2>6. Len(p) - 1 \in D /\ Len(p) - 1 + 1 = Len(p) /\ Len(p) \in 1..Len(p)
    BY <2>2, <2>5
  <2> QED BY <2>2, <2>6 DEF D, C
<1> QED BY <1>3, <1>4

UsesHop(q, e) == \E m \in 1..(Len(q) - 1) : Hop(q, m) = e

\* Two simple paths with the same ends are the same when one uses all hops of
\* the other.
LEMMA SameHopsSamePath ==
    ASSUME NEW g, NEW s, NEW t, NEW p, IsPath(g, p, s, t), NEW q, IsPath(g, q, s, t),
           \A k \in 1..(Len(p) - 1) : UsesHop(q, Hop(p, k))
    PROVE  p = q
<1>1. /\ p \in Seq(g.nodes) /\ Len(p) \in Nat /\ Len(p) >= 1 /\ p[1] = s /\ p[Len(p)] = t
      /\ \A i, j \in 1..Len(p) : p[i] = p[j] => i = j
  BY DEF IsPath, IsTrail
<1>2. /\ q \in Seq(g.nodes) /\ Len(q) \in Nat /\ Len(q) >= 1 /\ q[1] = s /\ q[Len(q)] = t
      /\ \A i, j \in 1..Len(q) : q[i] = q[j] => i = j
  BY DEF IsPath, IsTrail
<1> DEFINE Agree(k) == \A i \in 1..k : i \in 1..Len(q) /\ p[i] = q[i]
           D == {k \in Nat : k + 1 \in 1..Len(p) => Agree(k + 1)}
<1>3. 0 \in D
  <2>1. Agree(1)
    BY <1>1, <1>2
  <2> QED BY <2>1
<1>4. ASSUME NEW k \in Nat, k \in D PROVE k + 1 \in D
  <2> HIDE DEF Agree
  <2> SUFFICES ASSUME k + 1 + 1 \in 1..Len(p) PROVE Agree(k + 1 + 1)
    OBVIOUS
  <2>1. PICK i \in Nat : i = k + 1
    OBVIOUS
  <2>2. i \in 1..Len(p) /\ i \in 1..(Len(p) - 1) /\ i + 1 \in 1..Len(p) /\ Agree(i)
    BY <1>1, <1>4, <2>1
  <2>3. PICK m \in 1..(Len(q) - 1) : Hop(q, m) = Hop(p, i)
    BY <2>2 DEF UsesHop
  <2>4. m \in 1..Len(q) /\ m + 1 \in 1..Len(q) /\ i \in 1..i /\ m \in Nat
    BY <1>2, <2>2
  <2>5. p[i] = q[i] /\ i \in 1..Len(q)
    BY <2>2, <2>4 DEF Agree
  <2>6. /\ q[m] = p[i] \/ q[m + 1] = p[i]
        /\ q[m] = p[i] => q[m + 1] = p[i + 1] \/ p[i + 1] = p[i]
        /\ q[m + 1] = p[i] => q[m] = p[i + 1] \/ p[i + 1] = p[i]
    BY <2>3 DEF Hop
  <2>7. p[i + 1] # p[i]
    BY <1>1, <2>2
  <2>8. m = i /\ q[i + 1] = p[i + 1]
    <3>1. CASE q[m] = p[i]
      <4>1. m = i
        BY <1>2, <2>4, <2>5, <3>1
      <4> QED BY <2>6, <2>7, <3>1, <4>1
    <3>2. CASE q[m + 1] = p[i]
      <4>1. m + 1 = i
        BY <1>2, <2>4, <2>5, <3>2
      <4>2. m \in 1..i /\ m \in 1..Len(p)
        BY <2>2, <2>4, <4>1
      <4>3. p[m] = q[m]
        BY <2>2, <4>2 DEF Agree
      <4>4. p[m] = p[i + 1]
        BY <2>6, <2>7, <3>2, <4>3
      <4>5. m = i + 1
        BY <1>1, <2>2, <4>2, <4>4
      <4> QED BY <2>2, <4>1, <4>5
    <3> QED BY <2>6, <3>1, <3>2
  <2>9. ASSUME NEW j \in 1..(i + 1) PROVE j \in 1..Len(q) /\ p[j] = q[j]
    <3>1. CASE j \in 1..i
      BY <2>2, <3>1 DEF Agree
    <3>2. CASE j = i + 1
      BY <2>4, <2>8, <3>2
    <3> QED BY <2>1, <3>1, <3>2
  <2> QED BY <2>1, <2>9 DEF Agree
<1> HIDE DEF D
<1>5. \A k \in Nat : k \in D
  BY <1>3, <1>4, Induction
<1>6. Agree(Len(p))
  <2>1. Len(p) - 1 \in D /\ Len(p) - 1 + 1 = Len(p) /\ Len(p) \in 1..Len(p)
    BY <1>1, <1>5
  <2> QED BY <2>1 DEF D
<1>7. Len(p) = Len(q)
  <2>1. Len(p) \in 1..Len(p) /\ Len(q) \in 1..Len(q)
    BY <1>1, <1>2
  <2>2. Len(p) \in 1..Len(q) /\ q[Len(p)] = t
    BY <1>1, <1>6, <2>1
  <2> QED BY <1>2, <2>1, <2>2
<1> QED BY <1>1, <1>2, <1>6, <1>7


\* There are finitely many simple paths.
LEMMA SimplePathsFinite ==
    ASSUME NEW g, IsFiniteSet(g.nodes), NEW s \in g.nodes, NEW t
    PROVE  IsFiniteSet(SimplePaths(g, s, t))
<1> DEFINE P == SimplePaths(g, s, t)
           N == Cardinality(g.nodes)
           Graph(p) == {<<i, p[i]>> : i \in 1..Len(p)}
           Grid == SUBSET ((1..N) \X g.nodes)
           Images == {Graph(p) : p \in P}
<1>1. P = {p \in Seq(g.nodes) : IsPath(g, p, s, t)}
  BY SimplePathsArePaths
<1>2. N \in Nat
  BY FS_CardinalityType
<1> HIDE DEF P
<1>3. ASSUME NEW p \in P PROVE p \in Seq(g.nodes) /\ Len(p) \in Nat /\ Len(p) <= N
  <2>1. p \in Seq(g.nodes) /\ IsTrail(g, p, s)
    BY <1>1 DEF IsPath
  <2>2. Len(p) <= N
    BY <2>1, TrailIsShort
  <2> QED BY <2>1, <2>2
<1> HIDE DEF N
<1>4. ASSUME NEW p \in P PROVE Graph(p) \in Grid
  <2>1. \A i \in 1..Len(p) : i \in 1..N /\ p[i] \in g.nodes
    BY <1>2, <1>3
  <2> QED BY <2>1
<1>5. IsFiniteSet(Images)
  <2>1. IsFiniteSet((1..N) \X g.nodes)
    <3>1. PICK I : I = 1..N
      OBVIOUS
    <3>2. IsFiniteSet(I)
      BY <1>2, <3>1, FS_Interval
    <3> QED BY <3>1, <3>2, FS_Product
  <2>2. IsFiniteSet(Grid)
    BY <2>1, FS_SUBSET
  <2>3. Images \subseteq Grid
    <3> HIDE DEF Graph, Grid
    <3> QED BY <1>4
  <2> HIDE DEF Grid, Images
  <2> QED BY <2>2, <2>3, FS_Subset
<1>6. ASSUME NEW p \in P, NEW q \in P, Graph(p) = Graph(q) PROVE p = q
  <2>1. p \in Seq(g.nodes) /\ q \in Seq(g.nodes) /\ Len(p) \in Nat /\ Len(q) \in Nat
    BY <1>3
  <2>2. \A i \in 1..Len(p) : i \in 1..Len(q) /\ p[i] = q[i]
    <3> SUFFICES ASSUME NEW i \in 1..Len(p) PROVE i \in 1..Len(q) /\ p[i] = q[i]
      OBVIOUS
    <3>1. <<i, p[i]>> \in Graph(q)
      BY <1>6
    <3> QED BY <3>1
  <2>3. \A i \in 1..Len(q) : i \in 1..Len(p)
    <3> SUFFICES ASSUME NEW i \in 1..Len(q) PROVE i \in 1..Len(p)
      OBVIOUS
    <3>1. <<i, q[i]>> \in Graph(p)
      BY <1>6
    <3> QED BY <3>1
  <2>4. Len(p) = Len(q)
    <3>1. Len(p) = 0 \/ Len(p) \in 1..Len(p)
      BY <2>1
    <3>2. Len(q) = 0 \/ Len(q) \in 1..Len(q)
      BY <2>1
    <3> QED BY <2>1, <2>2, <2>3, <3>1, <3>2
  <2> QED BY <2>1, <2>2, <2>4
<1> DEFINE f == [G \in Images |-> CHOOSE p \in P : Graph(p) = G]
<1>7. f \in Surjection(Images, P)
  <2> HIDE DEF Graph
  <2>1. ASSUME NEW p \in P PROVE Graph(p) \in Images /\ f[Graph(p)] = p
    <3>1. \A q \in P : Graph(q) = Graph(p) => q = p
      BY <1>6
    <3> QED BY <3>1
  <2>2. ASSUME NEW G \in Images PROVE f[G] \in P
    <3>1. PICK p \in P : G = Graph(p)
      OBVIOUS
    <3> QED BY <2>1, <3>1
  <2> HIDE DEF Images
  <2>3. f \in [Images -> P]
    BY <2>2
  <2> HIDE DEF f
  <2> QED BY <2>1, <2>3 DEF Surjection
<1> HIDE DEF f, Images
<1>8. IsFiniteSet(P)
  BY <1>5, <1>7, FS_Surjection
<1> QED BY <1>8 DEF P

\* A set has two members when it has one besides a given one.
LEMMA AtLeastTwo ==
    ASSUME NEW S, IsFiniteSet(S), NEW x \in S
    PROVE  Min({2, Cardinality(S)}) >= 2 <=> \E y \in S : y # x
<1>1. Cardinality(S) \in Nat
  BY FS_CardinalityType
<1>2. Min({2, Cardinality(S)}) >= 2 <=> Cardinality(S) >= 2
  <2>1. PICK c \in Nat : c = Cardinality(S)
    BY <1>1
  <2>2. PICK m : m = Min({2, c})
    OBVIOUS
  <2>3. m \in {2, c} /\ \A y \in {2, c} : m <= y
    BY <2>1, <2>2, MinOfNaturals
  <2>4. m = 2 \/ m = c
    BY <2>3
  <2>5. m <= 2 /\ m <= c
    BY <2>3
  <2> QED BY <2>1, <2>2, <2>4, <2>5
<1>3. ASSUME NEW y \in S, y # x PROVE Cardinality(S) >= 2
  <2>1. IsFiniteSet(S \ {x}) /\ Cardinality(S \ {x}) = Cardinality(S) - 1
    <3>1. /\ IsFiniteSet(S \ {x})
          /\ Cardinality(S \ {x}) = IF x \in S THEN Cardinality(S) - 1 ELSE Cardinality(S)
      BY FS_RemoveElement
    <3> QED BY <3>1
  <2>2. Cardinality(S \ {x}) # 0 /\ Cardinality(S \ {x}) \in Nat
    BY <1>3, <2>1, FS_EmptySet, FS_CardinalityType
  <2> QED BY <1>1, <2>1, <2>2
<1>4. ASSUME \A y \in S : y = x PROVE ~(Cardinality(S) >= 2)
  <2>1. S = {x}
    BY <1>4
  <2>2. Cardinality(S) = 1
    BY <2>1, FS_Singleton
  <2> QED BY <2>2
<1> QED BY <1>2, <1>3, <1>4

\* Taking a subset away takes its size away.
LEMMA FewerElements ==
    ASSUME NEW S, IsFiniteSet(S), NEW T \in SUBSET S
    PROVE  Cardinality(S \ T) = Cardinality(S) - Cardinality(T) /\ IsFiniteSet(S \ T)
<1>1. S \cap T = T
  OBVIOUS
<1> QED BY <1>1, FS_Difference
=============================================================================
