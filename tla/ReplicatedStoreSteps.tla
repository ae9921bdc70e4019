------------------------ MODULE ReplicatedStoreSteps ------------------------
(***************************************************************************)
(* What ReplicatedStoreProofs rests on: what the sequences of a commit and *)
(* of a repair hold, that every state is well-typed, and what each step    *)
(* writes, stated field by field.                                          *)
(***************************************************************************)
EXTENDS ReplicatedStore, FiniteSetTheorems, SequenceTheorems, TLAPS

Among(s) == {s[n] : n \in DOMAIN s}
NoRepeats(s) == \A m, n \in DOMAIN s : s[m] = s[n] => m = n
DataFirst(s) == \A m, n \in DOMAIN s : s[m] \in Markers /\ s[n] \notin Markers => n < m

-----------------------------------------------------------------------------
(* Sequences.                                                              *)

LEMMA TakeHead ==
    ASSUME NEW S, NEW s \in Seq(S), s # <<>>
    PROVE  /\ Head(s) \in S /\ Tail(s) \in Seq(S)
           /\ Head(s) \in Among(s)
           /\ Among(s) = {Head(s)} \cup Among(Tail(s))
           /\ Len(s) \in Nat \ {0} /\ Len(Tail(s)) = Len(s) - 1
           /\ NoRepeats(s) => NoRepeats(Tail(s)) /\ Head(s) \notin Among(Tail(s))
           /\ DataFirst(s) => DataFirst(Tail(s))
           /\ DataFirst(s) /\ Head(s) \in Markers => \A f \in Among(s) : f \in Markers
<1>1. PICK x \in S, r \in Seq(S) : x = Head(s) /\ r = Tail(s)
  BY HeadTailProperties
<1>2. /\ Len(r) \in Nat /\ Len(s) = Len(r) + 1 /\ s[1] = x
      /\ DOMAIN s = 1 .. Len(s) /\ DOMAIN r = 1 .. Len(r)
      /\ \A i \in 1 .. Len(r) : r[i] = s[i + 1]
  BY <1>1, HeadTailProperties
<1>3. 1 \in DOMAIN s /\ \A i \in DOMAIN r : i + 1 \in DOMAIN s /\ i + 1 # 1 /\ i \in Nat
  BY <1>2
<1>4. \A i \in DOMAIN s : i # 1 => i - 1 \in DOMAIN r /\ r[i - 1] = s[i]
  <2> SUFFICES ASSUME NEW i \in DOMAIN s, i # 1 PROVE i - 1 \in DOMAIN r /\ r[i - 1] = s[i]
    OBVIOUS
  <2>1. i \in Nat /\ i - 1 \in 1 .. Len(r) /\ (i - 1) + 1 = i
    BY <1>2
  <2> QED BY <1>2, <2>1
<1>5. Among(s) = {x} \cup Among(r)
  <2>1. Among(s) \subseteq {x} \cup Among(r)
    BY <1>2, <1>4 DEF Among
  <2>2. {x} \cup Among(r) \subseteq Among(s)
    BY <1>2, <1>3 DEF Among
  <2> QED BY <2>1, <2>2
<1>6. ASSUME NoRepeats(s) PROVE NoRepeats(r) /\ x \notin Among(r)
  <2>1. ASSUME NEW m \in DOMAIN r, NEW n \in DOMAIN r, r[m] = r[n] PROVE m = n
    <3>1. m + 1 = n + 1
      BY <1>2, <1>3, <1>6, <2>1 DEF NoRepeats
    <3> QED BY <1>3, <3>1
  <2>2. ASSUME NEW n \in DOMAIN r, r[n] = x PROVE FALSE
    BY <1>2, <1>3, <1>6, <2>2 DEF NoRepeats
  <2> QED BY <2>1, <2>2 DEF NoRepeats, Among
<1>7. ASSUME DataFirst(s) PROVE DataFirst(r)
  <2> SUFFICES ASSUME NEW m \in DOMAIN r, NEW n \in DOMAIN r, r[m] \in Markers, r[n] \notin Markers
               PROVE  n < m
    BY DEF DataFirst
  <2>1. n + 1 < m + 1
    BY <1>2, <1>3, <1>7 DEF DataFirst
  <2> QED BY <1>3, <2>1
<1>8. ASSUME DataFirst(s), x \in Markers, NEW f \in Among(s) PROVE f \in Markers
  <2>1. PICK n \in DOMAIN s : f = s[n]
    BY DEF Among
  <2>2. ~ (n < 1)
    BY <1>2
  <2> QED BY <1>2, <1>3, <1>8, <2>1, <2>2 DEF DataFirst
<1> QED
  BY <1>1, <1>2, <1>3, <1>5, <1>6, <1>7, <1>8

LEMMA EmptyHasNone ==
    /\ Among(<<>>) = {} /\ NoRepeats(<<>>) /\ DataFirst(<<>>) /\ Len(<<>>) = 0
    /\ \A S : <<>> \in Seq(S)
  BY DEF Among, NoRepeats, DataFirst

\* What a sequence holds is no more than it is long; without repeats it is as much.
LEMMA AmongIsFinite ==
    ASSUME NEW S, NEW s \in Seq(S)
    PROVE  IsFiniteSet(Among(s)) /\ Among(s) \subseteq S
<1>1. DOMAIN s = 1 .. Len(s) /\ Len(s) \in Nat /\ s \in [1 .. Len(s) -> S]
  OBVIOUS
<1>2. s \in Surjection(1 .. Len(s), Among(s))
  <2>1. s \in [1 .. Len(s) -> Among(s)]
    BY <1>1 DEF Among
  <2>2. \A t \in Among(s) : \E i \in 1 .. Len(s) : s[i] = t
    BY <1>1 DEF Among
  <2> QED BY <2>1, <2>2 DEF Surjection
<1>3. IsFiniteSet(1 .. Len(s))
  BY <1>1, FS_Interval
<1> QED
  BY <1>1, <1>2, <1>3, FS_Surjection DEF Among

\* One step of the walk over FileOrder that InPathOrder takes.
OneOn(S, q, n) == IF FileOrder[n] \in S THEN Append(q, FileOrder[n]) ELSE q

Walks(S, n, g) == g = [i \in 0 .. n |-> IF i = 0 THEN <<>> ELSE OneOn(S, g[i - 1], i)]

\* The walk can be taken: were there a first length without one, the walk that is
\* one file shorter would extend to it.
LEMMA WalkExists ==
    ASSUME NEW S, NEW N \in Nat
    PROVE  \E g : Walks(S, N, g)
<1> DEFINE Bad == {n \in Nat : ~ \E g : Walks(S, n, g)}
<1> SUFFICES ASSUME Bad # {} PROVE FALSE
  OBVIOUS
<1>1. PICK n \in Bad : \A y \in Bad : ~ (<<y, n>> \in OpToRel(<, Nat))
  BY NatLessThanWellFounded, WFMin
<1>2. n # 0
  <2>1. Walks(S, 0, [i \in 0 .. 0 |-> <<>>])
    BY DEF Walks
  <2> QED BY <2>1
<1>3. n \in Nat /\ n - 1 \in Nat /\ n - 1 < n
  BY <1>2
<1>4. PICK g : Walks(S, n - 1, g)
  BY <1>1, <1>3 DEF OpToRel
<1> DEFINE h == [i \in 0 .. n |-> IF i = n THEN OneOn(S, g[n - 1], n) ELSE g[i]]
<1>5. \A i \in 0 .. n - 1 : g[i] = IF i = 0 THEN <<>> ELSE OneOn(S, g[i - 1], i)
  BY <1>4 DEF Walks
<1>6. ASSUME NEW i \in 0 .. n PROVE h[i] = IF i = 0 THEN <<>> ELSE OneOn(S, h[i - 1], i)
  <2>1. CASE i = n
    <3>1. h[i - 1] = g[n - 1] /\ h[i] = OneOn(S, g[n - 1], n)
      BY <1>3, <2>1
    <3> QED BY <1>2, <2>1, <3>1
  <2>2. CASE i # n /\ i # 0
    <3>1. i \in 0 .. n - 1 /\ i - 1 \in 0 .. n /\ i - 1 # n
      BY <1>3, <2>2
    <3>2. h[i - 1] = g[i - 1] /\ h[i] = g[i]
      BY <2>2, <3>1
    <3> QED BY <1>5, <2>2, <3>1, <3>2
  <2>3. CASE i = 0
    <3>1. 0 \in 0 .. n - 1 /\ h[0] = g[0]
      BY <1>2, <1>3
    <3> QED BY <1>5, <2>3, <3>1
  <2> QED BY <2>1, <2>2, <2>3
<1>7. h = [i \in 0 .. n |-> h[i]]
  OBVIOUS
<1> HIDE DEF h
<1>8. Walks(S, n, h)
  BY <1>6, <1>7 DEF Walks
<1> QED
  BY <1>1, <1>8

\* After n files the walk holds those of them that are in S.
LEMMA WalkHolds ==
    ASSUME NEW S, NEW N \in Nat, N <= Len(FileOrder), NEW g, Walks(S, N, g)
    PROVE  g[N] \in Seq(S \cap Files) /\ Among(g[N]) = {FileOrder[i] : i \in 1 .. N} \cap S
<1> DEFINE Good(n) == /\ g[n] \in Seq(S \cap Files)
                      /\ Among(g[n]) = {FileOrder[i] : i \in 1 .. n} \cap S
           Bad == {n \in 0 .. N : ~Good(n)}
<1>0. N \in 0 .. N
  OBVIOUS
<1> SUFFICES ASSUME ~Good(N) PROVE FALSE
  OBVIOUS
<1> HIDE DEF Good
<1>1. PICK n \in 0 .. N : ~Good(n) /\ \A y \in 0 .. N : y < n => Good(y)
  <2>1. Bad \subseteq Nat
    OBVIOUS
  <2>2. PICK n \in Bad : \A y \in Bad : ~ (<<y, n>> \in OpToRel(<, Nat))
    BY <1>0, <2>1, NatLessThanWellFounded, WFMin
  <2>3. ASSUME NEW y \in 0 .. N, y < n PROVE Good(y)
    <3>1. y \in Nat /\ n \in Nat
      OBVIOUS
    <3>2. <<y, n>> \in OpToRel(<, Nat)
      BY <2>3, <3>1 DEF OpToRel
    <3> QED BY <2>2, <3>2
  <2> QED BY <2>2, <2>3
<1> HIDE DEF Bad
<1>2. \A i \in 0 .. N : g[i] = IF i = 0 THEN <<>> ELSE OneOn(S, g[i - 1], i)
  BY DEF Walks
<1>3. n # 0
  <2>1. g[0] = <<>>
    BY <1>2
  <2>2. {FileOrder[i] : i \in 1 .. 0} = {}
    OBVIOUS
  <2> QED BY <1>1, <2>1, <2>2, EmptyHasNone DEF Good
<1>4. n \in 1 .. N /\ n - 1 \in 0 .. N /\ n - 1 < n /\ n - 1 \in Nat
  BY <1>3
<1>5. Good(n - 1)
  BY <1>1, <1>4
<1>6. g[n] = OneOn(S, g[n - 1], n)
  BY <1>2, <1>3
<1>7. FileOrder[n] \in Files
  BY <1>4, ReplicatedStoreAssumption DEF Files
<1>8. {FileOrder[i] : i \in 1 .. n} = {FileOrder[i] : i \in 1 .. n - 1} \cup {FileOrder[n]}
  <2>1. \A i : i \in 1 .. n <=> i \in 1 .. n - 1 \/ i = n
    BY <1>4
  <2> QED BY <2>1
<1>9. CASE FileOrder[n] \in S
  <2>1. PICK q \in Seq(S \cap Files), x \in S \cap Files : q = g[n - 1] /\ x = FileOrder[n]
    BY <1>5, <1>7, <1>9 DEF Good
  <2>2. g[n] = Append(q, x)
    BY <1>6, <1>9, <2>1 DEF OneOn
  <2>3. /\ Append(q, x) \in Seq(S \cap Files) /\ Len(q) \in Nat
        /\ DOMAIN q = 1 .. Len(q) /\ DOMAIN Append(q, x) = 1 .. Len(q) + 1
        /\ \A i \in 1 .. Len(q) : Append(q, x)[i] = q[i]
        /\ Append(q, x)[Len(q) + 1] = x
    BY AppendProperties
  <2>4. \A i : i \in 1 .. Len(q) + 1 <=> i \in 1 .. Len(q) \/ i = Len(q) + 1
    BY <2>3
  <2>5. Among(Append(q, x)) = Among(q) \cup {x}
    BY <2>3, <2>4 DEF Among
  <2>6. Among(q) = S \cap {FileOrder[i] : i \in 1 .. n - 1}
    BY <1>5, <2>1 DEF Good
  <2>7. Among(g[n]) = S \cap {FileOrder[i] : i \in 1 .. n}
    BY <1>8, <1>9, <2>1, <2>2, <2>5, <2>6
  <2> QED BY <1>1, <2>2, <2>3, <2>7 DEF Good
<1>10. CASE FileOrder[n] \notin S
  <2>1. g[n] = g[n - 1]
    BY <1>6, <1>10 DEF OneOn
  <2> QED BY <1>1, <1>5, <1>8, <1>10, <2>1 DEF Good
<1> QED
  BY <1>9, <1>10

LEMMA InPathOrderHolds ==
    ASSUME NEW S
    PROVE  InPathOrder(S) \in Seq(S \cap Files) /\ Among(InPathOrder(S)) = S \cap Files
<1> DEFINE N == Len(FileOrder)
           upto[i \in 0 .. N] == IF i = 0 THEN <<>>
                                 ELSE IF FileOrder[i] \in S THEN Append(upto[i - 1], FileOrder[i])
                                 ELSE upto[i - 1]
<1>1. N \in Nat /\ DOMAIN FileOrder = 1 .. N
  BY ReplicatedStoreAssumption
<1>2. InPathOrder(S) = upto[N]
  BY DEF InPathOrder
<1>3. Walks(S, N, upto)
  <2>1. \E g : Walks(S, N, g)
    BY <1>1, WalkExists
  <2> QED BY <2>1 DEF Walks, OneOn
<1> HIDE DEF upto, N
<1>0. N <= Len(FileOrder)
  BY <1>1 DEF N
<1>4. upto[N] \in Seq(S \cap Files) /\ Among(upto[N]) = {FileOrder[i] : i \in 1 .. N} \cap S
  BY <1>0, <1>1, <1>3, WalkHolds
<1> QED
  BY <1>1, <1>2, <1>4 DEF Files

\* A commit takes every file of the scope, the data before the markers.
LEMMA CommitOrderHolds ==
    ASSUME NEW S \in SUBSET Files
    PROVE  /\ CommitOrder(S) \in Seq(Files) /\ Among(CommitOrder(S)) = S
           /\ DataFirst(CommitOrder(S))
<1>1. PICK p \in Seq(Files), q \in Seq(Files) :
        /\ p = InPathOrder(S \ Markers) /\ q = InPathOrder(S \cap Markers)
        /\ Among(p) = S \ Markers /\ Among(q) = S \cap Markers
  <2>1. /\ (S \ Markers) \cap Files = S \ Markers /\ (S \cap Markers) \cap Files = S \cap Markers
        /\ Seq(S \ Markers) \subseteq Seq(Files) /\ Seq(S \cap Markers) \subseteq Seq(Files)
    OBVIOUS
  <2> QED BY <2>1, InPathOrderHolds
<1>2. CommitOrder(S) = p \o q
  BY <1>1 DEF CommitOrder
<1>3. /\ p \o q \in Seq(Files) /\ Len(p) \in Nat /\ Len(q) \in Nat
      /\ DOMAIN p = 1 .. Len(p) /\ DOMAIN q = 1 .. Len(q)
      /\ DOMAIN (p \o q) = 1 .. Len(p) + Len(q)
      /\ \A i \in 1 .. Len(p) + Len(q) : (p \o q)[i] = IF i <= Len(p) THEN p[i] ELSE q[i - Len(p)]
  BY ConcatProperties
<1>4. \A i \in DOMAIN (p \o q) : \/ i <= Len(p) /\ i \in DOMAIN p /\ (p \o q)[i] = p[i]
                                 \/ ~(i <= Len(p)) /\ i - Len(p) \in DOMAIN q /\ (p \o q)[i] = q[i - Len(p)]
  BY <1>3
<1>5. \A i \in DOMAIN p : i \in DOMAIN (p \o q) /\ (p \o q)[i] = p[i]
  BY <1>3
<1>6. \A i \in DOMAIN q : i + Len(p) \in DOMAIN (p \o q) /\ (p \o q)[i + Len(p)] = q[i]
  <2> SUFFICES ASSUME NEW i \in DOMAIN q
               PROVE  i + Len(p) \in DOMAIN (p \o q) /\ (p \o q)[i + Len(p)] = q[i]
    OBVIOUS
  <2>1. i \in Nat /\ i + Len(p) \in 1 .. Len(p) + Len(q) /\ ~(i + Len(p) <= Len(p))
        /\ (i + Len(p)) - Len(p) = i
    BY <1>3
  <2> QED BY <1>3, <2>1
<1>7. Among(p \o q) = Among(p) \cup Among(q)
  <2>1. Among(p \o q) \subseteq Among(p) \cup Among(q)
    BY <1>4 DEF Among
  <2>2. Among(p) \subseteq Among(p \o q)
    BY <1>5 DEF Among
  <2>3. Among(q) \subseteq Among(p \o q)
    BY <1>6 DEF Among
  <2> QED BY <2>1, <2>2, <2>3
<1>8. DataFirst(p \o q)
  <2> SUFFICES ASSUME NEW m \in DOMAIN (p \o q), NEW n \in DOMAIN (p \o q),
                      (p \o q)[m] \in Markers, (p \o q)[n] \notin Markers
               PROVE  n < m
    BY DEF DataFirst
  <2>1. ~(m <= Len(p))
    BY <1>1, <1>4 DEF Among
  <2>2. n <= Len(p)
    BY <1>1, <1>4 DEF Among
  <2> QED BY <1>3, <2>1, <2>2
<1> QED
  BY <1>1, <1>2, <1>3, <1>7, <1>8

-----------------------------------------------------------------------------
(* What each step writes, field by field.                                  *)

OthersWork(w) == \A x \in Workers : x # w => job'[x] = job[x]
SameDisk == \A r \in Instances, g \in Files : disk'[r][g] = disk[r][g]
SameRecs == \A r \in Instances, g \in Files : recs'[r][g] = recs[r][g]

LEMMA ConstantsTyped ==
    /\ \A w \in Workers : Home[w] \in Instances
    /\ \A k \in Kinds : Writes[k] \in Seq(Files) /\ Needs[k] \subseteq Files
    /\ \A i \in Instances : Replicas[i] \in Seq(Instances) /\ MinReplicas[i] \in Nat
    /\ Missing \in Content /\ MaxVersion \in Nat
  BY ReplicatedStoreAssumption DEF Missing, Content

Jobs  == [pc : {"idle", "writing", "recording", "replicating", "copying"},
          todo : Seq(Files), wrote : [Files -> 0..MaxVersion], rels : Seq(Files),
          hashes : [Files -> Content], left : Seq(Instances), held : Content, reached : Nat]
Fixes == [todo : Seq(Files), recs : [Instances -> [Files -> Content]],
          left : Seq(Instances), lost : SUBSET Files, over : Seq(Instances),
          bad : SUBSET Instances, from : Instances, hash : Content, held : Content]

\* Type correctness, taken apart.
LEMMA Typed ==
    ASSUME TypeOK
    PROVE  /\ job \in [Workers -> Jobs] /\ fix \in [Instances -> Fixes]
           /\ disk \in [Instances -> [Files -> Content]]
           /\ recs \in [Instances -> [Files -> Content]]
           /\ newest \in [Files -> 0..MaxVersion]
           /\ acked \in [Instances -> [Files -> 0..MaxVersion]]
           /\ up \in [Instances -> {"up", "repairing", "down"}]
           /\ \A w \in Workers :
                 /\ job[w] \in Jobs /\ job[w].todo \in Seq(Files) /\ job[w].rels \in Seq(Files)
                 /\ job[w].left \in Seq(Instances) /\ job[w].reached \in Nat
                 /\ job[w].held \in Content /\ job[w].hashes \in [Files -> Content]
                 /\ job[w].wrote \in [Files -> 0..MaxVersion]
                 /\ job[w].pc \in {"idle", "writing", "recording", "replicating", "copying"}
                 /\ job[w].pc # "idle" => up[Home[w]] = "up"
                 /\ job[w].pc = "copying" => job[w].todo # <<>> /\ job[w].left # <<>>
           /\ \A i \in Instances :
                 /\ fix[i].todo \in Seq(Files) /\ fix[i].left \in Seq(Instances)
                 /\ fix[i].recs \in [Instances -> [Files -> Content]]
                 /\ fix[i].lost \in SUBSET Files
                 /\ fix[i].over \in Seq(Instances) /\ fix[i].from \in Instances
                 /\ fix[i].hash \in Content /\ fix[i].held \in Content
                 /\ up[i] = "repairing" <=> fix[i].left # <<>>
<1>1. job \in [Workers -> Jobs] /\ fix \in [Instances -> Fixes]
  BY DEF TypeOK, Jobs, Fixes
<1>2. \A w \in Workers :
         /\ job[w] \in Jobs /\ job[w].todo \in Seq(Files) /\ job[w].rels \in Seq(Files)
         /\ job[w].left \in Seq(Instances) /\ job[w].reached \in Nat
         /\ job[w].held \in Content /\ job[w].hashes \in [Files -> Content]
         /\ job[w].wrote \in [Files -> 0..MaxVersion]
         /\ job[w].pc \in {"idle", "writing", "recording", "replicating", "copying"}
  BY <1>1 DEF Jobs
<1>3. \A i \in Instances :
         /\ fix[i].todo \in Seq(Files) /\ fix[i].left \in Seq(Instances)
         /\ fix[i].recs \in [Instances -> [Files -> Content]]
         /\ fix[i].lost \in SUBSET Files
         /\ fix[i].over \in Seq(Instances) /\ fix[i].from \in Instances
         /\ fix[i].hash \in Content /\ fix[i].held \in Content
  BY <1>1 DEF Fixes
<1>4. /\ disk \in [Instances -> [Files -> Content]]
      /\ recs \in [Instances -> [Files -> Content]]
      /\ newest \in [Files -> 0..MaxVersion]
      /\ acked \in [Instances -> [Files -> 0..MaxVersion]]
      /\ up \in [Instances -> {"up", "repairing", "down"}]
  BY DEF TypeOK
<1>5. \A w \in Workers :
         /\ job[w].pc # "idle" => up[Home[w]] = "up"
         /\ job[w].pc = "copying" => job[w].todo # <<>> /\ job[w].left # <<>>
  BY DEF TypeOK
<1>6. \A i \in Instances : up[i] = "repairing" <=> fix[i].left # <<>>
  BY DEF TypeOK
<1> QED
  BY <1>1, <1>2, <1>3, <1>4, <1>5, <1>6

\* One file replaced under one root, one job replaced by another.
LEMMA Put ==
    ASSUME NEW d \in [Instances -> [Files -> Content]], NEW r \in Instances, NEW f \in Files,
           NEW c, NEW e, e = [d EXCEPT ![r][f] = c]
    PROVE  /\ e[r][f] = c
           /\ \A s \in Instances, g \in Files : s # r \/ g # f => e[s][g] = d[s][g]
  OBVIOUS

LEMMA PutJob ==
    ASSUME TypeOK, NEW w \in Workers, NEW j, job' = [job EXCEPT ![w] = j]
    PROVE  job'[w] = j /\ OthersWork(w)
  BY Typed DEF OthersWork

LEMMA ReceiveDoes ==
    ASSUME TypeOK, NEW w \in Workers, NEW k \in Kinds, Receive(w, k)
    PROVE  /\ up[Home[w]] = "up" /\ job[w].pc = "idle"
           /\ \A f \in Needs[k] : Has(Home[w], f)
           /\ \A n \in DOMAIN Writes[k] : Writes[k][n] \notin Rewritten => Unused(Writes[k][n])
           /\ overlapped' = (overlapped \/ Busy)
           /\ job'[w].pc = "writing" /\ job'[w].todo = Writes[k]
           /\ \A f \in Files : job'[w].wrote[f] = 0 /\ job'[w].hashes[f] = Missing
           /\ job'[w].left = <<>> /\ job'[w].held = Missing /\ job'[w].reached = 0
           /\ OthersWork(w)
           /\ UNCHANGED <<disk, recs, up, fix, newest, acked, crashes, rots>>
<1>1. job \in [Workers -> Jobs]
  BY Typed
<1>2. job'[w] = [Idle EXCEPT !.pc = "writing", !.todo = Writes[k]] /\ OthersWork(w)
  BY <1>1 DEF Receive, OthersWork
<1>3. /\ job'[w].pc = "writing" /\ job'[w].todo = Writes[k]
      /\ \A f \in Files : job'[w].wrote[f] = 0 /\ job'[w].hashes[f] = Missing
      /\ job'[w].left = <<>> /\ job'[w].held = Missing /\ job'[w].reached = 0
  BY <1>2 DEF Idle
<1>4. /\ up[Home[w]] = "up" /\ job[w].pc = "idle"
      /\ \A f \in Needs[k] : Has(Home[w], f)
      /\ overlapped' = (overlapped \/ Busy)
      /\ UNCHANGED <<disk, recs, up, fix, newest, acked, crashes, rots>>
  BY DEF Receive, SetsOut
<1>5. \A n \in DOMAIN Writes[k] : Writes[k][n] \notin Rewritten => Unused(Writes[k][n])
  BY DEF Receive
<1> QED
  BY <1>2, <1>3, <1>4, <1>5

LEMMA WriteFileDoes ==
    ASSUME TypeOK, NEW w \in Workers, WriteFile(w)
    PROVE  \E i \in Instances, f \in Files, v \in 1 .. MaxVersion :
           /\ i = Home[w] /\ job[w].todo # <<>> /\ f = Head(job[w].todo) /\ v = newest[f] + 1
           /\ job[w].pc = "writing" /\ job'[w].pc = "writing"
           /\ newest'[f] = v /\ \A g \in Files : g # f => newest'[g] = newest[g]
           /\ disk'[i][f] = [v |-> v, ok |-> TRUE]
           /\ \A r \in Instances, g \in Files : r # i \/ g # f => disk'[r][g] = disk[r][g]
           /\ job'[w].todo = Tail(job[w].todo)
           /\ job'[w].wrote[f] = v /\ (\A g \in Files : g # f => job'[w].wrote[g] = job[w].wrote[g])
           /\ job'[w].hashes = job[w].hashes /\ job'[w].left = job[w].left
           /\ job'[w].held = job[w].held /\ job'[w].reached = job[w].reached
           /\ job'[w].rels = job[w].rels
           /\ OthersWork(w)
           /\ UNCHANGED <<recs, up, fix, acked, overlapped, budgets>>
<1>1. PICK i \in Instances, f \in Files, v \in Nat :
         i = Home[w] /\ f = Head(job[w].todo) /\ v = newest[f] + 1
  <2>1. Home[w] \in Instances
    BY ConstantsTyped
  <2>2. job[w].todo \in Seq(Files) /\ job[w].todo # <<>>
    BY Typed DEF WriteFile
  <2>3. PICK f \in Files : f = Head(job[w].todo)
    BY <2>2, TakeHead
  <2>4. newest[f] + 1 \in Nat
    BY Typed, ConstantsTyped
  <2> QED BY <2>1, <2>3, <2>4
<1>2. v \in 1 .. MaxVersion
  BY Typed, <1>1, ConstantsTyped DEF WriteFile
<1>3. job' = [job EXCEPT ![w].todo = Tail(@), ![w].wrote[f] = v]
  BY <1>1 DEF WriteFile
<1>4. newest' = [newest EXCEPT ![f] = v] /\ disk' = [disk EXCEPT ![i][f] = [v |-> v, ok |-> TRUE]]
  BY <1>1 DEF WriteFile
<1>5. /\ newest'[f] = v /\ \A g \in Files : g # f => newest'[g] = newest[g]
      /\ disk'[i][f] = [v |-> v, ok |-> TRUE]
      /\ \A r \in Instances, g \in Files : r # i \/ g # f => disk'[r][g] = disk[r][g]
  BY Typed, <1>4 DEF Jobs
<1>6. /\ job'[w].todo = Tail(job[w].todo) /\ job'[w].pc = job[w].pc
      /\ job'[w].wrote[f] = v /\ \A g \in Files : g # f => job'[w].wrote[g] = job[w].wrote[g]
      /\ job'[w].hashes = job[w].hashes /\ job'[w].left = job[w].left
      /\ job'[w].held = job[w].held /\ job'[w].reached = job[w].reached
      /\ job'[w].rels = job[w].rels
      /\ OthersWork(w)
  BY Typed, <1>3 DEF Jobs, OthersWork
<1>7. /\ job[w].pc = "writing" /\ job[w].todo # <<>>
      /\ UNCHANGED <<recs, up, fix, acked, overlapped, budgets>>
  BY DEF WriteFile
<1>8. i \in Instances /\ f \in Files /\ i = Home[w] /\ f = Head(job[w].todo) /\ v = newest[f] + 1
  BY <1>1
<1> WITNESS i \in Instances, f \in Files, v \in 1 .. MaxVersion
<1> QED
  BY <1>2, <1>5, <1>6, <1>7, <1>8

\* What a write leaves alone.
LEMMA WriteFileKeeps ==
    ASSUME TypeOK, NEW w \in Workers, WriteFile(w)
    PROVE  /\ job[w].pc = "writing" /\ job'[w].pc = "writing"
           /\ job'[w].reached = job[w].reached /\ OthersWork(w)
           /\ UNCHANGED <<recs, up, fix, acked, overlapped, budgets>>
<1>1. PICK i \in Instances, f \in Files, v \in 1 .. MaxVersion :
         /\ job[w].pc = "writing" /\ job'[w].pc = "writing"
         /\ job'[w].reached = job[w].reached /\ OthersWork(w)
         /\ UNCHANGED <<recs, up, fix, acked, overlapped, budgets>>
  BY WriteFileDoes
<1> QED
  BY <1>1

LEMMA StartCommitDoes ==
    ASSUME TypeOK, NEW w \in Workers, StartCommit(w)
    PROVE  /\ job[w].pc = "writing" /\ job[w].todo = <<>> /\ job'[w].pc = "recording"
           /\ Among(job'[w].rels) = FilesUnder(Home[w]) /\ DataFirst(job'[w].rels)
           /\ job'[w].rels \in Seq(Files)
           /\ \A f \in Files : job'[w].hashes[f] = IF Has(Home[w], f) THEN disk[Home[w]][f]
                                                                      ELSE recs[Home[w]][f]
           /\ job'[w].wrote = job[w].wrote /\ job'[w].left = job[w].left
           /\ job'[w].todo = job[w].todo
           /\ job'[w].held = job[w].held /\ job'[w].reached = job[w].reached
           /\ OthersWork(w)
           /\ UNCHANGED <<disk, recs, up, fix, newest, acked, overlapped, budgets>>
<1>1. PICK here \in SUBSET Files : here = FilesUnder(Home[w])
  BY DEF FilesUnder
<1>2. PICK s \in Seq(Files) : s = CommitOrder(here) /\ Among(s) = here /\ DataFirst(s)
  BY <1>1, CommitOrderHolds
<1>3. PICK h : h = [f \in Files |-> IF f \in here THEN disk[Home[w]][f] ELSE recs[Home[w]][f]]
  OBVIOUS
<1>4. job' = [job EXCEPT ![w].pc = "recording", ![w].rels = s, ![w].hashes = h]
  BY <1>1, <1>2, <1>3 DEF StartCommit
<1>5. /\ job'[w].pc = "recording" /\ job'[w].rels = s /\ job'[w].hashes = h
      /\ job'[w].wrote = job[w].wrote /\ job'[w].left = job[w].left /\ job'[w].todo = job[w].todo
      /\ job'[w].held = job[w].held /\ job'[w].reached = job[w].reached /\ OthersWork(w)
  BY Typed, <1>4 DEF Jobs, OthersWork
<1>6. \A f \in Files : h[f] = IF Has(Home[w], f) THEN disk[Home[w]][f] ELSE recs[Home[w]][f]
  BY <1>1, <1>3 DEF FilesUnder
<1> QED
  BY <1>1, <1>2, <1>5, <1>6 DEF StartCommit

LEMMA WriteRecordsDoes ==
    ASSUME TypeOK, NEW w \in Workers, WriteRecords(w)
    PROVE  /\ job[w].pc = "recording" /\ job'[w].pc = "replicating"
           /\ \A f \in Files : recs'[Home[w]][f] = job[w].hashes[f]
           /\ \A r \in Instances, f \in Files : r # Home[w] => recs'[r][f] = recs[r][f]
           /\ job'[w].left = Replicas[Home[w]] /\ job'[w].todo = job[w].rels
           /\ job'[w].rels = job[w].rels /\ job'[w].wrote = job[w].wrote
           /\ job'[w].hashes = job[w].hashes
           /\ job'[w].held = job[w].held /\ job'[w].reached = job[w].reached
           /\ OthersWork(w)
           /\ UNCHANGED <<disk, up, fix, newest, acked, overlapped, budgets>>
  BY Typed, ConstantsTyped DEF WriteRecords, Jobs, OthersWork

LEMMA CompareDoes ==
    ASSUME TypeOK, NEW w \in Workers, Compare(w)
    PROVE  \E i \in Instances, r \in Instances, f \in Files :
           /\ i = Home[w] /\ job[w].pc = "replicating" /\ job[w].left # <<>> /\ job[w].todo # <<>>
           /\ f = Head(job[w].todo) /\ r = Head(job[w].left)
           /\ \/ /\ disk[r][f] = job[w].hashes[f] /\ job'[w].pc = "replicating"
                 /\ job'[w].todo = Tail(job[w].todo) /\ job'[w].held = job[w].held
              \/ /\ job'[w].pc = "copying" /\ job'[w].held = disk[i][f]
                 /\ job'[w].todo = job[w].todo
           /\ job'[w].rels = job[w].rels /\ job'[w].wrote = job[w].wrote
           /\ job'[w].hashes = job[w].hashes /\ job'[w].left = job[w].left
           /\ job'[w].reached = job[w].reached
           /\ OthersWork(w)
           /\ UNCHANGED <<disk, recs, up, fix, newest, acked, overlapped, budgets>>
<1>1. job[w].pc = "replicating" /\ job[w].left # <<>> /\ job[w].todo # <<>>
      /\ UNCHANGED <<disk, recs, up, fix, newest, acked, overlapped, budgets>>
  BY DEF Compare
<1>2. PICK i \in Instances, r \in Instances, f \in Files :
         i = Home[w] /\ f = Head(job[w].todo) /\ r = Head(job[w].left)
  <2>1. Head(job[w].todo) \in Files
    BY Typed, <1>1, TakeHead
  <2>2. Head(job[w].left) \in Instances
    BY Typed, <1>1, TakeHead
  <2> QED BY <2>1, <2>2, ConstantsTyped
<1>3. job[w] \in Jobs
  BY Typed
<1>4. CASE disk[r][f] = job[w].hashes[f] /\ job' = [job EXCEPT ![w].todo = Tail(@)]
  <2>1. job' = [job EXCEPT ![w] = [job[w] EXCEPT !.todo = Tail(@)]]
    BY <1>4
  <2>2. job'[w] = [job[w] EXCEPT !.todo = Tail(@)] /\ OthersWork(w)
    BY <2>1, PutJob
  <2> QED BY <1>1, <1>2, <1>3, <1>4, <2>2 DEF Jobs
<1>5. CASE job' = [job EXCEPT ![w].pc = "copying", ![w].held = disk[i][f]]
  <2>1. job' = [job EXCEPT ![w] = [job[w] EXCEPT !.pc = "copying", !.held = disk[i][f]]]
    BY Typed, <1>5
  <2>2. job'[w] = [job[w] EXCEPT !.pc = "copying", !.held = disk[i][f]] /\ OthersWork(w)
    BY <2>1, PutJob
  <2> QED BY <1>1, <1>2, <1>3, <2>2 DEF Jobs
<1> QED
  BY <1>2, <1>4, <1>5 DEF Compare

LEMMA CopyDoes ==
    ASSUME TypeOK, NEW w \in Workers, Copy(w)
    PROVE  \E r \in Instances, f \in Files :
           /\ job[w].pc = "copying" /\ job'[w].pc = "replicating"
           /\ job[w].left # <<>> /\ job[w].todo # <<>>
           /\ f = Head(job[w].todo) /\ r = Head(job[w].left)
           /\ disk'[r][f] = job[w].held
           /\ \A s \in Instances, g \in Files : s # r \/ g # f => disk'[s][g] = disk[s][g]
           /\ job'[w].todo = Tail(job[w].todo) /\ job'[w].held = Missing
           /\ job'[w].rels = job[w].rels /\ job'[w].wrote = job[w].wrote
           /\ job'[w].hashes = job[w].hashes /\ job'[w].left = job[w].left
           /\ job'[w].reached = job[w].reached
           /\ OthersWork(w)
           /\ UNCHANGED <<recs, up, fix, newest, acked, overlapped, budgets>>
<1>1. job[w].pc = "copying" /\ job[w].left # <<>> /\ job[w].todo # <<>>
  BY Typed DEF Copy
<1>2. PICK r \in Instances, f \in Files : f = Head(job[w].todo) /\ r = Head(job[w].left)
  BY Typed, <1>1, TakeHead
<1>3. /\ disk' = [disk EXCEPT ![r][f] = job[w].held]
      /\ job' = [job EXCEPT ![w].pc = "replicating", ![w].todo = Tail(@), ![w].held = Missing]
  BY <1>2 DEF Copy
<1>4. /\ disk'[r][f] = job[w].held
      /\ \A s \in Instances, g \in Files : s # r \/ g # f => disk'[s][g] = disk[s][g]
  BY Typed, <1>3, Put
<1>5. /\ job'[w].pc = "replicating" /\ job'[w].todo = Tail(job[w].todo) /\ job'[w].held = Missing
      /\ job'[w].rels = job[w].rels /\ job'[w].wrote = job[w].wrote
      /\ job'[w].hashes = job[w].hashes /\ job'[w].left = job[w].left
      /\ job'[w].reached = job[w].reached
      /\ OthersWork(w)
  BY Typed, <1>3 DEF Jobs, OthersWork
<1> QED
  BY <1>1, <1>2, <1>4, <1>5 DEF Copy

\* The job is on to the next replica, as Merge and ReplicaFails leave it.
OnToNext(w) ==
    /\ job[w].left # <<>> /\ job'[w].pc = "replicating" /\ job'[w].left = Tail(job[w].left)
    /\ job'[w].todo = (IF Len(job[w].left) > 1 THEN job[w].rels ELSE <<>>)
    /\ job'[w].held = Missing
    /\ job'[w].rels = job[w].rels /\ job'[w].wrote = job[w].wrote
    /\ job'[w].hashes = job[w].hashes
    /\ OthersWork(w)

LEMMA NextReplicaIs ==
    ASSUME NEW j \in Jobs
    PROVE  LET k == NextReplica(j) IN
           /\ k.pc = "replicating" /\ k.left = Tail(j.left) /\ k.held = Missing
           /\ k.todo = (IF Len(j.left) > 1 THEN j.rels ELSE <<>>)
           /\ k.rels = j.rels /\ k.wrote = j.wrote /\ k.hashes = j.hashes
           /\ k.reached = j.reached
           /\ DOMAIN k = {"pc", "todo", "wrote", "rels", "hashes", "left", "held", "reached"}
<1>1. DOMAIN j = {"pc", "todo", "wrote", "rels", "hashes", "left", "held", "reached"}
  BY DEF Jobs
<1> QED
  BY <1>1 DEF NextReplica

LEMMA MergeDoes ==
    ASSUME TypeOK, NEW w \in Workers, Merge(w)
    PROVE  \E r \in Instances :
           /\ r = Head(job[w].left) /\ job[w].pc = "replicating" /\ job[w].todo = <<>>
           /\ \A f \in Files : recs'[r][f] = IF f \in Among(job[w].rels) THEN job[w].hashes[f]
                                                                        ELSE recs[r][f]
           /\ \A s \in Instances, f \in Files : s # r => recs'[s][f] = recs[s][f]
           /\ OnToNext(w) /\ job'[w].reached = job[w].reached + 1
           /\ UNCHANGED <<disk, up, fix, newest, acked, overlapped, budgets>>
<1>1. PICK r \in Instances : r = Head(job[w].left)
  BY Typed, TakeHead DEF Merge
<1>2. recs' = [recs EXCEPT ![r] = [f \in Files |-> IF f \in Among(job[w].rels)
                                                   THEN job[w].hashes[f] ELSE @[f]]]
  BY <1>1 DEF Merge, Among
<1>3. PICK k, n : k = NextReplica(job[w]) /\ n = k.reached + 1
  OBVIOUS
<1>4. OnToNext(w) /\ job'[w].reached = job[w].reached + 1
  <2>1. job[w] \in Jobs /\ job[w].left # <<>>
    BY Typed DEF Merge
  <2>2. job' = [job EXCEPT ![w] = [k EXCEPT !.reached = n]]
    <3>1. job' = [job EXCEPT ![w] = [NextReplica(job[w]) EXCEPT
                                        !.reached = NextReplica(job[w]).reached + 1]]
      BY DEF Merge
    <3> QED BY <1>3, <3>1
  <2>3. job'[w] = [k EXCEPT !.reached = n] /\ OthersWork(w)
    BY <2>2, PutJob
  <2>4. n = job[w].reached + 1
    BY <1>3, <2>1, NextReplicaIs
  <2>5. DOMAIN k = {"pc", "todo", "wrote", "rels", "hashes", "left", "held", "reached"}
    BY <1>3, <2>1, NextReplicaIs
  <2>6. /\ k.pc = "replicating" /\ k.left = Tail(job[w].left) /\ k.held = Missing
        /\ k.todo = (IF Len(job[w].left) > 1 THEN job[w].rels ELSE <<>>)
        /\ k.rels = job[w].rels /\ k.wrote = job[w].wrote /\ k.hashes = job[w].hashes
    BY <1>3, <2>1, NextReplicaIs
  <2> QED BY <2>1, <2>3, <2>4, <2>5, <2>6 DEF OnToNext
<1>5. /\ \A f \in Files : recs'[r][f] = IF f \in Among(job[w].rels) THEN job[w].hashes[f]
                                                                        ELSE recs[r][f]
      /\ \A s \in Instances, f \in Files : s # r => recs'[s][f] = recs[s][f]
  BY Typed, <1>2 DEF Jobs
<1> QED
  BY <1>1, <1>4, <1>5 DEF Merge

LEMMA ReplicaFailsDoes ==
    ASSUME TypeOK, NEW w \in Workers, ReplicaFails(w)
    PROVE  /\ job[w].pc \in {"replicating", "copying"}
           /\ OnToNext(w) /\ job'[w].reached = job[w].reached
           /\ UNCHANGED <<disk, recs, up, fix, newest, acked, overlapped, budgets>>
<1>1. job' = [job EXCEPT ![w] = NextReplica(job[w])]
  BY DEF ReplicaFails
<1>2. job'[w] = NextReplica(job[w]) /\ OthersWork(w)
  BY <1>1, PutJob
<1>3. job[w] \in Jobs
  BY Typed
<1> QED
  BY <1>2, <1>3, NextReplicaIs DEF OnToNext, ReplicaFails

LEMMA PrimaryFailsDoes ==
    ASSUME TypeOK, NEW w \in Workers, PrimaryFails(w)
    PROVE  /\ job[w].pc \in {"writing", "recording"} /\ job'[w] = Idle /\ OthersWork(w)
           /\ UNCHANGED <<disk, recs, up, fix, newest, acked, overlapped, budgets>>
  BY Typed DEF PrimaryFails, OthersWork, Jobs

LEMMA AnswerDoes ==
    ASSUME TypeOK, NEW w \in Workers, Answer(w)
    PROVE  /\ job[w].pc = "replicating" /\ job[w].left = <<>>
           /\ job'[w] = Idle /\ OthersWork(w)
           /\ \A i \in Instances, f \in Files :
                 \/ acked'[i][f] = acked[i][f]
                 \/ /\ i = Home[w] /\ job[w].reached >= MinReplicas[i]
                    /\ job[w].wrote[f] > acked[i][f] /\ acked'[i][f] = job[w].wrote[f]
           /\ UNCHANGED <<disk, recs, up, fix, newest, overlapped, budgets>>
<1>1. PICK h \in Instances : h = Home[w]
  BY ConstantsTyped
<1>2. \/ acked' = acked
      \/ /\ job[w].reached >= MinReplicas[h]
         /\ acked' = [acked EXCEPT ![h] = [f \in Files |-> IF job[w].wrote[f] > @[f]
                                                           THEN job[w].wrote[f] ELSE @[f]]]
  BY <1>1 DEF Answer
<1>3. ASSUME NEW i \in Instances, NEW f \in Files
      PROVE  \/ acked'[i][f] = acked[i][f]
             \/ /\ i = h /\ job[w].reached >= MinReplicas[i]
                /\ job[w].wrote[f] > acked[i][f] /\ acked'[i][f] = job[w].wrote[f]
  <2>1. acked \in [Instances -> [Files -> 0 .. MaxVersion]]
    BY Typed
  <2>2. CASE acked' = acked
    BY <2>2
  <2>3. CASE i # h
    BY <1>2, <2>1, <2>3
  <2>4. CASE i = h /\ acked' # acked
    <3>1. /\ job[w].reached >= MinReplicas[h]
          /\ acked'[h] = [g \in Files |-> IF job[w].wrote[g] > acked[h][g]
                                          THEN job[w].wrote[g] ELSE acked[h][g]]
      BY <1>2, <2>1, <2>4
    <3>2. acked'[h][f] = IF job[w].wrote[f] > acked[h][f] THEN job[w].wrote[f] ELSE acked[h][f]
      BY <3>1
    <3> QED BY <2>4, <3>1, <3>2
  <2> QED BY <2>2, <2>3, <2>4
<1>4. /\ job[w].pc = "replicating" /\ job[w].left = <<>>
      /\ job' = [job EXCEPT ![w] = Idle]
      /\ UNCHANGED <<disk, recs, up, fix, newest, overlapped, budgets>>
  BY DEF Answer
<1>5. job'[w] = Idle /\ OthersWork(w)
  BY Typed, <1>4 DEF OthersWork
<1> QED
  BY <1>1, <1>3, <1>4, <1>5

LEMMA CrashDoes ==
    ASSUME TypeOK, NEW i \in Instances, Crash(i)
    PROVE  /\ "crash" \in Allowed /\ crashes < MaxCrashes /\ crashes' = crashes + 1
           /\ up'[i] = "down" /\ \A j \in Instances : j # i => up'[j] = up[j]
           /\ \A w \in Workers : job'[w] = IF Home[w] = i THEN Idle ELSE job[w]
           /\ fix'[i] = NoRepair /\ \A j \in Instances : j # i => fix'[j] = fix[j]
           /\ UNCHANGED <<disk, recs, newest, acked, overlapped, requests, rots>>
  BY Typed DEF Crash

LEMMA RestartDoes ==
    ASSUME TypeOK, NEW i \in Instances, Restart(i)
    PROVE  /\ up[i] = "down" /\ up'[i] = "repairing"
           /\ \A j \in Instances : j # i => up'[j] = up[j] /\ fix'[j] = fix[j]
           /\ overlapped' = (overlapped \/ Busy)
           /\ \A r \in Instances, f \in Files :
                 fix'[i].recs[r][f] = IF r \in Required(i) THEN recs[r][f] ELSE Missing
           /\ fix'[i].todo \in Seq(Files)
           /\ Among(fix'[i].todo) = {f \in Files : \E r \in Required(i) : Has(r, f)}
           /\ fix'[i].left = RootsOf(i) /\ fix'[i].lost = {}
           /\ fix'[i].over = <<>> /\ fix'[i].hash = Missing /\ fix'[i].held = Missing
           /\ fix'[i].recs \in [Instances -> [Files -> Content]]
           /\ UNCHANGED <<disk, recs, job, newest, acked, budgets>>
<1>1. PICK here \in SUBSET Files : here = UNION {FilesUnder(r) : r \in Required(i)}
  BY DEF FilesUnder
<1>2. PICK s \in Seq(Files) : s = InPathOrder(here) /\ Among(s) = here
  <2>1. here \cap Files = here /\ Seq(here) \subseteq Seq(Files)
    OBVIOUS
  <2> QED BY <2>1, InPathOrderHolds
<1>3. PICK h : h = [r \in Instances |-> IF r \in Required(i) THEN recs[r] ELSE NoRepair.recs[r]]
  OBVIOUS
<1>4. fix' = [fix EXCEPT ![i] = [NoRepair EXCEPT !.recs = h, !.todo = s, !.left = RootsOf(i)]]
  BY <1>1, <1>2, <1>3 DEF Restart
<1>5. /\ fix'[i].recs = h /\ fix'[i].todo = s /\ fix'[i].left = RootsOf(i) /\ fix'[i].lost = {}
      /\ fix'[i].over = <<>> /\ fix'[i].hash = Missing /\ fix'[i].held = Missing
      /\ \A j \in Instances : j # i => fix'[j] = fix[j]
  <2>1. /\ fix'[i] = [NoRepair EXCEPT !.recs = h, !.todo = s, !.left = RootsOf(i)]
        /\ \A j \in Instances : j # i => fix'[j] = fix[j]
    BY Typed, <1>4
  <2> QED BY <2>1 DEF NoRepair
<1>6. here = {f \in Files : \E r \in Required(i) : Has(r, f)}
  BY <1>1 DEF FilesUnder
<1>7. \A r \in Instances, f \in Files :
         h[r][f] = IF r \in Required(i) THEN recs[r][f] ELSE Missing
  BY <1>3 DEF NoRepair
<1>8. h \in [Instances -> [Files -> Content]]
  BY Typed, ConstantsTyped, <1>3 DEF NoRepair
<1>9. /\ up[i] = "down" /\ up'[i] = "repairing" /\ \A j \in Instances : j # i => up'[j] = up[j]
      /\ overlapped' = (overlapped \/ Busy)
      /\ UNCHANGED <<disk, recs, job, newest, acked, budgets>>
  BY Typed DEF Restart, SetsOut
<1> QED
  BY <1>2, <1>5, <1>6, <1>7, <1>8, <1>9

RequiredRoots == \A i \in Instances : Required(i) = {i} \cup Among(Replicas[i])

LEMMA RequiredIs ==
    /\ RequiredRoots
    /\ \A i \in Instances : /\ Required(i) \subseteq Instances /\ i \in Required(i)
                            /\ IsFiniteSet(Required(i)) /\ IsFiniteSet(Among(Replicas[i]))
                            /\ RootsOf(i) \in Seq(Instances) /\ RootsOf(i) # <<>>
                            /\ Among(RootsOf(i)) = Required(i)
<1> SUFFICES ASSUME NEW i \in Instances
             PROVE  /\ Required(i) = {i} \cup Among(Replicas[i])
                    /\ Required(i) \subseteq Instances /\ i \in Required(i)
                    /\ IsFiniteSet(Required(i)) /\ IsFiniteSet(Among(Replicas[i]))
                    /\ RootsOf(i) \in Seq(Instances) /\ RootsOf(i) # <<>>
                    /\ Among(RootsOf(i)) = Required(i)
  BY DEF RequiredRoots
<1>1. PICK s \in Seq(Instances) : s = Replicas[i]
  BY ConstantsTyped
<1>2. Required(i) = {i} \cup Among(s)
  BY <1>1 DEF Required, Among
<1>3. IsFiniteSet(Among(s)) /\ Among(s) \subseteq Instances
  BY AmongIsFinite
<1>4. IsFiniteSet(Required(i))
  BY <1>2, <1>3, FS_AddElement, {i} \cup Among(s) = Among(s) \cup {i}
<1>5. /\ RootsOf(i) \in Seq(Instances) /\ RootsOf(i) # <<>> /\ Among(RootsOf(i)) = {i} \cup Among(s)
  <2>1. RootsOf(i) = <<i>> \o s
    BY <1>1 DEF RootsOf
  <2>2. <<i>> \in Seq(Instances) /\ Len(<<i>>) = 1 /\ <<i>>[1] = i /\ Len(s) \in Nat
    OBVIOUS
  <2>3. /\ <<i>> \o s \in Seq(Instances) /\ Len(<<i>> \o s) = 1 + Len(s)
        /\ \A n \in 1 .. 1 + Len(s) : (<<i>> \o s)[n] = IF n <= 1 THEN <<i>>[n] ELSE s[n - 1]
    BY <2>2, ConcatProperties
  <2>4. PICK t \in Seq(Instances) : t = <<i>> \o s
    BY <2>3
  <2>5. DOMAIN t = 1 .. 1 + Len(s) /\ t[1] = i
    BY <2>2, <2>3, <2>4
  <2>6. \A n \in DOMAIN t : n # 1 => n - 1 \in DOMAIN s /\ t[n] = s[n - 1]
    <3> SUFFICES ASSUME NEW n \in DOMAIN t, n # 1 PROVE n - 1 \in DOMAIN s /\ t[n] = s[n - 1]
      OBVIOUS
    <3>1. n \in 1 .. 1 + Len(s) /\ ~(n <= 1) /\ n - 1 \in 1 .. Len(s)
      BY <2>2, <2>5
    <3> QED BY <2>3, <2>4, <3>1
  <2>7. \A n \in DOMAIN s : n + 1 \in DOMAIN t /\ t[n + 1] = s[n]
    <3> SUFFICES ASSUME NEW n \in DOMAIN s PROVE n + 1 \in DOMAIN t /\ t[n + 1] = s[n]
      OBVIOUS
    <3>1. n \in 1 .. Len(s) /\ n + 1 \in 1 .. 1 + Len(s) /\ ~(n + 1 <= 1) /\ (n + 1) - 1 = n
      BY <2>2
    <3> QED BY <2>3, <2>4, <2>5, <3>1
  <2>8. 1 \in DOMAIN t
    BY <2>2, <2>5
  <2>9. Among(t) \subseteq {i} \cup Among(s)
    BY <2>5, <2>6 DEF Among
  <2>10. {i} \cup Among(s) \subseteq Among(t)
    BY <2>5, <2>7, <2>8 DEF Among
  <2>11. t # <<>>
    BY <2>8
  <2> QED BY <2>1, <2>4, <2>9, <2>10, <2>11
<1> QED
  BY <1>1, <1>2, <1>3, <1>4, <1>5

LEMMA LeastOf ==
    ASSUME NEW S \in SUBSET Nat, S # {}
    PROVE  \E n \in S : \A m \in S : n <= m
<1>1. PICK n \in S : \A y \in S : ~ (<<y, n>> \in OpToRel(<, Nat))
  BY NatLessThanWellFounded, WFMin
<1>2. ASSUME NEW m \in S PROVE n <= m
  <2>1. m \in Nat /\ n \in Nat
    OBVIOUS
  <2>2. CASE m < n
    <3>1. <<m, n>> \in OpToRel(<, Nat)
      BY <2>1, <2>2 DEF OpToRel
    <3> QED BY <1>1, <3>1
  <2> QED BY <2>1, <2>2
<1> QED
  BY <1>2

\* Where some copy is good, repair finds a source, and no good copy is newer.
LEMMA SourceFound ==
    ASSUME TypeOK, NEW i \in Instances, NEW f \in Files, GoodRoots(i, f) # {}
    PROVE  \E s \in GoodRoots(i, f) : /\ SourceRoot(i, f) = s
                                      /\ \A r \in GoodRoots(i, f) : disk[r][f].v <= disk[s][f].v
<1>1. PICK good \in SUBSET Instances, roots \in Seq(Instances) :
         /\ good = GoodRoots(i, f) /\ roots = RootsOf(i) /\ good \subseteq Among(roots)
  BY RequiredIs DEF GoodRoots
<1>2. MaxVersion \in Nat /\ \A r \in Instances : disk[r][f].v \in 0 .. MaxVersion
  BY Typed, ConstantsTyped DEF Content
<1>3. PICK age : age = [r \in Instances |-> MaxVersion - disk[r][f].v]
  OBVIOUS
<1>4. \A r \in Instances : age[r] \in Nat
  BY <1>2, <1>3
<1>5. PICK top \in good : \A r \in good : age[top] <= age[r]
  <2>1. {age[r] : r \in good} \in SUBSET Nat /\ {age[r] : r \in good} # {}
    BY <1>1, <1>4
  <2>2. PICK a \in {age[r] : r \in good} : \A b \in {age[r] : r \in good} : a <= b
    BY <2>1, LeastOf
  <2>3. PICK top \in good : a = age[top]
    OBVIOUS
  <2> QED BY <2>2, <2>3
<1>6. \A r \in good : disk[r][f].v <= disk[top][f].v
  <2> SUFFICES ASSUME NEW r \in good PROVE disk[r][f].v <= disk[top][f].v
    OBVIOUS
  <2>1. age[top] = MaxVersion - disk[top][f].v /\ age[r] = MaxVersion - disk[r][f].v
    BY <1>3
  <2>2. age[top] <= age[r]
    BY <1>5
  <2>3. disk[r][f].v \in 0 .. MaxVersion /\ disk[top][f].v \in 0 .. MaxVersion
    BY <1>2
  <2> QED BY <1>2, <2>1, <2>2, <2>3
<1>7. DOMAIN roots = 1 .. Len(roots) /\ Len(roots) \in Nat /\ \A n \in DOMAIN roots : roots[n] \in Instances
  OBVIOUS
<1> DEFINE C == {n \in DOMAIN roots : roots[n] \in good /\ disk[roots[n]][f].v = disk[top][f].v}
<1>8. C \in SUBSET Nat /\ C # {}
  BY <1>1, <1>7 DEF Among
<1>9. PICK n \in C : \A m \in C : n <= m
  BY <1>8, LeastOf
<1> DEFINE Best(x) == /\ roots[x] \in good
                      /\ \A r \in good : disk[r][f].v <= disk[roots[x]][f].v
                      /\ \A m \in 1..x - 1 : roots[m] \in good =>
                                             disk[roots[m]][f].v < disk[roots[x]][f].v
<1>10. n \in DOMAIN roots /\ Best(n)
  <2>1. n \in DOMAIN roots /\ n \in Nat /\ roots[n] \in good
        /\ disk[roots[n]][f].v = disk[top][f].v
    BY <1>7
  <2>2. ASSUME NEW m \in 1 .. n - 1, roots[m] \in good
        PROVE  disk[roots[m]][f].v < disk[roots[n]][f].v
    <3>1. m \in DOMAIN roots /\ ~(n <= m)
      BY <1>7, <2>1
    <3>2. m \notin C
      BY <1>9, <3>1
    <3>3. disk[roots[m]][f].v # disk[top][f].v
      BY <2>2, <3>1, <3>2
    <3> QED BY <1>2, <1>6, <2>1, <2>2, <3>3
  <2> QED BY <1>6, <2>1, <2>2
<1>11. PICK x : x = CHOOSE y \in DOMAIN roots : Best(y)
  OBVIOUS
<1>12. x \in DOMAIN roots /\ Best(x)
  BY <1>10, <1>11
<1>13. SourceRoot(i, f) = roots[x]
  BY <1>1, <1>11 DEF SourceRoot
<1> QED
  BY <1>1, <1>12, <1>13

\* What a repair does with a file: it gives it up, or takes the newest good copy for
\* a source, opens it, and hands it to one root after the other.
GivesUp(i, f) ==
    /\ GoodRoots(i, f) = {} /\ fix'[i].lost = fix[i].lost \cup {f}
    /\ fix'[i].todo = Tail(fix[i].todo) /\ fix[i].over = <<>> /\ fix'[i].over = <<>>
    /\ fix'[i].hash = fix[i].hash /\ fix'[i].held = fix[i].held /\ fix'[i].recs = fix[i].recs
    /\ UNCHANGED <<disk, halfway>>

TakesSource(i, f, s) ==
    /\ s \in GoodRoots(i, f) /\ \A r \in GoodRoots(i, f) : disk[r][f].v <= disk[s][f].v
    /\ fix[i].over = <<>> /\ fix'[i].over = RootsOf(i)
    /\ fix'[i].from = s /\ fix'[i].hash = disk[s][f]
    /\ fix'[i].bad = {r \in Required(i) : Has(r, f) /\ Contradicted(r, f, fix[i].recs)}
    /\ fix'[i].todo = fix[i].todo /\ fix'[i].lost = fix[i].lost
    /\ fix'[i].held = fix[i].held /\ fix'[i].recs = fix[i].recs
    /\ halfway' = halfway \cup {f} /\ UNCHANGED disk

SameFile(i) == /\ fix'[i].from = fix[i].from /\ fix'[i].hash = fix[i].hash
               /\ fix'[i].bad = fix[i].bad /\ fix'[i].lost = fix[i].lost

Opens(i, f) ==
    /\ fix[i].over # <<>> /\ fix'[i].held = disk[fix[i].from][f]
    /\ SameFile(i) /\ fix'[i].over = fix[i].over
    /\ fix'[i].todo = fix[i].todo /\ fix'[i].recs = fix[i].recs
    /\ UNCHANGED <<disk, halfway>>

HandsTo(i, f, r) ==
    /\ fix[i].over # <<>> /\ r = Head(fix[i].over) /\ fix'[i].over = Tail(fix[i].over)
    /\ SameFile(i) /\ fix'[i].held = Missing
    /\ fix'[i].recs[r][f] = fix[i].hash
    /\ \A q \in Instances, g \in Files : q # r \/ g # f => fix'[i].recs[q][g] = fix[i].recs[q][g]
    /\ \/ /\ fix'[i].over # <<>> /\ fix'[i].todo = fix[i].todo /\ halfway' = halfway
       \/ /\ fix'[i].over = <<>> /\ fix'[i].todo = Tail(fix[i].todo)
          /\ halfway' = halfway \ {f}
    /\ \/ /\ disk' = disk /\ r \notin fix[i].bad /\ Has(r, f)
          /\ disk[r][f] = fix[i].hash \/ ~(disk[r][f].v < disk[fix[i].from][f].v)
       \/ /\ fix[i].held # Missing /\ disk'[r][f] = fix[i].held
          /\ \A q \in Instances, g \in Files : q # r \/ g # f => disk'[q][g] = disk[q][g]

LEMMA ExamineFileDoes ==
    ASSUME TypeOK, NEW i \in Instances, ExamineFile(i), NEW f \in Files, f = Head(fix[i].todo)
    PROVE  /\ GivesUp(i, f) \/ \E s \in GoodRoots(i, f) : TakesSource(i, f, s)
           /\ fix'[i].left = fix[i].left /\ \A j \in Instances : j # i => fix'[j] = fix[j]
           /\ fix' \in [Instances -> Fixes]
<1>1. PICK x \in Fixes : x = fix[i] /\ fix \in [Instances -> Fixes]
  BY Typed
<1>2. x.todo # <<>> /\ x.over = <<>> /\ UNCHANGED disk
  BY <1>1 DEF ExamineFile
<1>3. PICK t \in Seq(Files) : t = Tail(x.todo)
  BY <1>1, <1>2, Typed, TakeHead
<1>4. CASE GoodRoots(i, f) = {}
  <2>1. PICK y : y = [x EXCEPT !.todo = t, !.lost = x.lost \cup {f}]
    OBVIOUS
  <2>2. /\ y \in Fixes /\ y.todo = t /\ y.lost = x.lost \cup {f} /\ y.left = x.left
        /\ y.over = x.over /\ y.hash = x.hash /\ y.held = x.held /\ y.recs = x.recs
    BY <2>1 DEF Fixes
  <2>3. fix' = [fix EXCEPT ![i].todo = Tail(@), ![i].lost = @ \cup {f}] /\ halfway' = halfway
    BY <1>4 DEF ExamineFile
  <2>4. fix' = [fix EXCEPT ![i] = y]
    BY <1>1, <1>3, <2>1, <2>3 DEF Fixes
  <2>5. fix'[i] = y /\ (\A j \in Instances : j # i => fix'[j] = fix[j]) /\ fix' \in [Instances -> Fixes]
    BY <1>1, <2>2, <2>4
  <2> QED BY <1>1, <1>2, <1>3, <1>4, <2>2, <2>3, <2>5 DEF GivesUp
<1>5. CASE GoodRoots(i, f) # {}
  <2>1. PICK s \in GoodRoots(i, f) : /\ SourceRoot(i, f) = s
                                     /\ \A r \in GoodRoots(i, f) : disk[r][f].v <= disk[s][f].v
    BY <1>5, SourceFound
  <2>2. s \in Instances /\ RootsOf(i) \in Seq(Instances)
    BY RequiredIs DEF GoodRoots
  <2>3. PICK c \in Content, b \in SUBSET Instances :
           /\ c = disk[s][f]
           /\ b = {r \in Required(i) : Has(r, f) /\ Contradicted(r, f, fix[i].recs)}
    <3>1. disk[s][f] \in Content
      BY <2>2, Typed
    <3>2. Required(i) \subseteq Instances
      BY RequiredIs
    <3>3. {r \in Required(i) : Has(r, f) /\ Contradicted(r, f, fix[i].recs)} \in SUBSET Instances
      BY <3>2
    <3> QED BY <3>1, <3>3
  <2>4. PICK y : y = [x EXCEPT !.over = RootsOf(i), !.from = s, !.hash = c, !.bad = b]
    OBVIOUS
  <2>5. /\ y \in Fixes /\ y.over = RootsOf(i) /\ y.from = s /\ y.hash = c /\ y.bad = b
        /\ y.todo = x.todo /\ y.lost = x.lost /\ y.left = x.left /\ y.held = x.held
        /\ y.recs = x.recs
    BY <2>2, <2>4 DEF Fixes
  <2>6. /\ fix' = [fix EXCEPT ![i].over = RootsOf(i), ![i].from = s, ![i].hash = c, ![i].bad = b]
        /\ halfway' = halfway \cup {f}
    BY <1>5, <2>1, <2>3 DEF ExamineFile
  <2>7. fix' = [fix EXCEPT ![i] = y]
    BY <1>1, <2>4, <2>6 DEF Fixes
  <2>8. fix'[i] = y /\ (\A j \in Instances : j # i => fix'[j] = fix[j]) /\ fix' \in [Instances -> Fixes]
    BY <1>1, <2>5, <2>7
  <2>9. TakesSource(i, f, s)
    BY <1>1, <1>2, <2>1, <2>3, <2>5, <2>6, <2>8 DEF TakesSource
  <2> QED BY <1>1, <2>5, <2>8, <2>9
<1> QED
  BY <1>4, <1>5

LEMMA OpenSourceDoes ==
    ASSUME TypeOK, NEW i \in Instances, OpenSource(i), NEW f \in Files, f = Head(fix[i].todo)
    PROVE  /\ Opens(i, f)
           /\ fix'[i].left = fix[i].left /\ \A j \in Instances : j # i => fix'[j] = fix[j]
           /\ fix' \in [Instances -> Fixes]
<1>1. PICK x \in Fixes : x = fix[i] /\ fix \in [Instances -> Fixes]
  BY Typed
<1>2. PICK c \in Content : c = disk[fix[i].from][f]
  BY Typed
<1>3. PICK y : y = [x EXCEPT !.held = c]
  OBVIOUS
<1>4. /\ y \in Fixes /\ y.held = c /\ y.todo = x.todo /\ y.lost = x.lost /\ y.left = x.left
      /\ y.over = x.over /\ y.from = x.from /\ y.hash = x.hash /\ y.bad = x.bad /\ y.recs = x.recs
  BY <1>3 DEF Fixes
<1>5. fix' = [fix EXCEPT ![i].held = c] /\ fix[i].over # <<>> /\ UNCHANGED <<disk, halfway>>
  BY <1>2 DEF OpenSource, Handing
<1>6. fix' = [fix EXCEPT ![i] = y]
  BY <1>1, <1>3, <1>5 DEF Fixes
<1>7. fix'[i] = y /\ (\A j \in Instances : j # i => fix'[j] = fix[j]) /\ fix' \in [Instances -> Fixes]
  BY <1>1, <1>4, <1>6
<1> QED
  BY <1>1, <1>2, <1>4, <1>5, <1>7 DEF Opens, SameFile

LEMMA HandsOverDoes ==
    ASSUME TypeOK, NEW i \in Instances, PassCopy(i) \/ ReplaceCopy(i),
           NEW f \in Files, f = Head(fix[i].todo)
    PROVE  /\ \E r \in Instances : HandsTo(i, f, r)
           /\ fix'[i].left = fix[i].left /\ \A j \in Instances : j # i => fix'[j] = fix[j]
           /\ fix' \in [Instances -> Fixes] /\ disk' \in [Instances -> [Files -> Content]]
<1>1. PICK x \in Fixes : x = fix[i] /\ fix \in [Instances -> Fixes]
  BY Typed
<1>2. x.todo # <<>> /\ x.over # <<>> /\ RootDone(i)
  BY <1>1 DEF PassCopy, ReplaceCopy, Handing
<1>3. PICK t \in Seq(Files), o \in Seq(Instances), r \in Instances :
         /\ t = Tail(x.todo) /\ o = Tail(x.over) /\ r = Head(x.over)
         /\ Len(x.over) = 1 <=> o = <<>>
  <2>1. PICK q \in Seq(Instances), z \in Seq(Files) : q = x.over /\ z = x.todo
    BY <1>1, Typed
  <2>2. Tail(q) \in Seq(Instances) /\ Head(q) \in Instances /\ Len(Tail(q)) = Len(q) - 1
        /\ Len(q) \in Nat \ {0} /\ Tail(z) \in Seq(Files)
    BY <1>2, <2>1, TakeHead
  <2>3. PICK o \in Seq(Instances) : o = Tail(q)
    BY <2>2
  <2>4. Len(o) = 0 <=> o = <<>>
    BY EmptyHasNone
  <2>5. Len(q) = 1 <=> Len(o) = 0
    BY <2>2, <2>3
  <2> QED BY <2>1, <2>2, <2>3, <2>4, <2>5
<1>4. PICK R \in [Instances -> [Files -> Content]], z \in Seq(Files) :
         /\ R = [x.recs EXCEPT ![r][f] = x.hash]
         /\ z = IF Len(x.over) = 1 THEN t ELSE x.todo
  BY <1>1 DEF Fixes
<1>5. PICK y : y = [x EXCEPT !.recs = R, !.held = Missing, !.over = o, !.todo = z]
  OBVIOUS
<1>6. /\ y \in Fixes /\ y.recs = R /\ y.held = Missing /\ y.over = o /\ y.todo = z
      /\ y.lost = x.lost /\ y.left = x.left /\ y.from = x.from /\ y.hash = x.hash /\ y.bad = x.bad
  BY <1>5, ConstantsTyped DEF Fixes
<1>7. /\ fix' = [fix EXCEPT ![i].recs[r][f] = x.hash, ![i].held = Missing,
                            ![i].over = Tail(@), ![i].todo = IF Len(x.over) = 1 THEN Tail(@) ELSE @]
      /\ halfway' = IF Len(x.over) = 1 THEN halfway \ {f} ELSE halfway
  BY <1>1, <1>2, <1>3 DEF RootDone
<1>8. fix' = [fix EXCEPT ![i] = y]
  <2>1. PICK F : F = [fix EXCEPT ![i].recs[r][f] = x.hash]
    OBVIOUS
  <2>2. F = [fix EXCEPT ![i] = [x EXCEPT !.recs = R]]
    BY <1>1, <1>4, <2>1 DEF Fixes
  <2>3. PICK u \in Fixes : u = [x EXCEPT !.recs = R]
    BY <1>4 DEF Fixes
  <2>4. F[i] = u /\ F \in [Instances -> Fixes] /\ u.todo = x.todo /\ u.over = x.over
    BY <1>1, <2>2, <2>3 DEF Fixes
  <2>5. fix' = [F EXCEPT ![i].held = Missing, ![i].over = Tail(@),
                         ![i].todo = IF Len(x.over) = 1 THEN Tail(@) ELSE @]
    BY <1>7, <2>1
  <2>6. fix' = [F EXCEPT ![i] = [u EXCEPT !.held = Missing, !.over = o, !.todo = z]]
    BY <1>1, <1>3, <1>4, <2>4, <2>5 DEF Fixes
  <2>7. y = [u EXCEPT !.held = Missing, !.over = o, !.todo = z]
    BY <1>5, <2>3 DEF Fixes
  <2>8. fix' = [F EXCEPT ![i] = y]
    BY <2>6, <2>7
  <2> QED BY <1>1, <2>2, <2>8
<1>9. fix'[i] = y /\ (\A j \in Instances : j # i => fix'[j] = fix[j]) /\ fix' \in [Instances -> Fixes]
  BY <1>1, <1>6, <1>8
<1>10. /\ R[r][f] = x.hash
       /\ \A q \in Instances, g \in Files : q # r \/ g # f => R[q][g] = x.recs[q][g]
  BY <1>1, <1>4, Put DEF Fixes
<1>11. /\ \/ /\ disk' = disk /\ r \notin x.bad /\ Has(r, f)
             /\ disk[r][f] = x.hash \/ ~(disk[r][f].v < disk[x.from][f].v)
          \/ /\ x.held # Missing /\ disk'[r][f] = x.held
             /\ \A q \in Instances, g \in Files : q # r \/ g # f => disk'[q][g] = disk[q][g]
       /\ disk' \in [Instances -> [Files -> Content]]
  <2>1. CASE PassCopy(i)
    BY <1>1, <1>3, <2>1, Typed DEF PassCopy, Stale
  <2>2. CASE ReplaceCopy(i)
    <3>1. x.held # Missing /\ disk' = [disk EXCEPT ![r][f] = x.held] /\ x.held \in Content
      BY <1>1, <1>3, <2>2, Typed DEF ReplaceCopy
    <3>2. disk \in [Instances -> [Files -> Content]]
      BY Typed
    <3>3. disk' \in [Instances -> [Files -> Content]]
      BY <3>1, <3>2
    <3> QED BY <3>1, <3>2, <3>3, Put
  <2> QED BY <2>1, <2>2
<1>12. HandsTo(i, f, r)
  <2>1. /\ fix[i].over # <<>> /\ r = Head(fix[i].over) /\ fix'[i].over = Tail(fix[i].over)
        /\ SameFile(i) /\ fix'[i].held = Missing
    BY <1>1, <1>2, <1>3, <1>6, <1>9 DEF SameFile
  <2>2. /\ fix'[i].recs[r][f] = fix[i].hash
        /\ \A q \in Instances, g \in Files : q # r \/ g # f => fix'[i].recs[q][g] = fix[i].recs[q][g]
    BY <1>1, <1>6, <1>9, <1>10
  <2>3. \/ /\ fix'[i].over # <<>> /\ fix'[i].todo = fix[i].todo /\ halfway' = halfway
        \/ /\ fix'[i].over = <<>> /\ fix'[i].todo = Tail(fix[i].todo)
           /\ halfway' = halfway \ {f}
    BY <1>1, <1>3, <1>4, <1>6, <1>7, <1>9
  <2> QED BY <1>1, <1>11, <2>1, <2>2, <2>3 DEF HandsTo
<1> QED
  BY <1>1, <1>6, <1>9, <1>11, <1>12

LEMMA RepairFileDoes ==
    ASSUME TypeOK, NEW i \in Instances, RepairFile(i)
    PROVE  \E f \in Files :
           /\ up[i] = "repairing" /\ fix[i].todo # <<>> /\ f = Head(fix[i].todo)
           /\ fix'[i].left = fix[i].left /\ \A j \in Instances : j # i => fix'[j] = fix[j]
           /\ \/ GivesUp(i, f) \/ Opens(i, f)
              \/ \E s \in GoodRoots(i, f) : TakesSource(i, f, s)
              \/ \E r \in Instances : HandsTo(i, f, r)
           /\ UNCHANGED <<recs, up, job, newest, acked, overlapped, budgets>>
<1>1. /\ up[i] = "repairing" /\ fix[i].todo # <<>>
      /\ UNCHANGED <<recs, up, job, newest, acked, overlapped, budgets>>
  BY DEF RepairFile, ExamineFile, PassCopy, OpenSource, ReplaceCopy, Handing
<1>2. PICK f \in Files : f = Head(fix[i].todo)
  BY Typed, <1>1, TakeHead
<1>3. /\ fix'[i].left = fix[i].left /\ \A j \in Instances : j # i => fix'[j] = fix[j]
      /\ \/ GivesUp(i, f) \/ Opens(i, f)
         \/ \E s \in GoodRoots(i, f) : TakesSource(i, f, s)
         \/ \E r \in Instances : HandsTo(i, f, r)
  BY <1>2, ExamineFileDoes, OpenSourceDoes, HandsOverDoes DEF RepairFile
<1> QED
  BY <1>1, <1>2, <1>3

\* Whatever it does, no file but this one is touched.
LEMMA RepairFileKeeps ==
    ASSUME TypeOK, NEW i \in Instances, RepairFile(i), NEW f \in Files, f # Head(fix[i].todo),
           NEW r \in Instances
    PROVE  disk'[r][f] = disk[r][f] /\ fix'[i].recs[r][f] = fix[i].recs[r][f]
  BY RepairFileDoes DEF GivesUp, Opens, TakesSource, HandsTo

LEMMA RepairRecordsDoes ==
    ASSUME TypeOK, NEW i \in Instances, RepairRecords(i)
    PROVE  \E r \in Instances :
           /\ up[i] = "repairing" /\ fix[i].todo = <<>> /\ fix[i].left # <<>>
           /\ r = Head(fix[i].left)
           /\ \A f \in Files : recs'[r][f] = fix[i].recs[r][f]
           /\ \A s \in Instances, f \in Files : s # r => recs'[s][f] = recs[s][f]
           /\ recs' \in [Instances -> [Files -> Content]]
           /\ \A j \in Instances : j # i => fix'[j] = fix[j] /\ up'[j] = up[j]
           /\ \/ /\ Tail(fix[i].left) # <<>> /\ fix'[i].left = Tail(fix[i].left)
                 /\ fix'[i].todo = <<>> /\ fix'[i].recs = fix[i].recs
                 /\ fix'[i].lost = fix[i].lost /\ up'[i] = "repairing"
              \/ Among(fix[i].left) = {r} /\ fix'[i] = NoRepair /\ up'[i] = "up"
           /\ UNCHANGED <<disk, job, newest, acked, overlapped, budgets>>
<1>1. /\ up[i] = "repairing" /\ fix[i].todo = <<>>
      /\ UNCHANGED <<disk, job, newest, acked, overlapped, budgets>>
  BY DEF RepairRecords
<1>2. fix[i].left # <<>> /\ fix[i].left \in Seq(Instances)
  BY Typed, <1>1
<1>3. PICK r \in Instances : r = Head(fix[i].left)
  BY <1>2, TakeHead
<1>4. recs' = [recs EXCEPT ![r] = fix[i].recs[r]]
  BY <1>3 DEF RepairRecords
<1>5. /\ \A f \in Files : recs'[r][f] = fix[i].recs[r][f]
      /\ \A s \in Instances, f \in Files : s # r => recs'[s][f] = recs[s][f]
      /\ recs' \in [Instances -> [Files -> Content]]
  BY Typed, <1>4
<1>6. PICK n \in Nat, t \in Seq(Instances) :
         /\ n = Len(fix[i].left) /\ t = Tail(fix[i].left) /\ n # 0 /\ Len(t) = n - 1
         /\ Among(fix[i].left) = {r} \cup Among(t)
  <2>1. PICK q \in Seq(Instances) : q = fix[i].left /\ q # <<>>
    BY <1>2
  <2>2. /\ Tail(q) \in Seq(Instances) /\ Len(q) \in Nat \ {0} /\ Len(Tail(q)) = Len(q) - 1
        /\ Among(q) = {Head(q)} \cup Among(Tail(q))
    BY <2>1, TakeHead
  <2> QED BY <1>3, <2>1, <2>2
<1>7. CASE Len(fix[i].left) > 1
  <2>1. fix' = [fix EXCEPT ![i].left = Tail(@)] /\ up' = up
    BY <1>7 DEF RepairRecords
  <2>2. /\ fix'[i].left = Tail(fix[i].left) /\ fix'[i].todo = fix[i].todo
        /\ fix'[i].recs = fix[i].recs /\ fix'[i].lost = fix[i].lost
        /\ \A j \in Instances : j # i => fix'[j] = fix[j]
    BY Typed, <2>1 DEF Fixes
  <2>4. Len(t) # 0
    BY <1>6, <1>7
  <2>3. Tail(fix[i].left) # <<>>
    BY <1>6, <2>4, EmptyHasNone
  <2> QED BY <1>1, <1>2, <1>3, <1>5, <2>1, <2>2, <2>3
<1>8. CASE ~(Len(fix[i].left) > 1)
  <2>1. fix' = [fix EXCEPT ![i] = NoRepair] /\ up' = [up EXCEPT ![i] = "up"]
    BY <1>8 DEF RepairRecords
  <2>2. /\ fix'[i] = NoRepair /\ up'[i] = "up"
        /\ \A j \in Instances : j # i => fix'[j] = fix[j] /\ up'[j] = up[j]
    BY Typed, <2>1
  <2>3. Len(t) = 0
    <3>1. ~(n > 1) /\ n # 0 /\ n \in Nat
      BY <1>6, <1>8
    <3>2. n = 1
      BY <3>1
    <3>3. Len(t) = n - 1
      BY <1>6
    <3> QED BY <3>2, <3>3
  <2>4. t = <<>>
    BY <2>3
  <2>5. Among(fix[i].left) = {r}
    BY <1>6, <2>4, EmptyHasNone
  <2> QED BY <1>1, <1>2, <1>3, <1>5, <2>2, <2>5
<1> QED
  BY <1>7, <1>8

LEMMA RepairRecordsKeeps ==
    ASSUME TypeOK, NEW i \in Instances, RepairRecords(i)
    PROVE  \/ fix'[i] = NoRepair
           \/ /\ fix'[i].over = fix[i].over /\ fix'[i].from = fix[i].from
              /\ fix'[i].hash = fix[i].hash /\ fix'[i].held = fix[i].held
<1>1. \/ fix' = [fix EXCEPT ![i].left = Tail(@)]
      \/ fix' = [fix EXCEPT ![i] = NoRepair]
  BY DEF RepairRecords
<1> QED
  BY <1>1, Typed DEF Fixes

LEMMA RotDoes ==
    ASSUME TypeOK, NEW r \in Instances, NEW f \in Files, Rot(r, f)
    PROVE  /\ rots < MaxRot /\ rots' = rots + 1 /\ Has(r, f) /\ ~Busy
           /\ up[r] = "down" \/ "rot_live" \in Allowed
           /\ disk'[r][f] = [v |-> disk[r][f].v, ok |-> FALSE]
           /\ \A s \in Instances, g \in Files : s # r \/ g # f => disk'[s][g] = disk[s][g]
           /\ UNCHANGED <<recs, up, job, fix, newest, acked, overlapped, requests, crashes>>
<1>1. PICK d : d = [v |-> disk[r][f].v, ok |-> FALSE] /\ disk' = [disk EXCEPT ![r][f] = d]
  BY DEF Rot
<1>2. /\ disk'[r][f] = d
      /\ \A s \in Instances, g \in Files : s # r \/ g # f => disk'[s][g] = disk[s][g]
  <2>1. disk \in [Instances -> [Files -> Content]]
    BY Typed
  <2>2. disk' = [disk EXCEPT ![r][f] = d]
    BY <1>1
  <2> QED BY <2>1, <2>2, Put
<1> QED
  BY <1>1, <1>2 DEF Rot

-----------------------------------------------------------------------------
(* Type correctness.                                                       *)

\* What there is to show of a step whose job, disk and records are well-typed.
LEMMA StaysTyped ==
    ASSUME TypeOK, job' \in [Workers -> Jobs], disk' \in [Instances -> [Files -> Content]],
           recs' \in [Instances -> [Files -> Content]], fix' \in [Instances -> Fixes],
           up' \in [Instances -> {"up", "repairing", "down"}],
           newest' \in [Files -> 0..MaxVersion],
           acked' \in [Instances -> [Files -> 0..MaxVersion]],
           overlapped' \in BOOLEAN,
           \A w \in Workers : job'[w].pc # "idle" => up'[Home[w]] = "up",
           \A w \in Workers : job'[w].pc = "copying" => job'[w].todo # <<>> /\ job'[w].left # <<>>,
           \A i \in Instances : up'[i] = "repairing" <=> fix'[i].left # <<>>,
           requests' \in Nat, crashes' \in 0..MaxCrashes, rots' \in 0..MaxRot,
           halfway' \in SUBSET Files
    PROVE  TypeOK'
  BY DEF TypeOK, Jobs, Fixes

LEMMA NoRepairTyped ==
    /\ NoRepair.left = <<>> /\ NoRepair.over = <<>>
    /\ NoRepair.held = Missing /\ NoRepair.hash = Missing
    /\ \A i \in Instances : NoRepair \in Fixes
<1>1. Missing \in Content
  BY ConstantsTyped
<1>2. NoRepair.left = <<>> /\ NoRepair.over = <<>> /\ NoRepair.held = Missing /\ NoRepair.hash = Missing
  BY DEF NoRepair
<1>3. ASSUME NEW i \in Instances PROVE NoRepair \in Fixes
  <2>1. PICK q \in Instances : q = CHOOSE r \in Instances : TRUE
    OBVIOUS
  <2> QED BY <1>1, <2>1, EmptyHasNone DEF NoRepair, Fixes
<1> QED
  BY <1>2, <1>3

LEMMA InitTyped == Init => TypeOK
<1> SUFFICES ASSUME Init PROVE TypeOK
  OBVIOUS
<1>1. Missing \in Content /\ 0 \in 0 .. MaxVersion
      /\ 0 \in 0 .. MaxCrashes /\ 0 \in 0 .. MaxRot
  BY ReplicatedStoreAssumption DEF Missing, Content
<1>2. Idle \in Jobs /\ Idle.pc = "idle"
  BY <1>1, EmptyHasNone DEF Idle, Jobs
<1>3. NoRepair.left = <<>> /\ \A i \in Instances : NoRepair \in Fixes
  BY NoRepairTyped
<1>4. job \in [Workers -> Jobs] /\ fix \in [Instances -> Fixes]
  BY <1>2, <1>3 DEF Init
<1>5. /\ disk \in [Instances -> [Files -> Content]] /\ recs \in [Instances -> [Files -> Content]]
      /\ up \in [Instances -> {"up", "repairing", "down"}]
      /\ newest \in [Files -> 0..MaxVersion] /\ acked \in [Instances -> [Files -> 0..MaxVersion]]
      /\ overlapped \in BOOLEAN /\ halfway \in SUBSET Files
      /\ requests \in Nat /\ crashes \in 0..MaxCrashes /\ rots \in 0..MaxRot
  BY <1>1 DEF Init
<1>6. \A w \in Workers : job[w].pc = "idle"
  BY <1>2 DEF Init
<1>7. \A i \in Instances : up[i] = "up" /\ fix[i].left = <<>>
  BY <1>3 DEF Init
<1> QED
  BY <1>4, <1>5, <1>6, <1>7 DEF TypeOK, Jobs, Fixes

\* One job changes, and nothing else that has a type but disk, records, newest, acked.
LEMMA JobStaysTyped ==
    ASSUME TypeOK, NEW w \in Workers, NEW j \in Jobs, job' = [job EXCEPT ![w] = j],
           j.pc # "idle" => up[Home[w]] = "up",
           j.pc = "copying" => j.todo # <<>> /\ j.left # <<>>
    PROVE  /\ job' \in [Workers -> Jobs]
           /\ \A x \in Workers : job'[x].pc # "idle" => up[Home[x]] = "up"
           /\ \A x \in Workers : job'[x].pc = "copying" => job'[x].todo # <<>> /\ job'[x].left # <<>>
  BY Typed

LEMMA PlainTyped ==
    ASSUME TypeOK
    PROVE  /\ overlapped \in BOOLEAN /\ requests \in Nat
           /\ crashes \in 0..MaxCrashes /\ rots \in 0..MaxRot
           /\ Idle \in Jobs /\ Idle.pc = "idle"
           /\ NoRepair.left = <<>> /\ \A i \in Instances : NoRepair \in Fixes
<1>1. Missing \in Content /\ 0 \in 0 .. MaxVersion
  BY ReplicatedStoreAssumption DEF Missing, Content
<1>2. Idle \in Jobs /\ Idle.pc = "idle"
  BY <1>1, EmptyHasNone DEF Idle, Jobs
<1> QED
  BY <1>2, NoRepairTyped DEF TypeOK

\* What a repair is half way with is a file.
LEMMA ServeKeepsHalfway ==
    ASSUME NEW w \in Workers, Serve(w)
    PROVE  halfway' = halfway
  BY DEF Serve, Receive, WriteFile, StartCommit, WriteRecords, Compare, Copy, Merge,
         ReplicaFails, PrimaryFails, Answer

LEMMA HalfwayTyped ==
    ASSUME TypeOK, [Next]_vars
    PROVE  halfway' \in SUBSET Files
<1>0. halfway \in SUBSET Files
  BY DEF TypeOK
<1>1. CASE \E w \in Workers : Serve(w)
  BY <1>0, <1>1, ServeKeepsHalfway
<1>2. ASSUME NEW i \in Instances, RepairFile(i) PROVE halfway' \in SUBSET Files
  BY <1>0, <1>2, RepairFileDoes DEF GivesUp, Opens, TakesSource, HandsTo
<1>3. ASSUME NEW i \in Instances, Crash(i) \/ Restart(i) \/ RepairRecords(i)
      PROVE  halfway' = halfway
  BY <1>3 DEF Crash, Restart, RepairRecords
<1>4. ASSUME NEW r \in Instances, NEW f \in Files, Rot(r, f) PROVE halfway' = halfway
  BY <1>4 DEF Rot
<1>5. CASE UNCHANGED vars
  BY <1>0, <1>5 DEF vars
<1> QED
  BY <1>0, <1>1, <1>2, <1>3, <1>4, <1>5 DEF Next

LEMMA ServeTyped ==
    ASSUME TypeOK, NEW w \in Workers, Serve(w)
    PROVE  TypeOK'
<1>0. /\ job[w] \in Jobs /\ Home[w] \in Instances
      /\ disk \in [Instances -> [Files -> Content]] /\ recs \in [Instances -> [Files -> Content]]
      /\ newest \in [Files -> 0..MaxVersion] /\ acked \in [Instances -> [Files -> 0..MaxVersion]]
      /\ up \in [Instances -> {"up", "repairing", "down"}] /\ fix \in [Instances -> Fixes]
      /\ \A i \in Instances : up[i] = "repairing" <=> fix[i].left # <<>>
      /\ halfway' \in SUBSET Files
  BY Typed, ConstantsTyped, HalfwayTyped DEF Next
<1>1. ASSUME NEW k \in Kinds, Receive(w, k) PROVE TypeOK'
  <2>1. PICK j : j = [Idle EXCEPT !.pc = "writing", !.todo = Writes[k]]
    OBVIOUS
  <2>2. j \in Jobs /\ j.pc = "writing"
    BY <2>1, PlainTyped, ConstantsTyped DEF Jobs
  <2>3. /\ job' = [job EXCEPT ![w] = j] /\ up[Home[w]] = "up" /\ requests' = requests + 1
        /\ UNCHANGED <<disk, recs, up, fix, newest, acked, crashes, rots>>
        /\ overlapped' = (overlapped \/ Busy)
    BY <1>1, <2>1 DEF Receive, SetsOut
  <2>4. /\ job' \in [Workers -> Jobs]
        /\ \A x \in Workers : job'[x].pc # "idle" => up[Home[x]] = "up"
        /\ \A x \in Workers : job'[x].pc = "copying" => job'[x].todo # <<>> /\ job'[x].left # <<>>
    BY <2>2, <2>3, JobStaysTyped
  <2>5. overlapped' \in BOOLEAN
    BY <2>3 DEF Busy
  <2> QED BY <1>0, <2>3, <2>4, <2>5, PlainTyped, StaysTyped
<1>2. ASSUME NEW j \in Jobs, job' = [job EXCEPT ![w] = j],
             j.pc = "idle" \/ job[w].pc # "idle",
             j.pc = "copying" => j.todo # <<>> /\ j.left # <<>>,
             disk' \in [Instances -> [Files -> Content]], recs' \in [Instances -> [Files -> Content]],
             newest' \in [Files -> 0..MaxVersion], acked' \in [Instances -> [Files -> 0..MaxVersion]],
             UNCHANGED <<up, fix, overlapped, budgets>>
      PROVE  TypeOK'
  <2>1. j.pc # "idle" => up[Home[w]] = "up"
    BY <1>2, Typed
  <2>2. /\ job' \in [Workers -> Jobs]
        /\ \A x \in Workers : job'[x].pc # "idle" => up[Home[x]] = "up"
        /\ \A x \in Workers : job'[x].pc = "copying" => job'[x].todo # <<>> /\ job'[x].left # <<>>
    BY <1>2, <2>1, JobStaysTyped
  <2> QED BY <1>0, <1>2, <2>2, PlainTyped, StaysTyped DEF budgets
<1>3. CASE WriteFile(w)
  <2>1. PICK i \in Instances, f \in Files, v \in 1 .. MaxVersion :
          i = Home[w] /\ job[w].todo # <<>> /\ f = Head(job[w].todo) /\ v = newest[f] + 1
    <3>1. job[w].todo # <<>>
      BY <1>3 DEF WriteFile
    <3>2. PICK i \in Instances, f \in Files : i = Home[w] /\ f = Head(job[w].todo)
      BY Typed, <1>0, <3>1, TakeHead
    <3>3. newest[f] + 1 <= MaxVersion
      BY <1>3, <3>2 DEF WriteFile
    <3>4. newest[f] + 1 \in 1 .. MaxVersion
      BY <1>0, <3>3, ConstantsTyped
    <3> QED BY <3>1, <3>2, <3>4
  <2>2. PICK j : j = [job[w] EXCEPT !.todo = Tail(@), !.wrote[f] = v]
    OBVIOUS
  <2>3. PICK x \in Jobs, t \in Seq(Files), u \in [Files -> 0..MaxVersion] :
          x = job[w] /\ t = Tail(x.todo) /\ u = [x.wrote EXCEPT ![f] = v]
    <3>1. Tail(job[w].todo) \in Seq(Files)
      BY Typed, <2>1, TakeHead
    <3>2. [job[w].wrote EXCEPT ![f] = v] \in [Files -> 0..MaxVersion]
      BY Typed
    <3> QED BY <1>0, <3>1, <3>2
  <2>4. j \in Jobs /\ j.pc = job[w].pc
    <3>1. j = [x EXCEPT !.todo = t, !.wrote = u]
      BY <2>2, <2>3 DEF Jobs
    <3> QED BY <2>3, <3>1 DEF Jobs
  <2>5. /\ job[w].pc = "writing" /\ job' = [job EXCEPT ![w] = j]
        /\ newest' = [newest EXCEPT ![f] = v] /\ disk' = [disk EXCEPT ![i][f] = [v |-> v, ok |-> TRUE]]
        /\ UNCHANGED <<recs, up, fix, acked, overlapped, budgets>>
    BY <1>0, <1>3, <2>1, <2>2 DEF WriteFile
  <2>6. [v |-> v, ok |-> TRUE] \in Content
    BY <2>1 DEF Content
  <2>7. newest' \in [Files -> 0..MaxVersion] /\ disk' \in [Instances -> [Files -> Content]]
    BY <1>0, <2>5, <2>6
  <2> QED BY <1>0, <1>2, <2>4, <2>5, <2>7
<1>4. CASE StartCommit(w)
  <2>1. PICK here \in SUBSET Files : here = FilesUnder(Home[w])
    BY DEF FilesUnder
  <2>2. PICK s \in Seq(Files) : s = CommitOrder(here)
    BY CommitOrderHolds
  <2>7. PICK h : h = [f \in Files |-> IF f \in here THEN disk[Home[w]][f] ELSE recs[Home[w]][f]]
    OBVIOUS
  <2>3. PICK j : j = [job[w] EXCEPT !.pc = "recording", !.rels = s, !.hashes = h]
    OBVIOUS
  <2>4. h \in [Files -> Content]
    BY <1>0, <2>7
  <2>5. j \in Jobs /\ j.pc = "recording"
    BY <1>0, <2>3, <2>4 DEF Jobs
  <2>6. /\ job[w].pc = "writing" /\ job' = [job EXCEPT ![w] = j]
        /\ UNCHANGED <<disk, recs, up, fix, newest, acked, overlapped, budgets>>
    BY <1>0, <1>4, <2>1, <2>2, <2>7, <2>3 DEF StartCommit
  <2> QED BY <1>0, <1>2, <2>5, <2>6
<1>5. CASE WriteRecords(w)
  <2>1. PICK j : j = [job[w] EXCEPT !.pc = "replicating", !.left = Replicas[Home[w]],
                                    !.todo = job[w].rels]
    OBVIOUS
  <2>2. j \in Jobs /\ j.pc = "replicating"
    BY <1>0, <2>1, ConstantsTyped DEF Jobs
  <2>3. /\ job[w].pc = "recording" /\ job' = [job EXCEPT ![w] = j]
        /\ recs' = [recs EXCEPT ![Home[w]] = job[w].hashes]
        /\ UNCHANGED <<disk, up, fix, newest, acked, overlapped, budgets>>
    BY <1>0, <1>5, <2>1 DEF WriteRecords
  <2>4. recs' \in [Instances -> [Files -> Content]]
    BY Typed, <1>0, <2>3
  <2> QED BY <1>0, <1>2, <2>2, <2>3, <2>4
<1>6. CASE Compare(w)
  <2>1. PICK i \in Instances, f \in Files :
          i = Home[w] /\ job[w].pc = "replicating" /\ f = Head(job[w].todo)
          /\ job[w].todo # <<>> /\ job[w].left # <<>>
    BY <1>6, CompareDoes
  <2>2. Tail(job[w].todo) \in Seq(Files)
    BY Typed, <2>1, TakeHead
  <2>3. PICK j \in Jobs : /\ job' = [job EXCEPT ![w] = j]
                          /\ j.pc \in {"replicating", "copying"} 
                          /\ j.pc = "copying" => j.todo # <<>> /\ j.left # <<>>
    <3>1. CASE job' = [job EXCEPT ![w].todo = Tail(@)]
      <4>1. PICK j : j = [job[w] EXCEPT !.todo = Tail(@)]
        OBVIOUS
      <4>2. j \in Jobs /\ j.pc = "replicating"
        BY <1>0, <2>1, <2>2, <4>1 DEF Jobs
      <4>3. job' = [job EXCEPT ![w] = j]
        BY <3>1, <4>1
      <4> QED BY <4>2, <4>3
    <3>2. CASE job' = [job EXCEPT ![w].pc = "copying", ![w].held = disk[i][f]]
      <4>0. PICK c \in Content : c = disk[i][f]
        BY <1>0
      <4>1. PICK j : j = [job[w] EXCEPT !.pc = "copying", !.held = c]
        OBVIOUS
      <4>2. j \in Jobs /\ j.pc = "copying" /\ j.todo = job[w].todo /\ j.left = job[w].left
        BY <1>0, <2>1, <4>1 DEF Jobs
      <4>3. job' = [job EXCEPT ![w] = j]
        BY Typed, <3>2, <4>0, <4>1
      <4> QED BY <2>1, <4>2, <4>3
    <3> QED BY <1>6, <2>1, <3>1, <3>2 DEF Compare
  <2>4. UNCHANGED <<disk, recs, up, fix, newest, acked, overlapped, budgets>>
    BY <1>6 DEF Compare
  <2> QED BY <1>0, <1>2, <2>1, <2>3, <2>4
<1>7. CASE Copy(w)
  <2>1. PICK r \in Instances, f \in Files :
          r = Head(job[w].left) /\ job[w].pc = "copying" /\ f = Head(job[w].todo)
          /\ job[w].todo # <<>> /\ job[w].left # <<>>
    BY <1>7, CopyDoes
  <2>2. Tail(job[w].todo) \in Seq(Files)
    BY Typed, <2>1, TakeHead
  <2>3. PICK j : j = [job[w] EXCEPT !.pc = "replicating", !.todo = Tail(@), !.held = Missing]
    OBVIOUS
  <2>4. j \in Jobs /\ j.pc = "replicating"
    BY <1>0, <2>2, <2>3, ConstantsTyped DEF Jobs
  <2>5. /\ job' = [job EXCEPT ![w] = j] /\ disk' = [disk EXCEPT ![r][f] = job[w].held]
        /\ UNCHANGED <<recs, up, fix, newest, acked, overlapped, budgets>>
    BY <1>0, <1>7, <2>1, <2>3 DEF Copy
  <2>6. disk' \in [Instances -> [Files -> Content]]
    BY Typed, <1>0, <2>5
  <2> QED BY <1>0, <1>2, <2>1, <2>4, <2>5, <2>6
<1>8. ASSUME job[w].left # <<>>
      PROVE  /\ NextReplica(job[w]) \in Jobs
             /\ [NextReplica(job[w]) EXCEPT !.reached = @ + 1] \in Jobs
  <2>1. PICK t \in Seq(Instances), q \in Seq(Files) :
          t = Tail(job[w].left) /\ q = IF Len(job[w].left) > 1 THEN job[w].rels ELSE <<>>
    BY Typed, <1>8, TakeHead, EmptyHasNone
  <2>2. NextReplica(job[w]) = [job[w] EXCEPT !.pc = "replicating", !.left = t, !.held = Missing,
                                             !.todo = q]
    BY <1>0, <2>1 DEF NextReplica
  <2>3. [job[w] EXCEPT !.pc = "replicating", !.left = t, !.held = Missing, !.todo = q] \in Jobs
    BY <1>0, ConstantsTyped DEF Jobs
  <2>4. ASSUME NEW j \in Jobs PROVE [j EXCEPT !.reached = @ + 1] \in Jobs
    <3>1. PICK n \in Nat : n = j.reached + 1
      BY DEF Jobs
    <3>2. [j EXCEPT !.reached = n] \in Jobs
      BY DEF Jobs
    <3> QED BY <3>1, <3>2
  <2> QED BY <2>2, <2>3, <2>4
<1>9. CASE Merge(w)
  <2>1. PICK j : j = [NextReplica(job[w]) EXCEPT !.reached = @ + 1]
    OBVIOUS
  <2>2. PICK r \in Instances : r = Head(job[w].left) /\ job[w].pc = "replicating" /\ OnToNext(w)
    BY <1>9, MergeDoes
  <2>3. job[w].left # <<>> /\ job'[w].pc = "replicating"
    BY <2>2 DEF OnToNext
  <2>4. job' = [job EXCEPT ![w] = j]
    BY <1>9, <2>1 DEF Merge
  <2>5. j \in Jobs /\ j.pc = "replicating"
    BY <1>8, <2>1, <2>3, <2>4, PutJob
  <2>6. PICK h : h = [f \in Files |-> IF f \in {job[w].rels[n] : n \in DOMAIN job[w].rels}
                                      THEN job[w].hashes[f] ELSE recs[r][f]]
    OBVIOUS
  <2>7. h \in [Files -> Content]
    BY Typed, <1>0, <2>6
  <2>8. recs' = [recs EXCEPT ![r] = h]
    BY <1>9, <2>2, <2>6 DEF Merge
  <2>9. recs' \in [Instances -> [Files -> Content]]
    BY <1>0, <2>7, <2>8
  <2>10. UNCHANGED <<disk, up, fix, newest, acked, overlapped, budgets>>
    BY <1>9 DEF Merge
  <2> QED BY <1>0, <1>2, <2>2, <2>4, <2>5, <2>9, <2>10
<1>10. CASE ReplicaFails(w)
  <2>1. job[w].pc \in {"replicating", "copying"} /\ OnToNext(w)
        /\ UNCHANGED <<disk, recs, up, fix, newest, acked, overlapped, budgets>>
    BY <1>10, ReplicaFailsDoes
  <2>2. PICK j : j = NextReplica(job[w])
    OBVIOUS
  <2>3. job' = [job EXCEPT ![w] = j]
    BY <1>10, <2>2 DEF ReplicaFails
  <2>4. j \in Jobs /\ j.pc = "replicating"
    BY <1>8, <2>1, <2>2, <2>3, PutJob DEF OnToNext
  <2> QED BY <1>0, <1>2, <2>1, <2>3, <2>4
<1>11. CASE PrimaryFails(w)
  <2>1. job' = [job EXCEPT ![w] = Idle]
        /\ UNCHANGED <<disk, recs, up, fix, newest, acked, overlapped, budgets>>
    BY <1>11 DEF PrimaryFails
  <2> QED BY <1>0, <1>2, <2>1, PlainTyped
<1>12. CASE Answer(w)
  <2>1. job' = [job EXCEPT ![w] = Idle]
        /\ UNCHANGED <<disk, recs, up, fix, newest, overlapped, budgets>>
    BY <1>12 DEF Answer
  <2>2. PICK h, a : /\ h = Home[w]
                    /\ a = [f \in Files |-> IF job[w].wrote[f] > acked[h][f]
                                            THEN job[w].wrote[f] ELSE acked[h][f]]
    OBVIOUS
  <2>3. acked' = acked \/ acked' = [acked EXCEPT ![h] = a]
    BY <1>12, <2>2 DEF Answer
  <2>4. a \in [Files -> 0..MaxVersion]
    BY Typed, <1>0, <2>2
  <2>5. acked' \in [Instances -> [Files -> 0..MaxVersion]]
    BY <1>0, <2>3, <2>4
  <2> QED BY <1>0, <1>2, <2>1, <2>5, PlainTyped
<1> QED
  BY <1>1, <1>3, <1>4, <1>5, <1>6, <1>7, <1>9, <1>10, <1>11, <1>12 DEF Serve

LEMMA StepTyped ==
    ASSUME TypeOK, [Next]_vars
    PROVE  TypeOK'
<1>0. /\ job \in [Workers -> Jobs]
      /\ disk \in [Instances -> [Files -> Content]] /\ recs \in [Instances -> [Files -> Content]]
      /\ newest \in [Files -> 0..MaxVersion] /\ acked \in [Instances -> [Files -> 0..MaxVersion]]
      /\ up \in [Instances -> {"up", "repairing", "down"}] /\ fix \in [Instances -> Fixes]
      /\ \A i \in Instances : up[i] = "repairing" <=> fix[i].left # <<>>
      /\ \A w \in Workers : Home[w] \in Instances /\ (job[w].pc # "idle" => up[Home[w]] = "up")
      /\ \A w \in Workers : job[w].pc = "copying" => job[w].todo # <<>> /\ job[w].left # <<>>
      /\ halfway' \in SUBSET Files
  BY Typed, ConstantsTyped, HalfwayTyped
<1>1. ASSUME NEW i \in Instances, Crash(i) PROVE TypeOK'
  <2>1. job' \in [Workers -> Jobs] /\ fix' \in [Instances -> Fixes]
        /\ up' \in [Instances -> {"up", "repairing", "down"}]
    BY <1>0, <1>1, PlainTyped DEF Crash
  <2>3. /\ crashes < MaxCrashes /\ crashes' = crashes + 1
        /\ up'[i] = "down" /\ \A j \in Instances : j # i => up'[j] = up[j]
    BY <1>1, CrashDoes
  <2>4. /\ \A w \in Workers : job'[w] = IF Home[w] = i THEN Idle ELSE job[w]
        /\ fix'[i] = NoRepair /\ \A j \in Instances : j # i => fix'[j] = fix[j]
        /\ UNCHANGED <<disk, recs, newest, acked, overlapped, requests, rots>>
    BY <1>1, CrashDoes
  <2>5. crashes' \in 0 .. MaxCrashes
    <3>1. crashes \in 0 .. MaxCrashes /\ MaxCrashes \in Nat
      BY PlainTyped, ReplicatedStoreAssumption
    <3> QED BY <2>3, <3>1
  <2>6. ASSUME NEW w \in Workers, job'[w].pc # "idle" PROVE up'[Home[w]] = "up"
    <3>1. Home[w] # i /\ job'[w] = job[w]
      <4>1. job'[w] # Idle
        BY <2>6, PlainTyped
      <4> QED BY <2>4, <4>1
    <3>2. up[Home[w]] = "up" /\ Home[w] \in Instances
      BY <1>0, <2>6, <3>1
    <3> QED BY <2>3, <3>1, <3>2
  <2>7. \A w \in Workers : job'[w].pc = "copying" => job'[w].todo # <<>> /\ job'[w].left # <<>>
    BY <1>0, <2>4, PlainTyped
  <2>8. ASSUME NEW j \in Instances PROVE up'[j] = "repairing" <=> fix'[j].left # <<>>
    <3>1. CASE j = i
      <4>1. fix'[j].left = <<>> /\ up'[j] = "down"
        BY <2>3, <2>4, <3>1, PlainTyped
      <4> QED BY <4>1
    <3>2. CASE j # i
      <4>1. fix'[j] = fix[j] /\ up'[j] = up[j]
        BY <2>3, <2>4, <3>2
      <4> QED BY <1>0, <4>1
    <3> QED BY <3>1, <3>2
  <2> QED BY <1>0, <2>1, <2>4, <2>5, <2>6, <2>7, <2>8, PlainTyped, StaysTyped
<1>2. ASSUME NEW i \in Instances, Restart(i) PROVE TypeOK'
  <2>1. /\ up' = [up EXCEPT ![i] = "repairing"] /\ overlapped' = (overlapped \/ Busy)
        /\ UNCHANGED <<disk, recs, job, newest, acked, budgets>> /\ up[i] = "down"
    BY <1>2 DEF Restart, SetsOut
  <2>2. PICK y : fix' = [fix EXCEPT ![i] = y]
    BY <1>2 DEF Restart
  <2>3. /\ fix'[i].todo \in Seq(Files) /\ fix'[i].left = RootsOf(i) /\ fix'[i].lost = {}
        /\ fix'[i].recs \in [Instances -> [Files -> Content]]
    BY <1>2, RestartDoes
  <2>4. /\ RootsOf(i) \in Seq(Instances) /\ RootsOf(i) # <<>>
    BY RequiredIs
  <2>5. y = fix'[i] /\ \A j \in Instances : j # i => fix'[j] = fix[j]
    BY <1>0, <2>2
  <2>6. y \in Fixes
    <3>1. PICK h, s, l : fix'[i] = [NoRepair EXCEPT !.recs = h, !.todo = s, !.left = l]
      <4>1. fix'[i] = [NoRepair EXCEPT !.recs = [r \in Instances |-> IF r \in Required(i) THEN recs[r]
                                                                             ELSE NoRepair.recs[r]],
                           !.todo = InPathOrder(UNION {FilesUnder(r) : r \in Required(i)}),
                           !.left = RootsOf(i)]
        BY <1>0, <1>2 DEF Restart
      <4> QED BY <4>1
    <3>2. PICK x \in Fixes : x = NoRepair
      BY NoRepairTyped
    <3>3. fix'[i] = [x EXCEPT !.recs = h, !.todo = s, !.left = l]
      BY <3>1, <3>2
    <3>4. h = fix'[i].recs /\ s = fix'[i].todo /\ l = fix'[i].left
      BY <3>3 DEF Fixes
    <3>5. h \in [Instances -> [Files -> Content]] /\ s \in Seq(Files) /\ l \in Seq(Instances)
      BY <2>3, <2>4, <3>4
    <3>6. [x EXCEPT !.recs = h, !.todo = s, !.left = l] \in Fixes
      BY <3>5 DEF Fixes
    <3> QED BY <2>5, <3>3, <3>6
  <2>7. fix' \in [Instances -> Fixes]
    BY <1>0, <2>2, <2>6
  <2>8. \A j \in Instances : up'[j] = "repairing" <=> fix'[j].left # <<>>
    BY <1>0, <2>1, <2>3, <2>4, <2>5
  <2>9. \A w \in Workers : job'[w].pc # "idle" => up'[Home[w]] = "up"
    BY <1>0, <2>1
  <2>10. overlapped' \in BOOLEAN /\ up' \in [Instances -> {"up", "repairing", "down"}]
    BY <1>0, <2>1 DEF Busy
  <2> QED BY <1>0, <2>1, <2>7, <2>8, <2>9, <2>10, PlainTyped, StaysTyped DEF budgets
<1>3. ASSUME NEW i \in Instances, RepairFile(i) PROVE TypeOK'
  <2>1. PICK f \in Files : f = Head(fix[i].todo)
    BY <1>3, RepairFileDoes
  <2>2. /\ fix' \in [Instances -> Fixes] /\ fix'[i].left = fix[i].left
        /\ \A j \in Instances : j # i => fix'[j] = fix[j]
        /\ disk' \in [Instances -> [Files -> Content]]
        /\ UNCHANGED <<recs, up, job, newest, acked, overlapped, budgets>>
    <3>1. CASE ExamineFile(i)
      BY <1>0, <2>1, <3>1, ExamineFileDoes DEF ExamineFile
    <3>2. CASE OpenSource(i)
      BY <1>0, <2>1, <3>2, OpenSourceDoes DEF OpenSource
    <3>3. CASE PassCopy(i) \/ ReplaceCopy(i)
      BY <2>1, <3>3, HandsOverDoes DEF PassCopy, ReplaceCopy
    <3> QED BY <1>3, <3>1, <3>2, <3>3 DEF RepairFile
  <2>3. \A j \in Instances : up'[j] = "repairing" <=> fix'[j].left # <<>>
    <3>1. \A j \in Instances : fix'[j].left = fix[j].left
      BY <2>2
    <3> QED BY <1>0, <2>2, <3>1
  <2>4. UNCHANGED <<recs, up, job, newest, acked, overlapped, requests, crashes, rots>>
    BY <2>2 DEF budgets
  <2>5. overlapped' \in BOOLEAN /\ requests' \in Nat /\ crashes' \in 0..MaxCrashes /\ rots' \in 0..MaxRot
    BY <2>4, PlainTyped
  <2>6. /\ \A w \in Workers : job'[w].pc # "idle" => up'[Home[w]] = "up"
        /\ \A w \in Workers : job'[w].pc = "copying" => job'[w].todo # <<>> /\ job'[w].left # <<>>
    BY <1>0, <2>4
  <2>7. /\ job' \in [Workers -> Jobs] /\ recs' \in [Instances -> [Files -> Content]]
        /\ up' \in [Instances -> {"up", "repairing", "down"}]
        /\ newest' \in [Files -> 0..MaxVersion] /\ acked' \in [Instances -> [Files -> 0..MaxVersion]]
    BY <1>0, <2>4
  <2> QED BY <1>0, <2>2, <2>3, <2>5, <2>6, <2>7, StaysTyped
<1>4. ASSUME NEW i \in Instances, RepairRecords(i) PROVE TypeOK'
  <2>1. PICK r \in Instances :
           /\ up[i] = "repairing" /\ recs' \in [Instances -> [Files -> Content]]
           /\ \A j \in Instances : j # i => fix'[j] = fix[j] /\ up'[j] = up[j]
           /\ \/ /\ Tail(fix[i].left) # <<>> /\ fix'[i].left = Tail(fix[i].left)
                 /\ up'[i] = "repairing"
              \/ fix'[i] = NoRepair /\ up'[i] = "up"
           /\ UNCHANGED <<disk, job, newest, acked, overlapped, budgets>>
    BY <1>4, RepairRecordsDoes
  <2>2. fix[i].left # <<>>
    BY <1>0, <2>1
  <2>3. PICK t \in Seq(Instances) : t = Tail(fix[i].left)
    BY Typed, <2>2, TakeHead
  <2>4. \/ fix' = [fix EXCEPT ![i].left = Tail(@)] /\ up' = up
        \/ fix' = [fix EXCEPT ![i] = NoRepair] /\ up' = [up EXCEPT ![i] = "up"]
    BY <1>4 DEF RepairRecords
  <2>5. [fix[i] EXCEPT !.left = t] \in Fixes
    <3>1. PICK y \in Fixes : y = fix[i]
      BY <1>0
    <3>2. [y EXCEPT !.left = t] \in Fixes
      BY DEF Fixes
    <3> QED BY <3>1, <3>2
  <2>6. fix' \in [Instances -> Fixes] /\ up' \in [Instances -> {"up", "repairing", "down"}]
    <3>1. CASE fix' = [fix EXCEPT ![i].left = Tail(@)] /\ up' = up
      <4>1. fix' = [fix EXCEPT ![i] = [fix[i] EXCEPT !.left = t]]
        BY <1>0, <2>3, <3>1
      <4>2. PICK y \in Fixes : y = [fix[i] EXCEPT !.left = t]
        BY <2>5
      <4>3. fix' = [fix EXCEPT ![i] = y]
        BY <4>1, <4>2
      <4>4. fix' \in [Instances -> Fixes]
        BY <1>0, <4>3
      <4>5. up' \in [Instances -> {"up", "repairing", "down"}]
        BY <1>0, <3>1
      <4> QED BY <4>4, <4>5
    <3>2. CASE fix' = [fix EXCEPT ![i] = NoRepair] /\ up' = [up EXCEPT ![i] = "up"]
      BY <1>0, <3>2, PlainTyped
    <3> QED BY <2>4, <3>1, <3>2
  <2>7. ASSUME NEW j \in Instances PROVE up'[j] = "repairing" <=> fix'[j].left # <<>>
    <3>1. CASE j # i
      BY <1>0, <2>1, <3>1
    <3>2. CASE j = i
      <4>1. CASE fix'[i] = NoRepair /\ up'[i] = "up"
        <5>1. fix'[j].left = <<>> /\ up'[j] = "up"
          BY <3>2, <4>1, PlainTyped
        <5> QED BY <5>1
      <4>2. CASE fix'[i].left # <<>> /\ up'[i] = "repairing"
        BY <3>2, <4>2
      <4> QED BY <2>1, <3>2, <4>1, <4>2
    <3> QED BY <3>1, <3>2
  <2>8. \A w \in Workers : job'[w].pc # "idle" => up'[Home[w]] = "up"
    BY <1>0, <2>1
  <2> QED BY <1>0, <2>1, <2>6, <2>7, <2>8, PlainTyped, StaysTyped DEF budgets
<1>5. ASSUME NEW r \in Instances, NEW f \in Files, Rot(r, f) PROVE TypeOK'
  <2>1. /\ rots < MaxRot /\ rots' = rots + 1
        /\ UNCHANGED <<recs, up, job, fix, newest, acked, overlapped, requests, crashes>>
        /\ disk' = [disk EXCEPT ![r][f] = [v |-> disk[r][f].v, ok |-> FALSE]]
    BY <1>5 DEF Rot
  <2>2. [v |-> disk[r][f].v, ok |-> FALSE] \in Content
    BY <1>0 DEF Content
  <2>3. disk' \in [Instances -> [Files -> Content]]
    BY <1>0, <2>1, <2>2
  <2>4. rots' \in 0 .. MaxRot
    BY <2>1, PlainTyped, ReplicatedStoreAssumption
  <2> QED BY <1>0, <2>1, <2>3, <2>4, PlainTyped, StaysTyped
<1>6. CASE UNCHANGED vars
  BY <1>6 DEF vars, TypeOK
<1> QED
  BY <1>1, <1>2, <1>3, <1>4, <1>5, <1>6, ServeTyped DEF Next
=============================================================================
