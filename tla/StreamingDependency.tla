------------------------ MODULE StreamingDependency ------------------------
(***************************************************************************)
(* backend/dependency/streaming.py: the estimator that keeps sufficient    *)
(* statistics per pair of addresses and answers from a cache.  A flow key  *)
(* that a chunk touches has its old contribution retracted and its new one *)
(* added; a pair is computed again when the versions it was computed from  *)
(* have moved.                                                             *)
(***************************************************************************)
EXTENDS IncrementalTopology

VARIABLES byKey,     \* flow key -> the records it contributes
          pairs,     \* pair of addresses -> statistics
          nodeTimes, \* address -> sorted first_seen of the flows touching it
          nodeVersion,
          cache      \* pair -> [valid, computed]

estimator == <<byKey, pairs, nodeTimes, nodeVersion, cache>>

-----------------------------------------------------------------------------
(* The records of the units of one flow key.                                *)

Records(us) ==
    [i \in DOMAIN us |->
        LET ends == <<us[i][1].src[1], us[i][1].dst[1]>>
            ratio == ForwardRatio(us[i])
        IN  [pair |-> IF ends[1] <= ends[2] THEN ends ELSE <<ends[2], ends[1]>>,
             ips |-> Range(ends),
             first |-> FirstSeen(us[i]), last |-> LastSeen(us[i]),
             packets |-> Len(us[i]), ratio |-> ratio,
             established |-> IF TcpState(us[i]) = "established" THEN 1 ELSE 0,
             fingerprinted |-> IF Fingerprinted(us[i]) THEN 1 ELSE 0,
             persistent |-> IF Len(us) > 1 THEN 1 ELSE 0,
             bidir |-> Bidirectionality(ratio)]]

NewPairStats == [count |-> 0, packets |-> 0, ratios |-> 0, established |-> 0,
                 fingerprinted |-> 0, persistent |-> 0,
                 firsts |-> <<>>, lasts |-> <<>>, bidirs |-> <<>>, version |-> 0]

\* Takes out whatever stands at the place of the item.
RemoveSorted(s, x) == RemoveAt(s, 1 + Cardinality({i \in DOMAIN s : s[i] < x}))

Apply(st, r, sign) ==
    [st EXCEPT !.count = @ + sign, !.packets = @ + sign * r.packets,
               !.ratios = @ + sign * r.ratio,
               !.established = @ + sign * r.established,
               !.fingerprinted = @ + sign * r.fingerprinted,
               !.persistent = @ + sign * r.persistent,
               !.version = @ + 1]

AddRecord(st, r) ==
    [Apply(st, r, 1) EXCEPT !.firsts = Insort(@, r.first, Itself),
                            !.lasts = Insort(@, r.last, Itself),
                            !.bidirs = Insort(@, r.bidir, Itself)]

\* Mistaken form of RemoveRecord: the lists keep what the counters give back.
RemoveRecordCounters(st, r) == Apply(st, r, -1)

RemoveRecord(st, r) ==
    [Apply(st, r, -1) EXCEPT !.firsts = RemoveSorted(@, r.first),
                             !.lasts = RemoveSorted(@, r.last),
                             !.bidirs = RemoveSorted(@, r.bidir)]

-----------------------------------------------------------------------------
(* Retracting and adding, over e = [pairs, times, versions].                *)

Retract(e, r) ==
    [pairs |-> [e.pairs EXCEPT ![r.pair] = RemoveRecord(@, r)],
     times |-> [ip \in DOMAIN e.times |->
                  IF ip \in r.ips THEN RemoveSorted(e.times[ip], r.first) ELSE e.times[ip]],
     versions |-> [ip \in DOMAIN e.versions |->
                  IF ip \in r.ips THEN e.versions[ip] + 1 ELSE e.versions[ip]]]

Add(e, r) ==
    [pairs |-> [p \in DOMAIN e.pairs \cup {r.pair} |->
                  IF p = r.pair THEN AddRecord(At(e.pairs, p, NewPairStats), r) ELSE e.pairs[p]],
     times |-> [ip \in DOMAIN e.times \cup r.ips |->
                  IF ip \in r.ips THEN Insort(At(e.times, ip, <<>>), r.first, Itself)
                  ELSE e.times[ip]],
     versions |-> [ip \in DOMAIN e.versions \cup r.ips |->
                  IF ip \in r.ips THEN At(e.versions, ip, 0) + 1 ELSE e.versions[ip]]]

Replace(e, before, after) == FoldLeft(Add, FoldLeft(Retract, e, before), after)

Recorded(key) == At(byKey, key, <<>>)

\* The keys of a chunk are taken in the order of a set: any order gives the
\* same statistics.
Ingest(chunk) ==
    LET touched == SetToSeq(Touched(chunk))
        now == [pairs |-> pairs, times |-> nodeTimes, versions |-> nodeVersion]
        after == FoldLeft(LAMBDA e, key :
                            Replace(e, Recorded(key), Records(UnitsAfter(topology, key, chunk))),
                          now, touched)
    IN  /\ IngestTopology(chunk)
        /\ byKey' = [k \in DOMAIN byKey \cup Touched(chunk) |->
                        IF k \in Touched(chunk) THEN Records(UnitsAfter(topology, k, chunk)) ELSE byKey[k]]
        /\ pairs' = after.pairs
        /\ nodeTimes' = after.times
        /\ nodeVersion' = after.versions
        /\ UNCHANGED cache

-----------------------------------------------------------------------------
(* Reading.                                                                 *)

Orient(pair) ==
    IF NodeId(Nodes(topology), pair[1]) <= NodeId(Nodes(topology), pair[2]) THEN pair ELSE <<pair[2], pair[1]>>

\* Mistaken form of Valid: the versions of the nodes are left out.
ValidWithoutNodes(pair) == <<Orient(pair), pairs[pair].version>>

Valid(pair) ==
    <<Orient(pair), pairs[pair].version,
      nodeVersion[Orient(pair)[1]], nodeVersion[Orient(pair)[2]]>>

\* What the scores of _compute are applied to, and first_observed.
Compute(pair) ==
    LET st == pairs[pair]
    IN  [strength |->
           [relationship |-> [count |-> st.count,
                               persistence |-> Last(st.lasts) - st.firsts[1]],
            ratios |-> st.ratios,
            confidence |-> [packets |-> st.packets,
                            established |-> st.established > 0,
                            fingerprinted |-> st.fingerprinted > 0,
                            persistent |-> st.persistent > 0,
                            bidirectional |-> Last(st.bidirs)],
            temporal |-> <<nodeTimes[Orient(pair)[1]], nodeTimes[Orient(pair)[2]]>>],
         first |-> st.firsts[1]]

Fresh ==
    [pair \in {p \in DOMAIN pairs : pairs[p].count > 0} |->
        IF pair \in DOMAIN cache /\ cache[pair].valid = Valid(pair)
        THEN cache[pair]
        ELSE [valid |-> Valid(pair), computed |-> Compute(pair)]]

\* The rows of the answer; each becomes a DependencyEdge.
Dependencies ==
    LET rows == {[source |-> NodeId(Nodes(topology), Orient(p)[1]),
                  target |-> NodeId(Nodes(topology), Orient(p)[2]),
                  computed |-> Fresh[p].computed] : p \in DOMAIN Fresh}
        sorted == SetToSortSeq(rows,
                      LAMBDA a, b : Before(<<a.computed.first, a.source, a.target>>,
                                           <<b.computed.first, b.source, b.target>>))
    IN  [i \in DOMAIN sorted |->
            [source |-> sorted[i].source, target |-> sorted[i].target,
             strength |-> sorted[i].computed.strength]]

Read == cache' = Fresh /\ UNCHANGED <<topology, arrived, byKey, pairs, nodeTimes, nodeVersion>>

EstimatorInit ==
    /\ byKey = <<>> /\ pairs = <<>> /\ nodeTimes = <<>> /\ nodeVersion = <<>>
    /\ cache = <<>>

-----------------------------------------------------------------------------
(* Properties.                                                              *)

\* Retracting and adding leave the statistics of a fresh start: the sums,
\* the sorted lists and the flow times are those of the present flows.
StatisticsExact ==
    \A p \in DOMAIN pairs :
        LET of == SelectSeq(Flows(topology), LAMBDA f : {f.src[1], f.dst[1]} = Range(p))
            Ordered(v(_)) == SortedBy([i \in DOMAIN of |-> v(of[i])], Itself)
        IN  /\ pairs[p].count = Len(of)
            /\ pairs[p].firsts = Ordered(LAMBDA f : f.first)
            /\ pairs[p].lasts = Ordered(LAMBDA f : f.last)
            /\ pairs[p].bidirs = Ordered(LAMBDA f : Bidirectionality(f.ratio))
            /\ \A i \in {1, 2} : nodeTimes[p[i]] = FlowTimes(Flows(topology), p[i])

NoLoopback == \A p \in DOMAIN pairs : p[1] # p[2]

\* A reader gets what the batch estimator would compute from all packets
\* received, from the cache or not, in the same order and orientation, as long
\* as no node talks to itself.
AnswersAreBatch == NoLoopback => Dependencies = EstimateDependencyStrength(arrived)

\* "One `DependencyEdge` per node pair, oriented and numbered the way the batch
\* estimator does" (streaming.py:215): every row of the answer can be made a
\* DependencyEdge, whose validator refuses a node that depends on itself.
ReadAnswers == \A i \in DOMAIN Dependencies : Dependencies[i].source # Dependencies[i].target
=============================================================================
