--------------------------- MODULE MultiCollector ---------------------------
(***************************************************************************)
(* backend/nettrace/collectors/multi.py: several collectors feed one       *)
(* reconstruction.  The same packet seen by two of them counts once; the   *)
(* rest goes into one topology; an optional quorum drops an edge that only *)
(* one collector shows while others saw both of its ends.                  *)
(*                                                                         *)
(* `topology' is the fused one.  Each collector hands over packets of the  *)
(* wire, each at most once, stamped by its own clock: `clocks' is how far  *)
(* each one is ahead.  Confidences are the values their formula is applied *)
(* to, so the two kinds "agree" and "confidence", which differ by the size *)
(* of a gap between confidences, are one kind here.                        *)
(***************************************************************************)
EXTENDS IncrementalTopology

CONSTANTS Collectors,
          Tolerance,  \* dedupe_tolerance_s
          MinAbsent,  \* quorum_min_absent
          Clocks      \* the clocks a deployment may have: offsets by collector

Exact == [c \in Collectors |-> 0]

ASSUME ToleranceAssumption ==
    Tolerance \in Nat /\ MinAbsent \in Nat \ {0} /\ Exact \in Clocks

VARIABLES local,   \* collector -> its own topology
          seen,    \* identity -> entries [ts, collectors], in order of arrival
          clocks,
          sighted  \* history: collector -> packets of the wire it handed over

pipeline == <<local, seen, clocks, sighted>>

PipelineInit ==
    /\ local = [c \in {} |-> NoTopology]
    /\ seen = <<>>
    /\ clocks \in Clocks
    /\ sighted = [c \in Collectors |-> <<>>]

-----------------------------------------------------------------------------
(* De-duplication.                                                          *)

\* Mistaken form of Identity: without the destination.
IdentityOfSource(p) == <<p.src, p.proto, p.flag>>

Identity(p) == <<p.src, p.dst, p.proto, p.flag>>

Gap(a, b) == IF a > b THEN a - b ELSE b - a

\* Mistaken form of Candidates: a collector's own packet may be claimed again.
CandidatesOfAll(entries, c, ts) == {i \in DOMAIN entries : Gap(entries[i].ts, ts) <= Tolerance}

\* The entries another collector's sighting may be the same packet as.
Candidates(entries, c, ts) ==
    {i \in DOMAIN entries : c \notin entries[i].collectors /\ Gap(entries[i].ts, ts) <= Tolerance}

\* The nearest, and the first to arrive of those equally near.
Nearest(entries, near, ts) ==
    CHOOSE i \in near : \A j \in near :
        \/ Gap(entries[i].ts, ts) < Gap(entries[j].ts, ts)
        \/ Gap(entries[i].ts, ts) = Gap(entries[j].ts, ts) /\ i <= j

\* One packet of collector c, over s = [seen, accepted].
Sort(s, c, p) ==
    LET entries == At(s.seen, Identity(p), <<>>)
        near == Candidates(entries, c, p.ts)
        With(es) == [k \in DOMAIN s.seen \cup {Identity(p)} |->
                        IF k = Identity(p) THEN es ELSE s.seen[k]]
    IN  IF near # {}
        THEN [s EXCEPT !.seen = With([entries EXCEPT
                                        ![Nearest(entries, near, p.ts)].collectors = @ \cup {c}])]
        ELSE [seen |-> With(Append(entries, [ts |-> p.ts, collectors |-> {c}])),
              accepted |-> Append(s.accepted, p)]

Stamped(c, chunk) == [i \in DOMAIN chunk |-> [chunk[i] EXCEPT !.ts = @ + clocks[c]]]

Sight(c, chunk) ==
    LET packets == Stamped(c, chunk)
        sorted == FoldLeft(LAMBDA s, p : Sort(s, c, p),
                           [seen |-> seen, accepted |-> <<>>], packets)
    IN  /\ local' = [d \in DOMAIN local \cup {c} |->
                        IF d = c THEN Ingested(At(local, c, NoTopology), packets) ELSE local[d]]
        /\ seen' = sorted.seen
        /\ IngestTopology(sorted.accepted)
        /\ sighted' = [sighted EXCEPT ![c] = @ \o chunk]
        /\ UNCHANGED clocks

-----------------------------------------------------------------------------
(* Results.                                                                 *)

EndsOf(g, e) == {g.nodes[e.source].ip, g.nodes[e.target].ip}
EdgesOf(g) == {EndsOf(g, e) : e \in Range(g.edges)}
AddressesOf(g) == {g.nodes[i].ip : i \in DOMAIN g.nodes}

CollectorGraph(c) == GraphOf(local[c])

\* What each collector's own graph shows.
Views ==
    [c \in DOMAIN local |-> [pairs |-> EdgesOf(CollectorGraph(c)),
                             addresses |-> AddressesOf(CollectorGraph(c))]]

\* Who has the edge, who saw both of its ends without it, and who did not.
Evidence(views, pair) ==
    [pair |-> pair,
     supporting |-> {c \in DOMAIN views : pair \in views[c].pairs},
     absent |-> {c \in DOMAIN views : pair \notin views[c].pairs
                                       /\ pair \subseteq views[c].addresses},
     blind |-> {c \in DOMAIN views : ~(pair \subseteq views[c].addresses)}]

Kind(e) ==
    CASE e.supporting # {} /\ e.absent # {} -> "existence"
      [] Cardinality(e.supporting) = 1 /\ e.absent = {} /\ Cardinality(DOMAIN local) > 1
            -> "single_source"
      [] OTHER -> "agree or confidence"

Contested(e) ==
    /\ Kind(e) = "existence"
    /\ Cardinality(e.supporting) = 1
    /\ Cardinality(e.absent) >= MinAbsent

\* The evidence of each fused edge.
Resolutions ==
    {Evidence(views, pair) : views \in {Views}, pair \in EdgesOf(GraphOf(topology))}

\* The edges of graph().
FusedEdges(quorum) ==
    {r.pair : r \in {q \in Resolutions : ~(quorum /\ Contested(q))}}

-----------------------------------------------------------------------------
(* Properties.                                                              *)

Count(packets, k) == Cardinality({i \in DOMAIN packets : Identity(packets[i]) = k})
AllSighted == UNION {Range(sighted[c]) : c \in Collectors}

ClocksAgree == \A c, d \in Collectors : Gap(clocks[c], clocks[d]) <= Tolerance

\* Packets of one identity are further apart than two clocks can confuse.
Separated ==
    \A p, q \in AllSighted :
        p # q /\ Identity(p) = Identity(q) => Gap(p.ts, q.ts) > 2 * Tolerance

\* Whatever the clocks and the order of arrival, a collector's own repeats are
\* never merged with each other: it has claimed as many packets of an identity
\* as it handed over, and each packet accepted is one claim.  With clocks
\* within the tolerance and repeats further apart, every packet of the wire
\* counts exactly once, whoever saw it.
EachPacketOnce ==
    \A k \in DOMAIN seen :
        /\ \A c \in Collectors :
              Count(sighted[c], k) = Cardinality({i \in DOMAIN seen[k] : c \in seen[k][i].collectors})
        /\ Count(arrived, k) = Len(seen[k])
        /\ ClocksAgree /\ Separated =>
              Len(seen[k]) = Cardinality({p \in AllSighted : Identity(p) = k})

Capture == SortedBy(SetToSeq(AllSighted), Stamp)

\* The fused edges are those of the collectors, no fewer and no more; the
\* quorum never drops one that packets of two collectors show; and with exact
\* clocks and repeats apart, the fused graph is that of a single capture of
\* everything any of them saw, however the sightings were interleaved.
OneCapture ==
    /\ EdgesOf(GraphOf(topology)) = UNION {EdgesOf(CollectorGraph(c)) : c \in DOMAIN local}
    /\ AddressesOf(GraphOf(topology)) = UNION {AddressesOf(CollectorGraph(c)) : c \in DOMAIN local}
    /\ \A c, d \in Collectors : \A p \in Range(sighted[c]), q \in Range(sighted[d]) :
          /\ c # d /\ IsFlowPacket(p) /\ IsFlowPacket(q)
          /\ Address(p) = Address(q) /\ Cardinality(Address(p)) = 2
          => Address(p) \in FusedEdges(TRUE)
    /\ clocks = Exact /\ Separated =>
          OrderFree(GraphOf(topology)) = OrderFree(BatchGraph(Capture))
=============================================================================
