------------------------- MODULE FlowReconstruction -------------------------
(***************************************************************************)
(* From packets to flows, nodes, edges and dependencies, as the batch path *)
(* computes them from a whole capture: backend/nettrace/reconstruct.py,    *)
(* backend/nettrace/topology/{discovery,edges}.py and                      *)
(* backend/dependency/{communication,strength}.py.                         *)
(*                                                                         *)
(* A packet is [no, ts, src, dst, proto, flag]: endpoints are              *)
(* <<address, port>>, `flag' is the first of RST, SYN, FIN, ACK it carries *)
(* (the order in which _compute_tcp_state looks at them).  All packets     *)
(* have the same size, so a share of bytes is a share of packets, counted  *)
(* in 60ths.  Scores are kept as the values their formulas are applied to; *)
(* the formulas themselves are shared by the batch and streaming paths.    *)
(* `as_of' and TLS versions are left out: the streaming path has neither.  *)
(***************************************************************************)
EXTENDS Integers, Sequences, SequencesExt, FiniteSets, FiniteSetsExt

CONSTANTS UdpIdle,    \* udp_session_idle_timeout_seconds
          WellKnown   \* pairs <<protocol, port>> of the fingerprint table

ASSUME IdleAssumption == UdpIdle \in Nat

-----------------------------------------------------------------------------
(* Sorted lists: bisect.insort, and Python's stable sort built from it.     *)

Insort(s, x, Key(_)) ==
    InsertAt(s, 1 + Cardinality({i \in DOMAIN s : Key(s[i]) <= Key(x)}), x)

SortedBy(s, Key(_)) == FoldLeft(LAMBDA out, x : Insort(out, x, Key), <<>>, s)

Stamp(p) == p.ts
Itself(x) == x

\* Lexicographic order of triples of numbers.
Before(a, b) ==
    \/ a[1] < b[1]
    \/ a[1] = b[1] /\ a[2] < b[2]
    \/ a[1] = b[1] /\ a[2] = b[2] /\ a[3] < b[3]

-----------------------------------------------------------------------------
(* Flow units: a TCP five-tuple, or one session of a UDP five-tuple.        *)
(* A unit is the sequence of its packets in time order.                     *)

IsFlowPacket(p) == p.proto \in {"TCP", "UDP"}
FlowKey(p) == <<{p.src, p.dst}, p.proto>>

SplitUdpSessions(group) ==
    FoldLeft(LAMBDA out, p :
                IF out = <<>> \/ p.ts - Last(Last(out)).ts > UdpIdle
                THEN Append(out, <<p>>)
                ELSE [out EXCEPT ![Len(out)] = Append(@, p)],
             <<>>, SortedBy(group, Stamp))

\* Mistaken form of DeriveUnits: TCP packets are taken as they arrived.
DeriveUnitsUnsorted(group) ==
    IF group[1].proto = "UDP" THEN SplitUdpSessions(group) ELSE <<group>>

DeriveUnits(group) ==
    IF group[1].proto = "UDP"
    THEN SplitUdpSessions(group)
    ELSE <<SortedBy(group, Stamp)>>

FirstSeen(u) == u[1].ts
LastSeen(u) == Last(u).ts
Forward(u, p) == p.src = u[1].src /\ p.dst = u[1].dst
ForwardRatio(u) ==
    (60 * Cardinality({i \in DOMAIN u : Forward(u, u[i])})) \div Len(u)
Bidirectionality(ratio) == 2 * Min({ratio, 60 - ratio})

Flagged(u, flag) == {i \in DOMAIN u : u[i].flag = flag}

TcpState(u) ==
    LET handshake == \E i \in Flagged(u, "SYN"), j \in Flagged(u, "ACK") :
                        i < j /\ \A k \in Flagged(u, "FIN") : j < k
        closing == {Forward(u, u[k]) : k \in Flagged(u, "FIN")}
    IN  CASE u[1].proto # "TCP" -> "none"
          [] u[1].proto = "TCP" /\ Flagged(u, "RST") # {} -> "reset"
          [] u[1].proto = "TCP" /\ Flagged(u, "RST") = {} /\ ~handshake -> "partial"
          [] OTHER -> CASE Cardinality(closing) = 0 -> "established"
                        [] Cardinality(closing) = 1 -> "closing"
                        [] Cardinality(closing) = 2 -> "closed"

Fingerprinted(u) ==
    \E port \in {u[1].src[2], u[1].dst[2]} : <<u[1].proto, port>> \in WellKnown

-----------------------------------------------------------------------------
(* Flows: numbered by the time of their first packet; ties stay in the      *)
(* order the units are given in.                                            *)

AssembleFlows(us) ==
    LET ordered == SortedBy(us, FirstSeen)
        head == [i \in DOMAIN ordered |-> ordered[i][1]]
        SameSource(i) == {j \in DOMAIN head : head[j].src[1] = head[i].src[1]}
        Sessions(i) == {j \in DOMAIN head : FlowKey(head[j]) = FlowKey(head[i])}
    IN  [i \in DOMAIN ordered |->
            [src |-> head[i].src, dst |-> head[i].dst, proto |-> head[i].proto,
             first |-> FirstSeen(ordered[i]), last |-> LastSeen(ordered[i]),
             state |-> TcpState(ordered[i]),
             fingerprinted |-> Fingerprinted(ordered[i]),
             packets |-> Len(ordered[i]), ratio |-> ForwardRatio(ordered[i]),
             destinations |-> Cardinality({head[j].dst[1] : j \in SameSource(i)}),
             ports |-> Cardinality({head[j].dst[2] : j \in SameSource(i)}),
             persistent |-> Cardinality(Sessions(i)) > 1]]

\* The keys of a dictionary of groups, in order of insertion.
WithKeysOf(keys, packets) ==
    FoldLeft(LAMBDA out, p :
                IF IsFlowPacket(p) /\ ~Contains(out, FlowKey(p))
                THEN Append(out, FlowKey(p)) ELSE out,
             keys, packets)

PacketsOf(packets, key) ==
    SelectSeq(packets, LAMBDA p : IsFlowPacket(p) /\ FlowKey(p) = key)

ReconstructFlows(packets) ==
    LET keys == WithKeysOf(<<>>, packets)
    IN  AssembleFlows(FlattenSeq(
            [i \in DOMAIN keys |-> DeriveUnits(PacketsOf(packets, keys[i]))]))

-----------------------------------------------------------------------------
(* Nodes: one per address, numbered by (first observed, address).           *)

Address(p) == {p.src[1], p.dst[1]}
Observations(packets, ip) == {p.ts : p \in {q \in Range(packets) : ip \in Address(q)}}

NodesFromObservations(firstOf, lastOf) ==
    LET ips == SetToSortSeq(DOMAIN firstOf,
                   LAMBDA a, b : Before(<<firstOf[a], a, 0>>, <<firstOf[b], b, 0>>))
    IN  [i \in DOMAIN ips |->
            [ip |-> ips[i], first |-> firstOf[ips[i]], last |-> lastOf[ips[i]]]]

DiscoverNodes(packets) ==
    LET ips == UNION {Address(p) : p \in Range(packets)}
    IN  NodesFromObservations([ip \in ips |-> Min(Observations(packets, ip))],
                              [ip \in ips |-> Max(Observations(packets, ip))])

\* Node ids are compared as text by the code; up to ten nodes that is the
\* order of their numbers.
NodeId(nodes, ip) == CHOOSE i \in DOMAIN nodes : nodes[i].ip = ip

-----------------------------------------------------------------------------
(* Edges: one per pair of different nodes with a flow between them.         *)

Pair(nodes, f) == {NodeId(nodes, f.src[1]), NodeId(nodes, f.dst[1])}

BucketFlows(flows, nodes) ==
    [pair \in {Pair(nodes, f) : f \in {g \in Range(flows) : g.src[1] # g.dst[1]}} |->
        {i \in DOMAIN flows : Pair(nodes, flows[i]) = pair}]

\* What confidence_from_stats is applied to, for the flows of one bucket.
Confidence(bucket) ==
    [packets |-> MapThenSumSet(LAMBDA i : bucket[i].packets, DOMAIN bucket),
     established |-> \E i \in DOMAIN bucket : bucket[i].state = "established",
     fingerprinted |-> \E i \in DOMAIN bucket : bucket[i].fingerprinted,
     persistent |-> \E i \in DOMAIN bucket : bucket[i].persistent,
     bidirectional |-> Max({Bidirectionality(bucket[i].ratio) : i \in DOMAIN bucket})]

EdgesFromFlows(flows, nodes) ==
    LET buckets == BucketFlows(flows, nodes)
        Edge(pair) ==
            [source |-> Min(pair), target |-> Max(pair),
             confidence |-> Confidence([i \in buckets[pair] |-> flows[i]]),
             evidence |-> buckets[pair],
             first |-> Min({flows[i].first : i \in buckets[pair]}),
             last |-> Max({flows[i].last : i \in buckets[pair]}),
             protocols |-> {flows[i].proto : i \in buckets[pair]}]
    IN  SetToSortSeq({Edge(pair) : pair \in DOMAIN buckets},
            LAMBDA a, b : Before(<<a.first, a.source, a.target>>,
                                 <<b.first, b.source, b.target>>))

BuildGraph(flows, nodes) ==
    [flows |-> flows, nodes |-> nodes, edges |-> EdgesFromFlows(flows, nodes)]

BatchGraph(packets) == BuildGraph(ReconstructFlows(packets), DiscoverNodes(packets))

\* A graph without the numbers given to flows, nodes and edges.
OrderFree(g) ==
    [nodes |-> Range(g.nodes),
     edges |-> {[ends |-> {g.nodes[e.source].ip, g.nodes[e.target].ip},
                 confidence |-> e.confidence, count |-> Cardinality(e.evidence),
                 first |-> e.first, last |-> e.last, protocols |-> e.protocols]
                    : e \in Range(g.edges)}]

-----------------------------------------------------------------------------
(* Dependencies: one per edge, with what its strength is computed from.     *)

\* The times a node is active: first_seen of every flow that touches it.
FlowTimes(flows, ip) ==
    LET touching == SelectSeq(flows, LAMBDA f : ip \in {f.src[1], f.dst[1]})
    IN  SortedBy([i \in DOMAIN touching |-> touching[i].first], Itself)

\* Frequency is count / persistence, or the count when persistence is zero.
Relationship(e) == [count |-> Cardinality(e.evidence), persistence |-> e.last - e.first]

EstimateDependencyStrength(packets) ==
    LET g == BatchGraph(packets)
        Ip(node) == g.nodes[node].ip
    IN  [k \in DOMAIN g.edges |->
            LET e == g.edges[k]
            IN  [source |-> e.source, target |-> e.target,
                 strength |->
                    [relationship |-> Relationship(e),
                     ratios |-> MapThenSumSet(LAMBDA i : g.flows[i].ratio, e.evidence),
                     confidence |-> e.confidence,
                     temporal |-> <<FlowTimes(g.flows, Ip(e.source)),
                                    FlowTimes(g.flows, Ip(e.target))>>]]]
=============================================================================
