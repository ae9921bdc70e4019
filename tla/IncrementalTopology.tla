------------------------ MODULE IncrementalTopology ------------------------
(***************************************************************************)
(* backend/nettrace/topology/incremental.py: the topology kept up to date  *)
(* as packets arrive.  Only the flow keys a chunk touches are derived      *)
(* again.  An instance of the class is a record:                           *)
(*   keys       flow keys, in the order their first packet arrived         *)
(*   groups     key -> its packets, in order of arrival                    *)
(*   units      key -> its flow units                                      *)
(*   firstSeen  address -> earliest time stamp                             *)
(*   lastSeen   address -> latest time stamp                               *)
(*   received   packet_count                                               *)
(* Its clients (StreamingDependency, StreamingAnomaly, MultiCollector)     *)
(* keep one in `topology'; `arrived' is the history of what it was given.  *)
(***************************************************************************)
EXTENDS FlowReconstruction

VARIABLES topology, arrived

NoTopology ==
    [keys |-> <<>>, groups |-> <<>>, units |-> <<>>,
     firstSeen |-> <<>>, lastSeen |-> <<>>, received |-> 0]

Touched(chunk) == {FlowKey(p) : p \in {q \in Range(chunk) : IsFlowPacket(q)}}

At(f, x, default) == IF x \in DOMAIN f THEN f[x] ELSE default

GroupAfter(t, key, chunk) == At(t.groups, key, <<>>) \o PacketsOf(chunk, key)

\* Mistaken form of UnitsAfter: only the new packets are derived.
UnitsAfterNewOnly(t, key, chunk) ==
    At(t.units, key, <<>>) \o DeriveUnits(PacketsOf(chunk, key))

UnitsAfter(t, key, chunk) == DeriveUnits(GroupAfter(t, key, chunk))

Addresses(chunk) == UNION {Address(p) : p \in Range(chunk)}
Seen(times, ip) == IF ip \in DOMAIN times THEN {times[ip]} ELSE {}

FirstAfter(t, chunk) ==
    [ip \in DOMAIN t.firstSeen \cup Addresses(chunk) |->
        Min(Seen(t.firstSeen, ip) \cup Observations(chunk, ip))]

LastAfter(t, chunk) ==
    [ip \in DOMAIN t.lastSeen \cup Addresses(chunk) |->
        Max(Seen(t.lastSeen, ip) \cup Observations(chunk, ip))]

\* The instance after ingest(chunk).
Ingested(t, chunk) ==
    [keys |-> WithKeysOf(t.keys, chunk),
     groups |-> [k \in DOMAIN t.groups \cup Touched(chunk) |-> GroupAfter(t, k, chunk)],
     units |-> [k \in DOMAIN t.units \cup Touched(chunk) |->
                   IF k \in Touched(chunk) THEN UnitsAfter(t, k, chunk) ELSE t.units[k]],
     firstSeen |-> FirstAfter(t, chunk),
     lastSeen |-> LastAfter(t, chunk),
     received |-> t.received + Len(chunk)]

TopologyInit == topology = NoTopology /\ arrived = <<>>

IngestTopology(chunk) ==
    /\ topology' = Ingested(topology, chunk)
    /\ arrived' = arrived \o chunk

-----------------------------------------------------------------------------
(* What a reader is given.                                                  *)

Nodes(t) == NodesFromObservations(t.firstSeen, t.lastSeen)
Flows(t) == AssembleFlows(FlattenSeq([i \in DOMAIN t.keys |-> t.units[t.keys[i]]]))
GraphOf(t) == BuildGraph(Flows(t), Nodes(t))

-----------------------------------------------------------------------------
(* Property.                                                                *)

\* After any chunks in any order, the graph is the one the batch path builds
\* from all packets received, numbering included ("the incremental graph
\* matched the batch rebuild exactly on every prefix"); and apart from the
\* numbers of flows, nodes and edges, it does not depend on the order in which
\* packets of different times arrived.
TopologyIsBatch ==
    /\ GraphOf(topology) = BatchGraph(arrived)
    /\ OrderFree(GraphOf(topology)) = OrderFree(BatchGraph(SortedBy(arrived, Stamp)))
=============================================================================
