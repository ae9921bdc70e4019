--------------------------- MODULE NetworkHistory ---------------------------
(***************************************************************************)
(* The network over time: graphs bounded by a time (`as_of' in             *)
(* backend/nettrace/topology), versioned snapshots and the changes between *)
(* them (backend/archaeology), and the digital twin assembled from both    *)
(* and from dependencies estimated anew                                    *)
(* (backend/digital_twin/{twin,sync}.py).                                  *)
(*                                                                         *)
(* The files are those of one capture, each replaced whole: packets.jsonl  *)
(* holds the first `written' packets of the recording, flows.jsonl was     *)
(* reconstructed from the first `derived' of them.  A producer writes,     *)
(* reconstructs and takes snapshots; the worker of the twin reads the same *)
(* files meanwhile, one after the other.  The process may be killed        *)
(* between two files: what is on disk stays.                               *)
(*                                                                         *)
(* Fingerprints are carried through unchanged and left out; the worker's   *)
(* queue is TwinSyncDaemon's.                                              *)
(***************************************************************************)
EXTENDS FlowReconstruction, TLC

CONSTANTS Recording,    \* the packets of the capture, in time order
          Waves,        \* bound: how many of them may be on disk at a time
          CaptureTimes, \* values of captured_at
          MaxSnapshots  \* bound on snapshots

ASSUME RecordingAssumption ==
    \A i, j \in DOMAIN Recording : i < j => Recording[i].ts <= Recording[j].ts

VARIABLES written, derived,
          topologies, \* version -> graph
          snapshots,  \* version -> captured_at
          taking,     \* captured_at of the snapshot being made, or Nobody
          twin,       \* [version, topology, changes, before, history, dependencies]
          sync        \* the synchronization under way

archive == <<written, derived, topologies, snapshots, taking, twin, sync>>

Nobody == -1
NoTwin == [version |-> 0]
Idle == [step |-> "idle"]

HistoryInit ==
    /\ written = 0 /\ derived = 0
    /\ topologies = <<>> /\ snapshots = <<>> /\ taking = Nobody
    /\ twin = NoTwin /\ sync = Idle

-----------------------------------------------------------------------------
(* The network as of a time, from what the files hold now.                  *)

PacketsFile == SubSeq(Recording, 1, written)
FlowsFile == ReconstructFlows(SubSeq(Recording, 1, derived))

NodesAsOf(t) == DiscoverNodes(SelectSeq(PacketsFile, LAMBDA p : p.ts <= t))

FlowsAsOf(t) == SelectSeq(FlowsFile, LAMBDA f : f.first <= t)

\* Flows of addresses that are not nodes are skipped.
Resolved(flows, nodes) ==
    SelectSeq(flows, LAMBDA f : {f.src[1], f.dst[1]} \subseteq {nodes[i].ip : i \in DOMAIN nodes})

EdgesAsOf(t) == EdgesFromFlows(Resolved(FlowsAsOf(t), NodesAsOf(t)), NodesAsOf(t))

GraphAsOf(t) == [nodes |-> NodesAsOf(t), edges |-> EdgesAsOf(t)]

-----------------------------------------------------------------------------
(* The producer.                                                            *)

WritePackets ==
    /\ taking = Nobody
    /\ \E n \in Waves : n > written /\ written' = n
    /\ UNCHANGED <<derived, topologies, snapshots, taking, twin, sync>>

Reconstruct ==
    /\ taking = Nobody
    /\ derived # written
    /\ derived' = written
    /\ UNCHANGED <<written, topologies, snapshots, taking, twin, sync>>

\* All callers take snapshots in order of time, and of a time of which
\* nothing is still to come: not on disk and not in the flows.
Settled(at) ==
    /\ derived = written
    /\ \A i \in (written + 1)..Len(Recording) : Recording[i].ts > at
    /\ \A v \in DOMAIN snapshots : snapshots[v] < at

\* The next version, whose graph is written first ...
BuildSnapshot(at) ==
    /\ taking = Nobody
    /\ Len(snapshots) < MaxSnapshots
    /\ Settled(at)
    /\ topologies' = [v \in DOMAIN topologies \cup {Len(snapshots) + 1} |->
                        IF v = Len(snapshots) + 1 THEN GraphAsOf(at) ELSE topologies[v]]
    /\ taking' = at
    /\ UNCHANGED <<written, derived, snapshots, twin, sync>>

\* ... and then the snapshot that names it.
RecordSnapshot ==
    /\ taking # Nobody
    /\ snapshots' = Append(snapshots, taking)
    /\ taking' = Nobody
    /\ UNCHANGED <<written, derived, topologies, twin, sync>>

Kill ==
    /\ taking # Nobody \/ sync # Idle
    /\ taking' = Nobody /\ sync' = Idle /\ twin' = NoTwin
    /\ UNCHANGED <<written, derived, topologies, snapshots>>

-----------------------------------------------------------------------------
(* Differences, by the ids of nodes and edges.                              *)

FlowsOf(ips, at) ==
    {i \in DOMAIN FlowsAsOf(at) : ips = {FlowsAsOf(at)[i].src[1], FlowsAsOf(at)[i].dst[1]}}

Ends(g, e) == {g.nodes[g.edges[e].source].ip, g.nodes[g.edges[e].target].ip}

\* What an event says of an edge.
Told(g, e) ==
    [source |-> g.edges[e].source, target |-> g.edges[e].target,
     confidence |-> g.edges[e].confidence, protocols |-> g.edges[e].protocols]

Diff(from, to, at) ==
    [at |-> at,
     nodesAdded |-> [i \in DOMAIN to.nodes \ DOMAIN from.nodes |-> to.nodes[i].ip],
     nodesRemoved |-> DOMAIN from.nodes \ DOMAIN to.nodes,
     edgesAdded |-> [e \in DOMAIN to.edges \ DOMAIN from.edges |->
                        [told |-> Told(to, e), flows |-> FlowsOf(Ends(to, e), at)]],
     edgesRemoved |-> DOMAIN from.edges \ DOMAIN to.edges,
     confidences |-> [e \in {k \in DOMAIN to.edges \cap DOMAIN from.edges :
                                to.edges[k].confidence # from.edges[k].confidence} |->
                        to.edges[e].confidence],
     protocols |-> [e \in {k \in DOMAIN to.edges \cap DOMAIN from.edges :
                                to.edges[k].protocols # from.edges[k].protocols} |->
                        to.edges[e].protocols]]

\* The events of each pair of successive snapshots.
Timeline ==
    [v \in 1..(Len(snapshots) - 1) |->
        Diff(topologies[v], topologies[v + 1], snapshots[v + 1])]

\* How the topology explorer marks a graph against the one before it: nodes by
\* their address, edges by the addresses of their ends (frontend/src/diff.ts).
BuildView(graph, before) ==
    LET Ips(g) == {g.nodes[i].ip : i \in DOMAIN g.nodes}
        Edge(g, pair) == g.edges[CHOOSE e \in DOMAIN g.edges : Ends(g, e) = pair]
        Pairs(g) == {Ends(g, e) : e \in DOMAIN g.edges}
    IN  [nodesAdded |-> Ips(graph) \ Ips(before), nodesRemoved |-> Ips(before) \ Ips(graph),
         edgesAdded |-> Pairs(graph) \ Pairs(before), edgesRemoved |-> Pairs(before) \ Pairs(graph),
         edgesChanged |-> {p \in Pairs(graph) \cap Pairs(before) :
                              Edge(graph, p).confidence # Edge(before, p).confidence}]

-----------------------------------------------------------------------------
(* The twin.  A synchronization reads the snapshots first, then what the    *)
(* dependencies are computed from, file by file.                            *)

\* Mistaken form of KnownBy: the events of its own time are left out.
KnownBefore(events, at) == SelectSeq(events, LAMBDA d : d.at < at)

KnownBy(events, at) == SelectSeq(events, LAMBDA d : d.at <= at)

BeginSync(v) ==
    /\ sync = Idle
    /\ v > twin.version
    /\ sync' = [step |-> "edges", version |-> v,
                topology |-> topologies[v],
                before |-> IF twin = NoTwin THEN topologies[v] ELSE twin.topology,
                changes |-> Diff(IF twin = NoTwin THEN topologies[v] ELSE twin.topology,
                                 topologies[v], snapshots[v]),
                history |-> KnownBy(Timeline, snapshots[v])]
    /\ UNCHANGED <<written, derived, topologies, snapshots, taking, twin>>

ReadEdges ==
    /\ sync.step = "edges"
    /\ sync' = [sync EXCEPT !.step = "relationships"]
               @@ [nodes |-> NodesAsOf(snapshots[sync.version]),
                   edges |-> EdgesAsOf(snapshots[sync.version])]
    /\ UNCHANGED <<written, derived, topologies, snapshots, taking, twin>>

Relationships(at) == [k \in DOMAIN EdgesAsOf(at) |-> Relationship(EdgesAsOf(at)[k])]

ReadRelationships ==
    /\ sync.step = "relationships"
    /\ sync' = [sync EXCEPT !.step = "flows"]
               @@ [relationships |-> Relationships(snapshots[sync.version])]
    /\ UNCHANGED <<written, derived, topologies, snapshots, taking, twin>>

\* Edges and relationships are matched by position, and each edge with the
\* flows of its nodes now; without any the synchronization fails.
FinishSync ==
    /\ sync.step = "flows"
    /\ LET at == snapshots[sync.version]
           flows == FlowsAsOf(at)
           Ip(node) == sync.nodes[node].ip
           Bucket(e) == FlowsOf({Ip(e.source), Ip(e.target)}, at)
           matched == 1..Min({Len(sync.edges), Len(sync.relationships)})
       IN  twin' = IF \E k \in matched : Bucket(sync.edges[k]) = {} THEN twin
                   ELSE [version |-> sync.version, topology |-> sync.topology,
                         before |-> sync.before, changes |-> sync.changes,
                         history |-> sync.history,
                         dependencies |->
                            [k \in matched |->
                                [source |-> sync.edges[k].source, target |-> sync.edges[k].target,
                                 relationship |-> sync.relationships[k],
                                 ratios |-> MapThenSumSet(LAMBDA i : flows[i].ratio,
                                                          Bucket(sync.edges[k]))]]]
    /\ sync' = Idle
    /\ UNCHANGED <<written, derived, topologies, snapshots, taking>>

-----------------------------------------------------------------------------
(* Properties.                                                              *)

NodesAfter(nodes, d) ==
    [i \in (DOMAIN nodes \ d.nodesRemoved) \cup DOMAIN d.nodesAdded |->
        IF i \in DOMAIN d.nodesAdded THEN d.nodesAdded[i] ELSE nodes[i]]

EdgesAfter(edges, d) ==
    [e \in (DOMAIN edges \ d.edgesRemoved) \cup DOMAIN d.edgesAdded |->
        IF e \in DOMAIN d.edgesAdded THEN d.edgesAdded[e].told
        ELSE [edges[e] EXCEPT
                !.confidence = IF e \in DOMAIN d.confidences THEN d.confidences[e] ELSE @,
                !.protocols = IF e \in DOMAIN d.protocols THEN d.protocols[e] ELSE @]]

NodesOf(g) == [i \in DOMAIN g.nodes |-> g.nodes[i].ip]
ToldOf(g) == [e \in DOMAIN g.edges |-> Told(g, e)]

Reaches(from, ds, to) ==
    /\ FoldLeft(NodesAfter, NodesOf(from), ds) = NodesOf(to)
    /\ FoldLeft(EdgesAfter, ToldOf(from), ds) = ToldOf(to)

\* Ids stand for the same addresses in every later snapshot ("its relative
\* order (and therefore its id) is preserved exactly at any later `as_of`"), so
\* that the twin's history, replayed from the first snapshot, and the changes
\* of the last synchronization, applied to the twin before it, both give the
\* twin's own topology; nothing is ever removed, and an added edge names the
\* flows that show it.
HistoryReplays ==
    twin # NoTwin =>
        /\ Reaches(topologies[1], twin.history, twin.topology)
        /\ Reaches(twin.before, <<twin.changes>>, twin.topology)
        /\ \A i \in DOMAIN twin.history :
              LET d == twin.history[i]
              IN  /\ d.nodesRemoved = {} /\ d.edgesRemoved = {}
                  /\ \A e \in DOMAIN d.edgesAdded :
                        d.edgesAdded[e].flows = topologies[i + 1].edges[e].evidence

\* Although its dependencies are read from files that have moved on, and
\* matched by position, they are those of the twin's own edges: the same pairs
\* in the same order, each with the number of flows of its edge.
TwinIsCoherent ==
    twin # NoTwin =>
        /\ Len(twin.dependencies) = Len(twin.topology.edges)
        /\ \A k \in DOMAIN twin.dependencies :
              LET edge == twin.topology.edges[k]
                  dependency == twin.dependencies[k]
              IN  /\ dependency.source = edge.source /\ dependency.target = edge.target
                  /\ dependency.relationship.count = Cardinality(edge.evidence)
\* The explorer counts what changed by addresses beside the recorded events,
\* which go by ids: the two tell of the same nodes and pairs.
ViewMatchesEvents ==
    \A v \in DOMAIN Timeline :
        LET from == topologies[v]
            to == topologies[v + 1]
            d == Timeline[v]
            Ips(g, nodes) == {g.nodes[i].ip : i \in nodes}
            Pairs(g, edges) == {Ends(g, e) : e \in edges}
        IN  BuildView(to, from) =
               [nodesAdded |-> Range(d.nodesAdded), nodesRemoved |-> Ips(from, d.nodesRemoved),
                edgesAdded |-> Pairs(to, DOMAIN d.edgesAdded),
                edgesRemoved |-> Pairs(from, d.edgesRemoved),
                edgesChanged |-> Pairs(to, DOMAIN d.confidences)]
=============================================================================
