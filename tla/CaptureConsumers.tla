-------------------------- MODULE CaptureConsumers --------------------------
(***************************************************************************)
(* What is made of the packets of a capture: by the three clients of the   *)
(* incremental topology, each on a topology of its own (the dependency     *)
(* estimator, the anomaly detector, the multi-collector pipeline), and by  *)
(* the archive of snapshots with its twin and the requests of the API,     *)
(* from the files of the batch path, by the exporter whose records are     *)
(* ingested in place of the packets, and by the pages that show all this.  *)
(* They share no state, so a behaviour follows one of them, chosen at the  *)
(* start.                                                                  *)
(*                                                                         *)
(* The source hands a streaming client the packets of its wire, each at    *)
(* most once (once per collector), in any order and in chunks of up to     *)
(* MaxChunk[client]; a reader may ask between any two chunks.              *)
(***************************************************************************)
EXTENDS StreamingDependency, StreamingAnomaly, MultiCollector, NetworkHistory,
        CaptureRequests, FlowExport, CapturePages

CONSTANTS Wire,        \* client -> the packets of its capture
          MaxChunk,    \* bound: client -> packets handed over at once
          MaxArrived   \* bound: client -> packets handed over in a behaviour

ASSUME WireAssumption ==
    \A client \in DOMAIN Wire :
        /\ \A p, q \in Wire[client] : p.no = q.no => p = q
        /\ MaxChunk[client] \in Nat \ {0} /\ MaxArrived[client] \in Nat

VARIABLE client

vars == <<client, topology, arrived, estimator, detector, pipeline, archive, service, export,
          page>>

Init ==
    /\ client \in DOMAIN Wire \cup {"archive", "requests", "export", "browser"}
    /\ TopologyInit
    /\ EstimatorInit
    /\ DetectorInit
    /\ PipelineInit
    /\ HistoryInit
    /\ ServiceInit
    /\ IF client = "export" THEN ExportInit(Exported) ELSE export = NoExport
    /\ IF client = "browser" THEN PagesInit ELSE page = NoPage
    /\ captured # "pcap" => client = "requests"
    /\ clocks # Exact => client = "collectors"

\* What may be handed over when `before' has been, of `so' packets in all.
Chunks(before, so) ==
    {c \in UNION {[1..n -> Wire[client] \ Range(before)] :
                     n \in 1..Min({MaxChunk[client], MaxArrived[client] - so})} :
        IsInjective(c)}

Receive ==
    /\ client = "dependencies"
    /\ \E chunk \in Chunks(arrived, Len(arrived)) : Ingest(chunk)
    /\ UNCHANGED <<client, detector, pipeline, archive, service, export, page>>

Ask ==
    /\ client = "dependencies"
    /\ Read
    /\ UNCHANGED <<client, detector, pipeline, archive, service, export, page>>

Watch ==
    /\ client = "anomalies"
    /\ \E chunk \in Chunks(arrived, Len(arrived)) : Detect(chunk)
    /\ UNCHANGED <<client, estimator, pipeline, archive, service, export, page>>

End ==
    /\ client = "anomalies"
    /\ Flush
    /\ UNCHANGED <<client, estimator, pipeline, archive, service, export, page>>

Collect ==
    /\ client = "collectors"
    /\ \E c \in Collectors :
          \E chunk \in Chunks(sighted[c],
                              MapThenSumSet(LAMBDA d : Len(sighted[d]), Collectors)) :
              Sight(c, chunk)
    /\ UNCHANGED <<client, estimator, detector, archive, service, export, page>>

Archive ==
    /\ client = "archive"
    /\ \/ WritePackets \/ Reconstruct
       \/ \E at \in CaptureTimes : BuildSnapshot(at)
       \/ RecordSnapshot \/ Kill
       \/ \E v \in DOMAIN snapshots : BeginSync(v)
       \/ ReadEdges \/ ReadRelationships \/ FinishSync
    /\ UNCHANGED <<client, topology, arrived, estimator, detector, pipeline, service, export, page>>

Serve ==
    /\ client = "requests"
    /\ ServiceNext
    /\ UNCHANGED <<client, topology, arrived, estimator, detector, pipeline, archive, export, page>>

Export ==
    /\ client = "export"
    /\ ExportNext
    /\ UNCHANGED <<client, topology, arrived, estimator, detector, pipeline, archive, service, page>>

Browse ==
    /\ client = "browser"
    /\ PagesNext
    /\ UNCHANGED <<client, topology, arrived, estimator, detector, pipeline, archive, service, export>>

Next ==
    Receive \/ Ask \/ Watch \/ End \/ Collect \/ Archive \/ Serve \/ Export \/ Browse

Spec == Init /\ [][Next]_vars

-----------------------------------------------------------------------------
(* What each streaming client promises of the packets it was given.         *)

\* The estimator: after any chunks in any order its topology is the one of a
\* batch run over all packets (TopologyIsBatch), every answer, from the cache or
\* not, is that of a batch run (AnswersAreBatch), from statistics that are those
\* of a fresh start however flows were retracted and added (StatisticsExact).
ReadIsBatch ==
    client = "dependencies" => TopologyIsBatch /\ AnswersAreBatch /\ StatisticsExact

\* The detector: early and closing alerts of a window are the anomalies of a
\* batch run over it, none is early in vain (VerdictsAreBatch), and "every
\* (node, dimension) alerts at most once per window" (OncePerWindow).
AlertsAreVerdicts == client = "anomalies" => VerdictsAreBatch /\ OncePerWindow

\* The pipeline: what several collectors saw counts once (EachPacketOnce), and
\* the fused graph is that of one capture of everything they saw (OneCapture).
EvidenceIsPooled == client = "collectors" => EachPacketOnce /\ OneCapture

\* The archive: the twin's history leads to its topology (HistoryReplays), its
\* dependencies are those of its edges (TwinIsCoherent), and the explorer marks
\* between two snapshots what the timeline records (ViewMatchesEvents).
ArchiveIsCoherent ==
    client = "archive" => HistoryReplays /\ TwinIsCoherent /\ ViewMatchesEvents
=============================================================================
