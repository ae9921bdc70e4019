-------------------------- MODULE StreamingAnomaly --------------------------
(***************************************************************************)
(* backend/flowmind/anomaly/streaming.py: nodes judged while their window  *)
(* is still open, with the fingerprints of flowmind/features and the       *)
(* scoring of flowmind/anomaly/node_anomaly.py.                            *)
(*                                                                         *)
(* The anchor is time 0 and windows are Window long.  A feature is a       *)
(* fraction <<numerator, denominator>>; all packets have the same size, so *)
(* bytes are counted in packets and the outbound share in 60ths.  The      *)
(* floor under a baseline's MAD is smaller than any difference of two      *)
(* values.  Scores and evidence texts are left out.                        *)
(***************************************************************************)
EXTENDS IncrementalTopology

CONSTANTS Window,       \* window_seconds
          ScoringStart, \* windows that start before it are history
          ZThreshold,   \* z_threshold
          Baselines     \* address -> [sufficient, ports, protocols, and per
                        \* continuous dimension a record [median, mad]]

ASSUME WindowAssumption == Window \in Nat \ {0} /\ ZThreshold \in Nat \ {0}

VARIABLES epoch,    \* the open window, or NoEpoch
          alerted,  \* pairs <<address, dimension>> of the open window
          alerts,   \* history: the alerts returned, in order
          flushed   \* flush was called: the stream has ended

detector == <<epoch, alerted, alerts, flushed>>

NoEpoch == -1
Continuous == {"destinations", "timing", "behavior", "traffic_volume"}

-----------------------------------------------------------------------------
(* Fingerprints.                                                            *)

Touching(flows, ip) == SelectSeq(flows, LAMBDA f : ip \in {f.src[1], f.dst[1]})

\* The flows of the trailing window that ends at the node's own latest flow.
Trailing(flows, ip) ==
    LET touching == Touching(flows, ip)
        anchor == Max({touching[i].last : i \in DOMAIN touching})
    IN  SelectSeq(touching, LAMBDA f : f.last > anchor - Window)

Total(fs, Value(_)) == MapThenSumSet(LAMBDA i : Value(fs[i]), DOMAIN fs)
Sent(f, ip) == f.packets * (IF f.src[1] = ip THEN f.ratio ELSE 60 - f.ratio)

Fingerprint(flows, ip) ==
    LET fs == Trailing(flows, ip)
        bytes == Total(fs, LAMBDA f : f.packets)
    IN  [ports |-> {f.dst[2] : f \in {g \in Range(fs) : g.dst[1] = ip}},
         protocols |-> {f.proto : f \in Range(fs)},
         destinations |->
            <<Cardinality({f.dst[1] : f \in {g \in Range(fs) : g.src[1] = ip}}), 1>>,
         timing |-> <<Total(fs, LAMBDA f : f.last - f.first), Max({1, Len(fs)})>>,
         behavior |-> <<Total(fs, LAMBDA f : Sent(f, ip)), Max({1, bytes})>>,
         traffic_volume |-> <<bytes, 1>>]

-----------------------------------------------------------------------------
(* Scoring.                                                                 *)

\* How far a value is above the median, times its denominator.
Above(base, value) == value[1] - base.median * value[2]

Deviates(base, value) ==
    LET gap == Max({Above(base, value), -Above(base, value)})
    IN  IF base.mad = 0 THEN gap > 0 ELSE gap >= ZThreshold * base.mad * value[2]

DetectNodeAnomalies(ip, fp) ==
    LET base == Baselines[ip]
    IN  IF ~base.sufficient THEN {}
        ELSE {dim \in Continuous : Deviates(base[dim], fp[dim])}
             \cup {dim \in {"ports", "protocols"} : ~(fp[dim] \subseteq base[dim])}

\* Mistaken form of Trusted: any upward deviation counts on an open window.
TrustedUpward(ip, fp, dim) ==
    dim \in {"ports", "protocols"} \/ Above(Baselines[ip][dim], fp[dim]) > 0

\* New ports and protocols, and what can only grow, growing.
Trusted(ip, fp, dim) ==
    \/ dim \in {"ports", "protocols"}
    \/ /\ dim \in {"destinations", "traffic_volume"}
       /\ Above(Baselines[ip][dim], fp[dim]) > 0

EpochOf(ts) == ts \div Window
Scored(e) == e * Window >= ScoringStart

WindowFlows(flows, e) == SelectSeq(flows, LAMBDA f : EpochOf(f.last) = e)

\* The anomalies of the nodes over one window, on partial evidence or not.
Verdicts(flows, e, nodes, partial) ==
    LET fps == [ip \in nodes |-> Fingerprint(WindowFlows(flows, e), ip)]
    IN  UNION {{<<ip, dim>> : dim \in {x \in DetectNodeAnomalies(ip, fps[ip]) :
                                          partial => Trusted(ip, fps[ip], x)}} : ip \in nodes}

-----------------------------------------------------------------------------
(* The steps of ingest, over d = [topology, alerted, alerts].               *)

Score(d, e, nodes, partial) ==
    LET raised == Verdicts(Flows(d.topology), e, nodes, partial) \ d.alerted
    IN  IF ~Scored(e) \/ raised = {} THEN d
        ELSE [d EXCEPT !.alerted = @ \cup raised,
                       !.alerts = Append(@, [epoch |-> e, partial |-> partial,
                                             raised |-> raised])]

IngestRun(d, e, run) ==
    Score([d EXCEPT !.topology = Ingested(@, run)],
          e, Addresses(run) \cap DOMAIN Baselines, TRUE)

CloseWindow(d, e) == [Score(d, e, DOMAIN Baselines, FALSE) EXCEPT !.alerted = {}]

\* A packet of a later window starts a run of its own; an earlier one joins
\* the open window's.
Cut(runs, p) ==
    LET open == Last(runs)
        e == EpochOf(p.ts)
    IN  IF open.epoch # NoEpoch /\ e > open.epoch
        THEN Append(runs, [epoch |-> e, packets |-> <<p>>])
        ELSE [runs EXCEPT ![Len(runs)] = [epoch |-> Max({open.epoch, e}),
                                          packets |-> Append(open.packets, p)]]

Runs(chunk) == FoldLeft(Cut, <<[epoch |-> epoch, packets |-> <<>>]>>, chunk)

\* A run of a later window comes after the one before it is closed.
TakeRuns(runs, before) ==
    LET TakeRun(d, i) ==
            IngestRun(IF i = 1 THEN d ELSE CloseWindow(d, runs[i - 1].epoch),
                      runs[i].epoch, runs[i].packets)
    IN  FoldLeft(TakeRun, before, [i \in DOMAIN runs |-> i])

DetectorInit == epoch = NoEpoch /\ alerted = {} /\ alerts = <<>> /\ flushed = FALSE

Now == [topology |-> topology, alerted |-> alerted, alerts |-> alerts]

Becomes(d) == alerted' = d.alerted /\ alerts' = d.alerts

Detect(chunk) ==
    /\ ~flushed
    /\ epoch' = Last(Runs(chunk)).epoch
    /\ \E after \in {TakeRuns(Runs(chunk), Now)} : topology' = after.topology /\ Becomes(after)
    /\ arrived' = arrived \o chunk
    /\ UNCHANGED flushed

\* Every caller of flush ends its stream with it.
Flush ==
    /\ ~flushed
    /\ Becomes(IF epoch = NoEpoch THEN Now ELSE CloseWindow(Now, epoch))
    /\ flushed' = TRUE
    /\ UNCHANGED <<topology, arrived, epoch>>

-----------------------------------------------------------------------------
(* Properties.                                                              *)

AlertsOf(e) == {i \in DOMAIN alerts : alerts[i].epoch = e}
RaisedFor(e) == UNION {alerts[i].raised : i \in AlertsOf(e)}

\* Packets are expected in time order.
InOrder == \A i, j \in DOMAIN arrived : i < j => arrived[i].ts <= arrived[j].ts

\* What a batch run over the packets up to the end of window e finds in it.
BatchVerdicts(e, partial) ==
    Verdicts(ReconstructFlows(SelectSeq(arrived, LAMBDA p : EpochOf(p.ts) <= e)),
             e, DOMAIN Baselines, partial)

\* Each node and dimension alerts at most once per window, late packets or
\* not, and a history window raises nothing.
OncePerWindow ==
    \A i \in DOMAIN alerts :
        /\ Scored(alerts[i].epoch)
        /\ \A j \in AlertsOf(alerts[i].epoch) : i # j => alerts[i].raised \cap alerts[j].raised = {}

\* As long as packets come in time order, and however they are cut into
\* chunks: once a window has closed, its early and closing alerts together are
\* exactly the anomalies a batch run over the capture so far finds in it ("the
\* batch-equivalent check"); and while it is open, what was raised is exactly
\* what partial evidence already settles ("the final value will be at least as
\* large"): no early alert is ever taken back, and none waits for the close.
VerdictsAreBatch ==
    InOrder =>
        \A e \in {EpochOf(p.ts) : p \in Range(arrived)} :
            Scored(e) => RaisedFor(e) = BatchVerdicts(e, e = epoch /\ ~flushed)
=============================================================================
