# NetScope-X: models, checks and proofs

NetScope-X ingests packet captures, reconstructs flows and a service topology
from them, keeps a digital twin of the network in step with new snapshots,
watches the twin's resilience, and answers what-if questions. This directory
holds TLA+ modules of its stateful parts, TLC configurations that check them on
small instances, and proofs of the properties that matter most for instances of
any size. Line numbers refer to the sources under `src/`; `PROJECT.json` maps
every definition to the lines it stands for.

    tlc -workers 2 -config WhatIfStudy.cfg MCWhatIfStudy        model-check a run
    tlapm TwinSynchronizationProofs.tla                         check the proofs of a module

## 1. The system

### 1.1 Components, their state and how they interact

| component | code | state | operations | talks to |
|---|---|---|---|---|
| Twin synchronization daemon | `backend/digital_twin/daemon.py` | gate `_last_accepted`, bounded queue with its unfinished count, twin, stop event, statistics | `submit`, worker loop with coalescing, `stop`, `wait_idle` | calls the rate limiter, `sync_digital_twin`, the `on_sync` callback |
| Token bucket | same file | tokens, time of the last refill | `acquire` | called by the daemon's worker before each sync |
| Digital twin | `digital_twin/twin.py`, `sync.py` | snapshot, topology, fingerprints, history | `build_digital_twin`, `sync_digital_twin` (pure: old twin in, new twin out) | reads snapshots and captures |
| Resilience monitor | `simulation/resilience_monitor.py` | active alerts, alert list, last report | `evaluate` | failure pipeline for the sweep; sinks |
| Monitor daemon | same file | one-place mailbox, last twin, busy flag, counters | `notify` (wired to `on_sync`), worker loop, `stop`, `wait_idle` | drives the monitor |
| Replicated store | `app/storage/replicated.py`, middleware and startup hook of `app/main.py` | files of each root, the records (hash list) of each root | `commit`, `verify`, `repair`, `read_path` | wraps every write request; other instances through shared volumes |
| Artifact files | `experiments/artifacts/io.py` | files, `.sha256` sidecars, manifests of generations and runs | write and read of ground truth, generations, runs | called by nearly everything |
| Experiment runner | `app/experiments_runner.py`, `api/routes/experiments.py` | jobs, start times per tenant | `start_run`, worker thread, event stream | artifact files |
| Flow reconstruction and its routes | `nettrace/reconstruct.py`, `normalize.py`, `api/routes/flows.py`, `topology.py` | the files of a capture: `packets.jsonl`, `flows.jsonl`, the topology | normalize, reconstruct, answer a page | files shared by every thread of the server and by the twin's worker |
| Incremental topology | `nettrace/topology/incremental.py` and what it shares with the batch path | packets and units by five-tuple, first and last sight of each address | `ingest`, `flows`, `graph` | base of the three below |
| Streaming dependency estimator | `dependency/streaming.py` | statistics per pair, versions, cache | `ingest`, `dependencies` | incremental topology |
| Streaming anomaly detector | `flowmind/anomaly/streaming.py` | current window, alerted set | `ingest`, `flush` | incremental topology, baselines |
| Multi-collector pipeline | `nettrace/collectors/multi.py` | sightings by packet identity, one topology per collector and a fused one | `ingest`, `resolutions`, `graph` | incremental topology |
| Flow export | `nettrace/flowexport/`, `capture/ingest.py` | live records of the exporter; templates while a file is decoded | export, encode, decode, expand, `ingest_flow_export` | batch path, whose packets it replaces |
| Pages of a capture | `frontend/src/` (`Explorer.tsx`, `Attribution.tsx`, `diff.ts`) and the routes they ask | input, list, position, graphs, changes; list, selection, attribution | edit, load, step, play, choose; effects and their cancellation | `GET /history/...`, `/dependencies`, `/causal/...` |
| Snapshots, timeline, diff | `archaeology/` | numbered snapshots and their graphs | `create_snapshot`, `list_snapshots`, diff, timeline | artifact files; the twin is built from them |
| Failure and path simulation | `simulation/`, `dependency/failure_propagation.py`, `criticality.py` | none | inject, find paths, propagate, rank | monitor, counterfactuals, policies |
| Counterfactuals | `simulation/counterfactual_*.py`, `nlq/` | none | execute, compare, rank causes | natural-language queries |
| Experiment policies | `dependency/experiment_policy.py`, `experiment_recommendations.py` | the twin of an episode and what it learned | choose a node, predict, see reality, repair | counterfactuals |
| Experiment matrix | `experiments/matrix_runner.py` | none | one cell after the other, each recorded | artifact files, shared with the server's runner |
| Registries | `app/auth/store.py`, `app/tenancy/store.py` | JSON files, only read by the server | resolve | every request |
| Client library | `sdk/python/netscope_client/client.py` | none | retried reads, pagination | HTTP API |
| Search for causes | `dependency/causal_discovery.py` | parents still alive, their strengths, what is removed at a size | screen, test at each size, retest, report | a matrix of activity per bucket |
| Statistics and models | `dependency/` (strength, causal evidence, Shapley), `flowmind/` | numeric parameters | fit, score | inputs of the above |
| Other HTTP routes, telemetry, the lab page of the frontend, lab simulator, benchmarks, scripts | see `PROJECT.json` | - | - | - |

### 1.2 What is hard in this code

- *Threads around a queue and a mailbox*: `submit` checks its gate under a lock
  and puts outside it; `stop` empties a queue that producers still fill; the
  count `wait_idle` polls is decremented item by item on two threads; callbacks
  raise; the monitor's `notify` compares with a twin that lags behind the one
  under evaluation.
- *Several instances on shared files*: commits compare, copy and record in
  separate steps, each may be cut by a crash or a failing disk, and repair at
  startup decides from the records which copy is the good one.
- *Order of writes*: data before manifest, manifest before sidecar, status
  before event; most of the crash cases of the artifact files are of this kind.
- *Incremental against batch*: packets arriving in any order and chunking must
  give the flows, dependencies and alerts of one batch.
- *One file, many writers*: GET requests rewrite the files of a capture through
  one temporary name, while the twin's worker reads them one after the other and
  a client asks again for what is still being computed.
- *State that outlives what it describes*: an exporter's timeouts and templates
  that arrive in another message than the data; a page of the frontend whose
  selection has moved on when an answer comes.
- *Chains of guesses*: a failure is predicted on a twin that is wrong, the
  prediction is scored, the twin is repaired from the score, and the next choice
  is made on the repaired twin.
- *Boundaries*: hysteresis of alerts, cut-offs, rate limits, queue bounds.

### 1.3 What makes each component correct

- Daemon: every accepted snapshot is processed, failed or discarded, and
  counted exactly once; `wait_idle` tells the truth; coalescing reaches the twin
  that one-at-a-time syncing would; the twin never goes back; no sync after
  `stop`; nobody waits for ever.
- Limiter: no window sees more grants than burst plus rate; no sleep is
  shorter or longer than needed.
- Monitor: alerts of a rule and scope alternate; the active list is what the
  alerts say; an alert is resolved only when its value cleared or its scope
  vanished; when idle, the report is about the latest twin.
- Store: what was answered 2xx is on the required roots and survives what the
  replication factor is meant to survive; `verify` reports damage and only
  damage; `repair` leaves the roots equal and never replaces a good copy by a
  bad one; a manifest is never visible without its data.
- Artifact files: a reader sees a complete generation or none; an earlier one is
  never changed; a crash anywhere leaves a state from which the same call
  succeeds.
- Runner: at most one run at a time, at most n starts per hour, every stream
  ends with the final event.
- Streaming parts: equal to the batch result after any sequence of chunks.
- Snapshots and twin: the history replays to the present; what is estimated
  from files that move on belongs to the twin's own edges.
- Requests: a request alone answers with the whole capture, whatever earlier ones
  left behind; paging neither loses nor repeats.
- Flow export: whatever the timeouts cut and the messages lose, a record is read
  as it was sent or the file is refused; a whole file gives the nodes and edges
  of the capture it came from.
- Pages: what is shown belongs to the capture, snapshot or dependency that is
  selected, and nothing stays loading for ever.
- Graph algorithms: the two engines agree with each other and with the textbook
  notions on all small graphs; removing never improves, adding never harms.
- Search for causes: the result does not depend on the order of the tests, and when
  the tests follow a causal graph no cause is lost.
- Policies: a repair makes the twin agree with what was seen, and later repairs do
  not undo it.

The hazards, each with its line and the properties that cover it, are in
`PROJECT.json`.

## 2. The modules

| module | models | extends / uses |
|---|---|---|
| `TokenBucket` | the limiter with a clock, in exact arithmetic | |
| `SnapshotFeed` | abstract: a twin fed one accepted snapshot at a time, in acceptance order | |
| `TwinSyncDaemon` | the daemon: producers, worker, stopping thread | refines `SnapshotFeed` (`INSTANCE ... WITH`) |
| `TwinSynchronization` | the daemon and its limiter | extends both |
| `ResilienceMonitor` | one monitor: rules, hysteresis, sweep, sinks | |
| `MonitorDaemon` | mailbox, worker thread, spacing, stop | |
| `ResilienceMonitoring` | the daemon driving the monitor | extends both |
| `ReplicatedStore` | commit, verify, repair of mirrored instances | |
| `FlowReconstruction` | the batch path from packets to flows, nodes, edges and dependencies, as operators | |
| `IncrementalTopology` | the same topology kept up to date chunk by chunk | `FlowReconstruction` |
| `StreamingDependency` | statistics per pair, retraction, the cache | `IncrementalTopology` |
| `StreamingAnomaly` | windows, fingerprints, early and closing verdicts | `IncrementalTopology` |
| `MultiCollector` | de-duplication across collectors, evidence, quorum | `IncrementalTopology` |
| `NetworkHistory` | graphs as of a time, snapshots, timeline, the twin's synchronization | `FlowReconstruction` |
| `CaptureRequests` | GET requests over the files of a capture, and a client that pages | |
| `FlowExport` | exporter, NetFlow v5 and IPFIX files, their ingestion | `FlowReconstruction` |
| `CapturePages` | the topology explorer and the attribution page, with overlapping requests | |
| `CaptureConsumers` | the seven consumers of a capture above, one per behaviour | extends all seven |
| `PathEngine` | connectivity, paths, route changes, criticality, as operators | |
| `FailureSimulation` | failure, propagation, impact, indicators, score | `PathEngine` |
| `CounterfactualAnalysis` | the six actions, the comparison, the questions, root causes | `FailureSimulation` |
| `ExperimentPolicy` | recommendations, choice, reality, repair | `CounterfactualAnalysis` |
| `CausalDiscovery` | the search for causes of a node's activity (time-series PC) | |
| `CausalWorlds` | data for it: causal graphs and the tests they imply, and data that follow none | `CausalDiscovery` |
| `WhatIfStudy` | an analyst's questions, an episode of experiments, or a search for causes | `ExperimentPolicy`, `CausalDiscovery` |
| `ExperimentArtifacts` | recorded runs: directories, manifest, sidecar, several writers, crashes | |
| `ExperimentsRunner` | admission, job table, worker, event streams | |
| `ExperimentLab` | the server's runs and a batch run over the same directories | extends both |
| `MC...` | small instances | |
| `TwinSynchronizationProofs`, `ResilienceMonitoringProofs`, `ReplicatedStoreProofs`, `WhatIfStudyProofs`, `ExperimentLabProofs`, `CaptureConsumersProofs` | theorems and proofs | the component |
| `ReplicatedStoreSteps`, `PathEngineProofs` | lemmas about single steps of the store, and about the operators on graphs | the component |

An operator commented as a *mistaken form* of the next one is a plausible wrong
version of that piece of code, kept to show that a property notices it.

### 2.1 TokenBucket and TwinSynchronization

`tokens` counts in parts of 1/`Scale` so that the refill of a tick is an
integer; `Grant` and `Wait` are the two ways through the loop of `acquire`
(daemon.py:54-62), `Wake` the end of the sleep, `Tick` the monotonic clock.
`Observe` moves the start of an observed window forward and resets the count of
grants in it, so that `RateCapped` speaks of *every* window. The code computes in
floats; rounding is left out. `TwinSynchronization` puts the limiter beside the
daemon: the worker passes `acquire` alone, between taking a batch and syncing it,
and holds nothing others wait for, so a behaviour follows one of the two.

### 2.2 TwinSyncDaemon and SnapshotFeed

One step per critical section or blocking call. A producer is at `gate` (under
the lock: `RejectStale`, `Admit`), then at the `put` (`Put`, `Full`), then
at the counting of the outcome (`ReturnAccepted`, `ReturnRefused`). The worker is
`CheckStop` / `Get` / `GetTimeout`, `TakeMore` and `BatchComplete` for
coalescing, `SyncSucceeds` or `SyncFails`, `OnSyncReturns` or `OnSyncRaises` (the
callback is outside the `try`, its exception ends the thread after the
`finally`), `TaskDone` per item, `BatchDone`. The stopping thread is `StopCalled`
(drain or not, timeout or not), `JoinQueue`, `SetStop`, `JoinThread`, then per item
left in the queue `DiscardTakes`, `DiscardCounts`, `DiscardDone` (get, counter and
`task_done` are three steps, daemon.py:142-146), and `StopReturns`. A snapshot is its `captured_at` and the fingerprints submitted
with it; ghost variables remember what was accepted and what became of it.
`Allowed` switches circumstances on: `sync_fails`, `on_sync_raises`,
`put_timeout`, `stop`, `stop_timeout`, `late_submit`.

`SnapshotFeed` is what the docstring promises: accepted snapshots are applied
one after the other (`Accept`, `Advance`), or dropped together with their batch
(`Drop`). The refinement maps the queue followed by the unfinished batch to the
feed's backlog.

### 2.3 ResilienceMonitor, MonitorDaemon, ResilienceMonitoring

`Evaluate` starts an evaluation and lays out its agenda (state rules, then the
sweep rules of each swept scenario, resilience_monitor.py:187-201); each
judgement is a step (`JudgeFires`, `JudgeResolves`, `JudgeHolds`, `JudgePasses`)
because a sink may raise inside it; then come the scopes that are gone
(`CollectGone`, `RemoveGone`) and the end. What the failure pipeline finds for a
scenario is an input (`Topology`). Ratios are compared in exact percents.

`MonitorDaemon` has the mailbox (`pending`), the worker's step (`Take`, `Begin`
after its spacing, `Finish`, `Exit`), `notify` as one critical section and
`stop`. A twin is an object with an identity, since `notify` compares with `is`.
`ResilienceMonitoring` conjoins the two: `Begin` of the daemon is `Evaluate` of
the monitor, an evaluation that ends or raises is the daemon's
`EvaluateReturns` or `EvaluateRaises`, everything else of the daemon leaves the
monitor alone.

### 2.4 ReplicatedStore

Each root has `disk` (file to version, damaged copy, or missing) and `recs`
(the recorded hashes). A request is `Receive`, one `WriteFile` for each file it
stores, `StartCommit` (the hashes of *all* files of the scope, not only of those
the request wrote), `WriteRecords`, then per replica `Compare` and `Copy` file
by file in `CommitOrder` (markers last), `Merge` of the replica's records,
`Answer`. `ReplicaFails` and `PrimaryFails` are OS errors; `Crash` ends the
requests of an instance; `Restart` runs repair. Per file, in plain path order:
`ExamineFile` compares the copies of all roots and picks the source, then root by
root `PassCopy` leaves a copy as it is, or `OpenSource` and `ReplaceCopy` are the two
ends of `_copy_atomic`; requests, crashes and other repairs fall between any two of
these. Then `RepairRecords` goes root by root. `Rot` damages a copy. Ghosts:
`acked` (what was answered 2xx), `newest` (the last version each file was given),
`overlapped` (two requests were under way together), `halfway` (the files a repair,
killed since or not, has begun to hand around and none has handed to all roots). A file is written whole
here; what happens when two writers share its temporary name is
`CaptureRequests`' subject.

### 2.5 FlowReconstruction and the streaming modules

`FlowReconstruction` is the reference: what the batch path makes of a whole
capture. A packet is its number, time stamp, endpoints, protocol and leading TCP
flag; a flow unit is the sequence of its packets in time order, from which its
direction, TCP state and shares follow. `SortedBy` is Python's stable sort, since
ties of time stamps decide directions and numbers. All packets have one size, so
shares of bytes are shares of packets. Scores (edge confidence, dependency
strength) are kept as the values their formulas are applied to: both paths call
the same formulas, so equal arguments mean equal scores, up to the rounding of
running sums.

`IncrementalTopology` has the dictionaries of incremental.py; `IngestTopology`
derives only the touched keys again. `StreamingDependency` adds `Ingest`, which
retracts the records of every touched key and adds its new ones, and `Read`,
which replaces the cache by `Fresh`. `StreamingAnomaly` cuts a chunk at window
boundaries (`Cut`, `TakeRuns`), judges the open window on the dimensions partial
evidence can be trusted for (`Trusted`), and closes a window on all of its packets;
fingerprints and the judgement of one window are operators. `MultiCollector`
looks for the nearest sighting within the tolerance that the same collector has
not claimed (`Nearest`), feeds what is new to the fused topology and everything
to the collector's own, and weighs who shows an edge (`Evidence`, `FusedEdges`).
`sighted` and `arrived`, the histories, are what the batch operators are applied
to.

`FlowExport` follows a capture through the other path. `ReadPacket` keeps the live
records, a dictionary, and closes one whose key comes again after a timeout
(`Expired`); `WriteExport` closes the rest, sorts and encodes (`Encoded`). The file is
a sequence of messages: `CollectExport` loses some and may put another exporter's
among them, with the same template number and a layout of its own.
`DecodeMessage` learns templates by observation domain and number (`Learned`) and
reads records by layout; `StorePackets` expands them evenly (`Spread`) or refuses.
What ingestion stores is what `FlowReconstruction` starts from, so the two paths
are compared node by node and edge by edge.

### 2.6 NetworkHistory

The files of one capture: `written` packets of a recording, flows reconstructed
from the first `derived` of them, graphs and snapshots by version. A producer
writes, reconstructs and takes snapshots (`BuildSnapshot` writes the graph,
`RecordSnapshot` the snapshot that names it). A synchronization reads the
snapshots, then edges, relationships and flows as three more reads
(`BeginSync`, `ReadEdges`, `ReadRelationships`, `FinishSync`), between which the
files may be replaced; `Kill` ends the process between any two writes. `Diff`,
`Timeline` and the twin's history are by ids, which are positions in sorted
lists: `HistoryReplays` says that this is harmless. `BuildView` is the comparison by
addresses the topology explorer makes in the browser, and `ViewMatchesEvents` says
that it tells what the recorded events tell.

### 2.7 CaptureRequests

A request is the list of file operations its route performs, in order (`Steps`);
a write is `OpenTemp` (truncates the temporary file, whose name all writers
share), `WriteData` (goes where the opened file is by then: still under the
temporary name, already renamed to the real one, or replaced), `Rename`. Content
is a word for all of the capture's packets, flows or graph, `Nothing` for the
empty file. The caller is `paginate` over `_request`: `AskPage`, `TakePage`,
`TimeOut` (the handler goes on), and the answer it never gets when the server is
killed (`Restart`).

The pages of the frontend that show a capture are in `CapturePages`, apart from
these, since no route they ask writes a file the pages could see half written. A
page is a record of its React state, with the requests under way in `sent`.
`Explore` and `Attribute` are the two effects, `Cancel` their cleanup. A click runs
the effect at once, an answer marks the page `stale` and `Render` runs it later;
answers come in any order, and each may be a failure (`Receives`). What a cancelled
effect still asked for is dropped, except the changes of a snapshot, which the
page shows without asking whether the effect was cancelled. An effect waits for its
graphs before it asks for the changes, so that `Cancel` drops one request; that there
never is another is part of the invariant proved about it (section 5).

### 2.8 The what-if modules

Graphs have integer costs; a scenario is a record of its type, targets and
magnitude. `FailureSimulation` follows `run_failure_propagation` stage by stage,
with its refusals; `CounterfactualAnalysis` executes an action on an isolated copy
and compares; the comparison goes through the adapter that turns a counterfactual
into the failure pipeline's terms, and `EnginesAgree` says the two routes give one
answer. `WhatIfStudy` is either an analyst (one question per behaviour: an answer
depends on nothing but the graph) or an episode: choose (`Selectable`), predict,
see reality, be rewarded, repair. The learned policy is any choice of a node not
yet tested, which its bandit refines.

A third program of `WhatIfStudy` is a search for the causes of one node's activity
(`CausalDiscovery`): `Screened` is the pass without conditions, `TestParent` one
turn of the loop over the parents at one size of condition sets, with the
strengths frozen when the size began, `EndSize` removes what was found independent,
`Retest` is a turn of the final pass, `Report` picks the edges. What a test says is
an input. Parents of one size are taken in any order, because the code's order is
that of the numbering of the nodes and the result is said not to depend on it:
`DiscoveryIsRight` compares with the search as a function of sets, level by level.
Where the tests are those of a causal graph (`CausalWorlds` computes them by
d-separation in the graph unrolled over the buckets), every true parent is found,
and a false one stays only if the strongest others it was last tested against
lacked a true one, which does happen.

### 2.9 The experiment modules

`ExperimentArtifacts` has one step per file of `run_and_persist_cell`: reserve a
version, adopt a run of the old layout, write captures, scenario, metrics, manifest
and sidecar, each of which a crash or another process may separate from the next.
The content of a file is the run it comes from. `ExperimentsRunner` is
`start_run` under its lock, the job table and its eviction, the worker's status
changes and events (which the code appends *after* the status), and event streams
that are cut and resumed by index. `ExperimentLab` adds the batch program, cell by
cell, in another process.

## 3. Runs

States are distinct states found.

| run | states | instance | shows |
|---|---|---|---|
| `daemon` | 1,398,554 | one producer, queue of 2, four submissions of two stamps and a fingerprint, every circumstance | `WaitIdleIsSound`, `OneProducerOrder` (captured_at order from gate to twin), refinement of `SnapshotFeed` |
| `daemon_live` | 120,542 | two producers, queue of 1, policy `block`, failures, stops; limiter of 2/5 token per tick, burst 2, 12 ticks; fairness | `AcceptedAccounted`, `NoSyncAfterStop`, `AcceptedSettles`, `CallsReturn` (blocked producers, stops and drains end); `RateCapped`, `SleepIsExact` (no sleep too long, none too short), `AcquireReturns` |
| `daemon_order` | violated | two producers, no circumstance at all | `SyncsToTheNewest` fails: the put is outside the gate's critical section |
| `monitoring` | 108,002 | two state and two sweep rules, five twins, three notifications, sinks raising anywhere | `EdgeTriggered`, `ResolvedForAReason`, `NotifiesAccounted`, `FreshIdleMeansLatest`, `IdleVerdict`, `WorkerServes` (what waits is taken, a stop ends the worker) |
| `store` | 981,081 | two mirroring instances, a capture of manifest, pcap and topology | `AckedWhenAlone`, `VerifyIsExact` (tells damage and only damage), `CapturesSurvive`, `MarkerAfterData`, `RepairHeals` |
| `store_rollback` | violated | no failure, one writer per file, requests overlap | `AckedOnQuorum` fails: a commit of the whole scope rolls back what the other instance has just written |
| `streaming` | 253,799 | see 3.1 | `ReadIsBatch` (topology, answers and statistics), `AlertsAreVerdicts`, `EvidenceIsPooled`, `ExportIsFaithful` (read as sent; nodes and edges kept), `ArchiveIsCoherent` (histories replay, the twin's dependencies are those of its edges, the explorer marks what the events record), `AnswersAreWhole` (`LoneRequestIsRight` and `PagesAreExact`), `PagesShowWhatTheySay` |
| `streaming_loopback` | violated | the same | `ReadAnswers` fails: one packet between two ports of one address, and every later read raises |
| `requests_torn` | violated | the same | `FilesAreWhole` fails: two writers share a temporary name, one renames what the other has just truncated |
| `whatif` | 22,571 | all graphs of four nodes and five of five, every question; episodes of three experiments on twins that miss edges; searches among five or six possible parents | `ChangesAreMonotone`, `EnginesAgree`, `IndicatorsMatchStructure`, `PreventedOrCollateral`, `RepairsHold`, `DiscoveryIsRight` |
| `experiments` | 694,272 | a tenant's live jobs, a client, a batch of two cells, a legacy run, a crash | `RunsSurvive`, `FailuresExplained`, `DoneMeansRecorded`, `AdmissionHolds`, `LearnsOutcome` |
| `experiments_overwrite` | violated | the same without a crash | `EarlierRunsKept` fails: two processes reserve one version, and the second deletes the first's recorded run |

### 3.1 Bounds, and why they are enough

- *Daemon.* Two stamps distinguish older, equal and newer; a queue of two holds
  two items in the wrong order; four submissions fill the queue, block one and
  leave one for after the stop. Everything about identity of snapshots is
  covered by the stamp and a key that is or is not submitted with it.
- *Bucket.* 2/5 makes the fractional tokens go through every residue; 12 ticks
  are more than two full refills.
- *Monitoring.* Five twins are an outage, a band value between threshold and
  clearing, a recovery, and two changes of the set of scenarios; three
  notifications let a twin come back while another is under evaluation.
- *Store.* Five requests allow: capture, topology, a rewrite, and a request on
  each side of a crash. `MaxTogether` = 2: once two requests overlap, only two
  are made, since with more the behaviours of `store_rollback` repeat. One crash,
  one damaged copy, two versions of the topology. Two roots are the deployment of
  `docker-compose.ha.yml`. With three or more a commit or a repair that is cut may leave one root behind
  and one served; the runs do not reach that, the theorems of section 5 do, since
  repairs and commits go from root to root and the number of roots is a constant.
- *Streaming.* A TCP handshake with a FIN on a well-known port, three datagrams
  of one five-tuple whose middle one joins two sessions when it comes late, an
  ICMP packet that changes the order of the nodes, a packet of a node with
  itself, a reset flow, time stamps that tie. Four arrivals allow a cached pair,
  a session split in two, and the late packet that joins it; five cross two
  window boundaries. Three collectors, one with a clock that is ahead, and a
  datagram repeated within their confusion. Node ids are compared as text by the
  code, which is numeric order up to ten nodes.
- *History.* Three snapshots are the fewest with a history of more than one step;
  two addresses appear late, one sorting before and one after those present, so
  that edges are inserted in the middle of the list.
- *Requests.* Two threads and three requests: two that overlap and one after
  them, alone. Three flows in pages of two need two pages, one retry repeats one.
- *Flow export.* Captures of up to four packets, of a datagram flow both ways that
  either timeout cuts, a connection, an ICMP packet, IPv6, and ties; of two when
  they are out of order. Two records per message (20 and 30 in the code) make a
  capture need two messages; the idle timeout is shorter than that of sessions,
  as in the code (15 and 30 seconds).
- *Pages.* The page loads a capture by itself, then two clicks: to edit and load, to
  move twice, or to choose twice while the answers to the first are out; play goes
  on from there. Three snapshots have one with and one without a predecessor.
- *Search for causes.* Three nodes and two lags are the fewest with a chain, a
  common cause two buckets back, inertia and feedback. Sets of up to two of the
  three strongest others (three of six in the code) leave true parents out when
  six survive. Two independent tests make two parents each other's explanation.
- *What-if.* Four nodes have bridges, cycles, articulation points, two components
  of one size; five of five add two-step detours. Three experiments let a third
  disturb what the first taught.
- *Experiments.* A crash at every file; a table of one evicts; an hourly limit of
  one refuses. Both processes may run the same cell. The clock ticks only when no
  run is in progress: time is compared with the hour at admission alone, and a
  run in progress refuses every admission whatever the time. Of the values of
  `--on-existing`, the run has `version`.

Deadlock checking is off where the system may rest (all requests made, worker
stopped); `daemon_order` keeps it on.

### 3.2 Independent parts in one run

`CaptureConsumers`, `WhatIfStudy` and `TwinSynchronization` choose at the start which
of several programs a behaviour follows. These programs share no state in the
code: each streaming client has a topology of its own, an analyst and an episode
work on their own twins, a search for causes reads a matrix, the limiter is private to the worker. The archive and the
requests of one capture do share files; the archive's producer is a program that
replaces them in order, and the races of writers are left to the requests. The
exporter runs before there is a capture, and the pages only read.

### 3.3 Fairness

- *Daemon*: weak fairness of the worker's steps, of the stopping thread's, and of
  each producer's steps inside `submit`: operating-system threads are scheduled. A
  `put` gets no more than weak fairness, since a blocked producer competes for a
  free slot without priority; that it returns in the run rests on the bounded
  number of submissions (section 4). Nothing obliges a sync to succeed, a producer
  to submit or anybody to call `start` or `stop`: weak fairness of the worker is about
  one that was started. `AcceptedSettles` and the return of `submit` are claimed only
  while there is a worker, neither before `start` nor after its thread has ended.
- *Bucket*: weak fairness of the clock and of the caller inside `acquire`; nobody
  is obliged to call it.
- *Monitoring (`FairSpec`)*: weak fairness of the worker, of the evaluation's
  steps and of the clock. Calls of `notify` and `stop` are not fair.
- *Experiments*: weak fairness of the worker threads together, since a job has
  finitely many steps and one run is in progress at a time, and of each client's
  open stream. Nobody is obliged to come back to a stream that was cut:
  `LearnsOutcome` is about clients that do.

## 4. What the runs do not claim

Cases met while modelling that have no run of their own.

Daemon and monitor:

- *Gate moved by a refused submission.* `_last_accepted` is set before the put;
  when the queue is full the submission is refused but the gate stays, so a later
  snapshot can be rejected as stale although nothing newer was ever accepted.
- *Submission after a stop.* A producer blocked in the put is let in by the
  stop's own discarding; its snapshot was accepted and stays in the queue. A
  `stop(drain=True)` after that waits for work no thread will do.
- *Coalescing without bound.* A producer as fast as the loop keeps the batch
  growing; and producers that arrive again and again can overtake a blocked one.
  The number of submissions is bounded in the runs.
- *Notified during its own evaluation*, a twin is evaluated twice, since `notify`
  compares with `_last`, which still names the one before.
- *Raising sink in the removal loop*: `resolved` is emitted before the alert
  leaves the active list, so the next evaluation emits it again. `EdgeTriggered`
  and `ActiveIsLatest` are claimed while no sink has raised.
- *Cut-off of the sweep.* Scenarios past `max_scenarios` are not judged and the
  removal loop takes them for removed ones: a scenario pushed past the cut-off
  by a new one has its alert resolved although it exists and breaches.
  `ResolvedForAReason` is false with `MaxScenarios` = 1; the run uses 2.
- *Back to the twin evaluated last.* While twin B is under evaluation, `notify`
  of the twin before it is skipped as unchanged and the monitor ends on B.
  `FreshIdleMeansLatest` is claimed while no object is handed over twice; the
  sync daemon makes a new twin for each sync.
- *Failing evaluations are not spaced*, and `stop` lets the worker go on while
  notifications keep coming.
- *Float threshold*: 0.8 + 0.05 exceeds 0.85 in binary, so a ratio of exactly
  17/20 does not clear an alert it should clear.

Store:

- *Damage on a live root.* The next commit records the damaged copy as the
  file's hash and replicates it; the run damages roots of instances that are
  down.
- *Uncommitted rewrites look corrupt.* After a 503 or a crash the newer, intact
  copy disagrees with its root's record; if the other copy is damaged, repair
  finds no good copy at all, and the next commit records the damage. Hence
  `VerifyIsExact` speaks of, and `CapturesSurvive` and the success of
  `RepairHeals` are claimed for, files that are never rewritten (captures).
- *Unrecorded copies* tie with recorded good ones at repair; a damaged file
  without a record can win. With three roots and `min_replicas` = 1 a replica that
  failed before its records were merged has such copies of acknowledged files: one
  that is damaged while its instance is down stays damaged through the repair, so
  `RepairHeals` is claimed where every replica counts.
- *Repair copies in plain path order*, manifest before pcap, unlike commit.
  `MarkerAfterData` excuses a marker while a repair is handing it around and, from
  three roots on, after a repair was killed over it, until one has handed it to all
  roots. Such a repair leaves the manifest of a capture that was never committed alone
  on the second of three roots, and the next commit of that root's instance lists
  it and copies it, without its pcap, to the third, although commit's docstring has
  "a replica never holds a marker without the data it vouches for"
  (replicated.py:100-101).
- *Interrupted repair* leaves healed files with old records; the next repair
  mends it.
- *Overlapping commits on one instance* interleave reading and writing of the
  record file and lose or age entries.

Streaming:

- *Nodes that talk to themselves.* `ReadIsBatch` is claimed without them
  (`streaming_loopback`); the graph and the statistics stay exact with them.
- *Packets with one time stamp.* The direction and TCP state of a flow whose
  first packets tie follow the order of arrival, in both paths alike;
  `TopologyIsBatch`, part of `ReadIsBatch`, compares late arrivals with a stable sort of what arrived.
- *Confidence can fall.* A FIN takes `established` from a flow, and a late packet
  that joins two sessions takes `persistent`: an edge has more packets and less
  confidence. The promise of edges.py that evidence never lowers it is about
  added flows.
- *Recomputed without need.* Retracting and adding the same flow time moves the
  node's version, so pairs whose inputs have not changed are computed again.
- *After the flush.* `flush` forgets what it alerted and keeps the window open; a
  second one alerts again. Every caller ends its stream with it. A window without
  a packet is never judged, so silence raises no alert.

History and requests:

- *Later packets of an early flow.* A graph as of a time takes every flow that had
  begun by then with all its packets: evidence from after `captured_at` enters the
  confidence, although "a snapshot's claimed capture time always genuinely
  matches" its evidence (snapshots.py:67-69). The producer of the model, like all
  callers, takes snapshots of times of which nothing is still to come.
- *A capture rewritten with fewer or other packets*, as
  resilience_monitor_benchmark.py:103 does, moves the positions that are ids, and
  differences then compare different addresses under one id. Snapshots out of
  order of time break the twin's history in the same way.
- *Without `as_of`* (GET /dependencies), edges and relationships read before and
  after a reconstruction differ in length and `zip` matches the wrong ones; a
  second read of an empty file divides by zero.
- *Flow export.* Handshakes are not in the records, so an edge loses
  `established`; `OnlyHandshakesAreLost` says that nothing else is. It needs packets
  in order of time for the times and sessions, and an idle timeout no longer than
  that of sessions (the default is), or records would span what the capture
  separates. A capture out of order can make a v5 file that ingestion refuses
  (a record that ends before it starts). A lost message without a template is not
  noticed: nobody reads the sequence numbers, and its packets are missing.
- *Overtaken answers.* The changes shown beside a snapshot may be those of another
  one when answers come out of order (Explorer.tsx:63 follows a second await);
  `PagesShowWhatTheySay` claims them for answers in order. Two loads of the
  attribution page overtake each other in the same way.
- *Edited but not loaded.* The explorer asks for the graphs of the old list under the
  capture id in the input, and keeps them by version: pages are right from the
  next load on.
- *Chosen again.* A click on the dependency that is already selected, or a load,
  clears the attribution, and nothing asks for it again (Attribution.tsx:66). An
  error of a request that belongs to the page before a load can appear after it.
- *Between an answer and its rendering* the model allows other answers, but no
  click and no tick of the timer: React has a few milliseconds there in which a
  tick could move past the end of a list that has just become shorter.
- *Requests to flow exports.* `LoneRequestIsRight` holds for them only until requests have
  overlapped: their packets are nowhere but in the file that may be torn.

What-if:

- *ADD_ROUTE can make another component the largest*, so nodes are reported newly
  unreachable (counterfactual_comparison.py:218-220). With a disconnected
  baseline the main component may flip, and with it what counts as impact.
- *Refusals outside the `try`.* latency_injection without latency_ms passes the
  schema and ends in a TypeError (path_engine.py:106); REDUCE_BANDWIDTH and
  INCREASE_LATENCY out of range raise ValidationError past the handler of
  nlq/ask.py:34-38.
- *EDGE_FAILURE with a target node also set* propagates from a node that did not
  fail. `alternative_path_available` is never true after NODE_FAILURE. A degraded
  route can cost more than the penalty for an unreachable one.
- *One score.* `ChangesAreMonotone` speaks of each route and of connectivity; no
  property is about the score that adds degraded weights and penalties.
- *Prevented but cut off.* The root-cause ranking counts as prevented the nodes
  that removing the cause cut off itself; `PreventedOrCollateral` allows them when
  the item names them.
- *A search drops without evidence.* With no more than three rows beyond the size of
  a condition set the p-value is 1 (causal_discovery.py:99-101), which is above
  alpha: the parent goes, although nothing was found. Exact copies of a series are
  undefined and stay; two near copies explain each other and both go, since what
  is removed at a size counts until its end. The rows are the buckets of a capture,
  so both are met by short captures.
- *Order of repairs.* The repair bridges towards the main component at the time;
  it depends on the order of nodes of one size.

Experiments:

- *Two writers, no crash.* A contended commit can leave manifest and sidecar of
  different writers: every later read and write of the experiment is refused.
  `FailuresExplained` allows this for contended experiments.
- *A legacy run half adopted* blocks every later write of its experiment.
- *One bad manifest* makes the list of all experiments fail
  (routes/experiments.py:50).
- *Eviction while a client reads*: a stream that is open keeps its job; one that
  comes back after an eviction is told 404. A stream may end at its deadline or in
  the gap between status and event without the final event; the client asks again.

## 5. Proofs

All theorems are for arbitrary values of the constants, under the assumptions
named in the component modules (positive rate and burst, non-empty queue bound,
finite sets, and so on), which TLC evaluates in every run.

**TokenBucket** (`TwinSynchronizationProofs`). `BucketRateCapped` follows from
`BucketAllowance`: the grants of the observed window, plus what is left in the
bucket, never exceed the burst plus what the rate has yielded since the
window began. The cap alone is not inductive: without the remaining tokens a
state with a full bucket after a full window would be allowed.
`BucketSleepIsExact` (the sleep of `acquire` ends when the token is there, neither
later nor earlier) follows from `SleepFollowsRefill`: while the worker sleeps its
deadline is the one that the content of the bucket at the last refill asks for,
since nothing refills or spends behind its back.

**TwinSyncDaemon** (`TwinSynchronizationProofs`). Four inductive invariants, from
simple to rich: typing (`DaemonTyping`); `Counted`, which ties the unfinished count
to the queue, the part of the batch not yet marked done and the item in the hand of
stop, whichever thread marks it and between any two steps of either; `Accounts`, which follows every accepted snapshot into queue, batch or one
of the outcome counters and every call of `submit` into one counter, with the
calls still under way; and `OneProducerOrder`, the order of the gate, the queue, the
batch and the twin along one chain. From these come `DaemonUnfinishedExact`,
`DaemonWaitIdle`, `DaemonAcceptedAccounted`, `DaemonCallsAccounted`,
`DaemonOneProducerOrder` and the action property `DaemonTwinNeverGoesBack`. For
more than one producer the last two are false, which `daemon_order` shows.
`DaemonNoSyncAfterStop` (once `stop` has returned, no sync changes the twin) needs
`Quiesced`: once the join has returned the worker is gone, or was never started
and will find the flag set. Its one hypothesis is a stop without a timeout
("stop_timeout" is not in `Allowed`); a join cut short by one leaves the worker in
its sync.

`DaemonImplementsFeed` is the refinement of `SnapshotFeed`: every initial state
maps to an initial state and every step of the daemon to an `Accept`, an
`Advance`, a `Drop` or a stutter. Each action of the daemon is shown which; what
needs work is that queue and unfinished batch together are the backlog whatever
moves between them. It holds for any number of producers, since the feed speaks
of the order of acceptance and not of capture times. `SynchronizationIsBoth` says
that the composition the run checks steps the daemon and the limiter only by their
own actions, so that all of this holds in it.

**ResilienceMonitoring** (`ResilienceMonitoringProofs`). The invariant `Latest` of
the monitor (per rule and scope, the latest alert is a fired one exactly when the
pair is active, and alerts alternate) gives `MonitoringEdgeTriggered` and
`MonitoringActiveIsLatest`; the invariant `Pipeline` of the daemon (each notify is
pending, replaced, skipped, under evaluation or evaluated) gives
`MonitoringNotifiesAccounted` and `MonitoringIdleMeansLatest`. Two
lemmas, `ComposedDaemon` and `ComposedAlerts`, say that a step of the composition
is a step or a stutter of each part, so each invariant is proved where its state
lives. `MonitoringIdleVerdict` (an idle monitor has an alert active exactly for
what the latest twin breaches, but for the hysteresis band) is the one that needs
both: `VerdictInv` says of an evaluation under way that every pair already judged,
or gone over, agrees with the twin under evaluation and every other one is still
on the agenda; `SeenIsRight` and `GraphFollowsTwin` say that this twin is the one
the daemon took. It assumes `MarginsKeepApart` (no hysteresis margin is negative;
with a negative one the conditions to fire and to clear would overlap, and the
verdict would depend on the past). `MonitoringResolvedForAReason` states that
no alert is resolved unless its value recovered by the margin or its scenario is
gone. Here sinks may raise anywhere, for an evaluation that stops halfway leaves
alerts that are on but neither seen nor judged. `ReasonInv` says why the next one
does not sweep them away: all that is on was due once, and what is due now, was
judged and is still on has been seen, so that nothing due is listed for removal.
It assumes `NothingCutOff` (an evaluation judges all that is due, the default of
the code, which has no `max_scenarios`); with a cut-off the property is false, see
section 4. Both hypotheses are an `ASSUME` of `MCResilienceMonitoring`, so the run
shows that its rules and topologies satisfy them.

**ReplicatedStore** (`ReplicatedStoreSteps`, `ReplicatedStoreProofs`). The
theorems come in two layers.

Whatever overlaps, fails, crashes or is damaged:

- `StoreMarkerAfterData` (a marker comes to a root after the data it vouches for,
  unless a repair is handing it around or was killed over it), for any number of
  instances that mirror to one another, with repairs that go from root to root. The
  property speaks of one step of a copy; its invariant `Vouched` says what every root
  and every commit under way holds: a marker only with its data, unless the marker is
  on all roots or, where there is a third one, `halfway`. The exception is needed
  because a repair copies in path order and may be cut short; with two roots a cut
  repair leaves nothing halfway, since the source and the one other root are all.
- `StoreCapturesOnQuorum` (an acknowledged file that is never rewritten is on its own
  root and on `min_replicas` others), for any shape of mirroring. `Grounded` (records
  and jobs speak of files that are there, versions are not newer than what was
  written), `ReachedDone` (`reached` counts only roots that have all files of the
  commit), `AckedThere` and `WrittenOnceOnly` carry it.

While requests and repairs come one at a time (`~overlapped`, built into the
invariants, so that the theorems are about all behaviours):

- `StoreAckedWhenAlone` (an acknowledged file is on its own root and a quorum in the
  version acknowledged or a newer one; this includes rewritten files). `Alone`
  says who is under way, `Mirrored` that a lone commit carries what its root has,
  `AckedHeld` that every root and record is as new as what was acknowledged.
- `StoreCapturesSurvive`, `StoreVerifyIsExact` and `StoreRepairHeals`. `Kept` says of
  every acknowledged capture that its records are right and that at most one copy is
  damaged, on a root that does not serve; `SoundUntilRot` speaks of the time before any
  damage, `Healing` of the files a repair has already gone over, and `HandedOn` of
  the one it is handing around: the roots done have the version of the source and its
  record, and no root still to come is newer, unless its copy was bad.

Each property speaks of acknowledged files or of the end of a repair and says
nothing of the middle of a commit, so none is inductive by itself. Their hypotheses:
`Attainable` (no root twice among the replicas, and `min_replicas` no more than
there are, or nothing would ever be acknowledged), `OncePerRequest` (a request writes a capture
once), `VouchedFirst` (requests write data before the marker that vouches for it),
`AllMirror` (every instance mirrors to all others, as the pairs of
docker-compose.ha.yml do), `AllCount` (`min_replicas` = 0, the default, which
requires all of them, replicated.py:89), and `OneDamage` (one damaged copy at most,
under the root of an instance that is down, of at least two). Without the last no
good copy need be left.

The proof showed that `VerifyIsExact` had been too strong. A damaged copy of a
rewritten file may be recorded when repair finds no good copy, and the record is then
carried to the other root, where it contradicts an intact copy. `VerifyIsSound` is now
claimed of rewritten files only while nothing was damaged.

**ExperimentLab** (`ExperimentLabProofs`).
`OneRunAtATime`: at most one live run, for any tenants, limits and size of the job
table, whatever the batch does and wherever a crash falls. The guard of
`start_run` looks at the table only, and the table is trimmed; `AdmissionInv` adds
that every unfinished job is still listed, because a trim takes finished ones.
`AdmissionIsLimited` adds that in no hour a tenant starts more runs than its limit: `LimitInv`
matches the timestamps kept per tenant with the admitted starts, so that none of
the last hour is missing from them.

Of the recorded runs: `RecordedRunsSurvive` (a recorded run stays in the manifest
and readable, through crashes and later writers), `FailuresHaveReasons` (a failed
write was refused by the policy, failed in the cell, or met the trace of a crash in
one of two gaps) and `OutcomesAreTrue` (a job that tells its client it is done has
a recorded run, and one that tells of an error has none). `ArtifactsInv` follows
directories, sidecar and manifest through every step of a write and every place
a crash can fall; `JobsTold` ties the status of a job to what is recorded, and the
two are proved together as `LabInv`, since the server's runs and the batch write the
same directories. Both kinds of gap are written into the properties: a crash between the
manifest and its hash leaves an experiment that every later call refuses.

**PathEngine and WhatIfStudy** (`PathEngineProofs`, `WhatIfStudyProofs`). All six
properties of the run `whatif`, for every topology, twin, question, set of causal
candidates, budget and bound on the options.

The operators of the path engine are recursive functions, and most of the work is to
say what they compute. The library's induction theorems cannot be instantiated here,
so `PathEngineProofs` has two of its own, about sets in place of predicates:
`Induction` (a set with 0 that has every successor is all of `Nat`; the set is
{n \in Nat : P}), and `Recursion` (every recursion equation has a solution, which is
then the function that CHOOSE picks). From them: a component is the least set with its
node that no edge leaves (`ComponentIsLeast`), components are a partition, the paths
enumerated are all simple paths, a path's cost is the sum over its hops, the path
returned is a cheapest one (`ShortestPathIsCheapest`), two nodes of a component are
joined by a path, and sorting by the number of the smaller ones puts every element in
one place (`BelowCounts`, `PlacesAreTaken`).

An answer is a function of the twin and the question: `AnswersComputed` is the
invariant that says so, with what the checks of each request have ruled out. Each
property of an answer is then a fact about graphs:

- `EnginesAlwaysAgree`: action by action the two engines remove and slow the same
  (`SameEffect`), hence weigh the same (`SameWeights`) and compare the same pairs.
- `ChangesAreAlwaysMonotone`: a path of what is left is a path of the whole
  (`LessIsNoBetter`), and with a route more, every old one is still there (`RouteNoWorse`).
- `PreventedOrNamed`: whatever the ranking lists, and in whatever order, is the
  impact of one removal that was tried (`RankedItems`).
- `IndicatorsAlwaysMatch`: a second path exists exactly when some hop of the first can
  be spared, since two simple paths of the same hops are the same path
  (`SameHopsSamePath`), and a path that avoids a hop is another one.

Episodes and searches take many steps and have inductive invariants. `EpisodesAreSound`
adds to `RepairsHold` that twin and reality stay topologies, and says of every node
failed so far that at most one component of the rest lies within what reality kept
together: bridges only join components, and those of a repair join exactly
the wrongly stranded ones (`MergedComponent`). `SearchesAreKnown` says that in the
middle of a size `alive`, `removed` and `progressed` are functions of the data, the
size and the parents still to test, because every condition set is chosen by the
strengths frozen at its beginning; with the sets chosen among what is alive, the
mistaken form the run refutes, it fails. At the end of each size it is one level of
`StableAfter`; a size that finds no set ends the loop early, and `NothingLeftToTry`
shows that no later level would have changed anything.

The assumptions on the constants are what the models of the code enforce: edges have
two different ends among the nodes (models/topology.py:55-84), injected latency is not
negative (models/failure.py:31), the series of a search give every parent a
strength (`IsWorld`). The last clause of `DiscoveryIsRight` speaks only of data said to
follow a causal graph. What that means is `FollowsCauses`, the assumptions that
causal_discovery.py:32-33 states of the method: no test finds a true parent
independent, and given all true parents, every other is. Costs are whole numbers, as in
the model.

**CaptureConsumers** (`CaptureConsumersProofs`). `RequestsAnswersAreWhole`, for any
number of threads, requests, flows, page size and retries. What a composed behaviour
does to the requests is a behaviour of the service alone (`ComposedService`), and
four invariants of it are inductive together. `ServiceTyped`: the steps a handler has
left are a run of one plan that ends with the flows or three steps later with the
graph, so that how many are left says which is next. `Apart`: nothing runs beside a
handler that is alone, and all are until two overlap. `AllWhole`: whatever an earlier
or killed request left in the files and under the temporary names, one that is alone
has put behind it, step by step, packets that are whole, then directed packets, then
all flows; opening the temporary file truncates it, so that what is renamed is what
was written. A flow export is not normalized again, and its packets are whole only
until requests overlap: so the property says. `Listed`: the caller waits for a request
for the flows, and its items are the flows up to its offset; a page continues them
and ends the list only at its end. The proof assumes of the constants only what
`RequestsAssumption` says.

`PagesAreRight` is the same for the pages: for any captures, any number of clicks and
any order of answers and failures. The page is not enough for an induction: what is
still asked for must fit what is shown. Of the explorer (`ExplorerInv`): the position
is on the list, and not at its end while the play mode runs (`OnList`); a list is
asked for exactly while the page is loading, once, and for the capture that is to be
shown (`OneList`); graphs are asked for by one effect at a time, and for the capture in
the input field (`GraphsFit`); unless an effect is due or something failed, each
snapshot on the page has its graph or it is asked for (`GraphsCome`); and unless an
answer was overtaken too, the last request under way is that of the last effect, for
the snapshot on the page, or there is none and its changes are shown (`EventsCome`).
Of the attribution (`AttributionInv`): one attribution is asked for, that of the
selected dependency (`OneAsked`), the one on the page is too (`DataFits`), and the last
list asked for, or the one that is there, is of the loaded capture (`ListComes`). Each
click is an edit of the page and then the effect, which establishes the invariant from
what it finds (`Explorable`, `Attributable`), so that no action has to preserve all of
it. The proof assumes `PagesAssumption`.

`BucketAllowance`, `DaemonUnfinishedExact`, `DaemonCallsAccounted`,
`DaemonTwinNeverGoesBack`, `MonitoringActiveIsLatest`, `OneRunAtATime`,
`LabInvariant`, `StoreTyping` and `StoreCapturesOnQuorum` are proved; no run lists
them on their own.

**Only model-checked.** All liveness (fairness and ENABLED are out of the
prover's reach). The equality of streaming and batch
(`ReadIsBatch`, `AlertsAreVerdicts`, `EvidenceIsPooled`), the replay of histories
(`ArchiveIsCoherent`) and the flow export (`ExportIsFaithful`), whose operators
fold over sequences of packets.

## 6. Plan

What is left, in this order:

1. Proofs about the flow export, with the induction of `PathEngineProofs` for its
   folds.
2. Fingerprint evolution and attribution reports on top of `NetworkHistory`.
3. The other values of `--on-existing` in the run of `experiments`.

## 7. Not modelled

Floating-point statistics and trained models (the formulas of confidence and
strength, the correlations and p-values behind a search for causes, Shapley values, baselines, drift, classification, LSTM,
GNN, the bandit): no control to check, and their verdicts enter as inputs. Bytes
of packets and messages, formatting, most HTTP routes (they read and format),
telemetry, the language model behind questions and reports, the lab page and the
drawing of the frontend, lab simulator, benchmarks and scripts: I/O and
presentation. Credentials and tenants are only read by the
server. Timing lists of the statistics and log lines are left out of the modelled
components. `read_path` of the store is called by no route.
