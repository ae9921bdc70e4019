--------------------------- MODULE TwinSyncDaemon ---------------------------
(* TwinSyncDaemon of backend/digital_twin/daemon.py: callers submit network *)
(* snapshots into a bounded queue, one worker thread syncs the digital twin *)
(* to them, a controlling thread starts and stops the worker.               *)
(*                                                                          *)
(* An action is one stretch of a thread between two points where another    *)
(* thread can interfere: a critical section of self._lock, one operation of *)
(* queue.Queue (atomic under its own mutex), one test of an Event.  A       *)
(* snapshot is its captured_at; a fingerprint is the number of the          *)
(* submission that supplied it.  What a twin recomputes from disk (topology,*)
(* history, dependencies) is a function of its snapshot and is left out.    *)
(* The rate limiter's acquire() delays the worker between taking a batch    *)
(* and syncing it and changes nothing here; TokenBucket models it.          *)
EXTENDS Integers, Sequences, FiniteSets

CONSTANTS
    Producers,          \* threads that call submit
    Stamps,             \* captured_at of the snapshots submitted
    Keys,               \* the (node_id, window) keys of fingerprints
    MaxQueue,           \* max_queue
    Policy,             \* "block" or "reject"
    Coalesce,           \* coalesce
    MaxSubmissions,     \* bound: calls of submit
    Allowed             \* what the environment may do, from Circumstances

\* A sync raises; on_sync raises; submit has a timeout and it elapses; stop is
\* called; stop has a timeout and it elapses; submit is called during or after
\* a stop.
Circumstances ==
    {"sync_fails", "on_sync_raises", "put_timeout", "stop", "stop_timeout", "late_submit"}

ASSUME DaemonAssumption ==
    /\ IsFiniteSet(Producers)
    /\ Stamps \subseteq Nat
    /\ MaxQueue \in Nat \ {0}
    /\ Policy \in {"block", "reject"}
    /\ Coalesce \in BOOLEAN
    /\ MaxSubmissions \in Nat
    /\ Allowed \subseteq Circumstances

Items == [no : 1 .. MaxSubmissions, at : Stamps, keys : SUBSET Keys]
NoItem == [no |-> 0, at |-> 0, keys |-> {}]

VARIABLES
    queue,          \* _queue
    unfinished,     \* _queue.unfinished_tasks
    lastAccepted,   \* _last_accepted
    stats,          \* stats, without its timing lists
    twin,           \* _twin
    ppc,            \* where each producer is in submit
    item,           \* the _Item of each producer inside submit
    wpc,            \* where the worker is in _run
    batch,          \* the worker's batch, less the items already task_done
    spc,            \* where the controlling thread is in stop
    stopSet,        \* _stop
    offered,        \* history: calls of submit so far
    lost,           \* history: items of batches whose sync failed
    queuedAt        \* history: captured_at of the last item queued

producerVars == <<ppc, item, offered, lastAccepted, queuedAt>>
workerVars == <<wpc, batch, twin, lost>>
stopVars == <<spc, stopSet>>
vars == <<queue, unfinished, stats, producerVars, workerVars, stopVars>>

Counters ==
    {"submitted", "rejected_full", "rejected_out_of_order", "synced", "coalesced",
     "errors", "discarded_on_stop", "max_queue_depth"}

Init ==
    /\ queue = <<>>
    /\ unfinished = 0
    /\ lastAccepted = 0
    /\ stats = [c \in Counters |-> 0]
    /\ twin = [at |-> 0, fps |-> [k \in Keys |-> 0]]
    /\ ppc = [p \in Producers |-> "out"]
    /\ item = [p \in Producers |-> NoItem]
    /\ wpc = "unstarted"
    /\ batch = <<>>
    /\ spc = "out"
    /\ stopSet = FALSE
    /\ offered = 0
    /\ lost = 0
    /\ queuedAt = 0

Greater(a, b) == IF a >= b THEN a ELSE b
Count(c, n) == stats' = [stats EXCEPT ![c] = @ + n]

----------------------------------------------------------------------------
(* submit *)

MayCall(p) ==
    /\ ppc[p] = "out"
    /\ offered < MaxSubmissions
    /\ spc = "out" \/ "late_submit" \in Allowed

\* The gate refuses a snapshot older than the last one it let through.
RejectStale(p, at) ==
    /\ MayCall(p)
    /\ at < lastAccepted
    /\ Count("rejected_out_of_order", 1)
    /\ offered' = offered + 1
    /\ UNCHANGED <<queue, unfinished, ppc, item, lastAccepted, queuedAt, workerVars, stopVars>>

\* Mistaken form of Admit: no comparison with the last accepted snapshot.
AdmitUngated(p, at, keys) ==
    /\ MayCall(p)
    /\ lastAccepted' = at
    /\ item' = [item EXCEPT ![p] = [no |-> offered + 1, at |-> at, keys |-> keys]]
    /\ ppc' = [ppc EXCEPT ![p] = "put"]
    /\ offered' = offered + 1
    /\ UNCHANGED <<queue, unfinished, stats, queuedAt, workerVars, stopVars>>

\* The gate lets a snapshot through and moves on, before the queue has it.
Admit(p, at, keys) ==
    /\ MayCall(p)
    /\ at >= lastAccepted
    /\ lastAccepted' = at
    /\ item' = [item EXCEPT ![p] = [no |-> offered + 1, at |-> at, keys |-> keys]]
    /\ ppc' = [ppc EXCEPT ![p] = "put"]
    /\ offered' = offered + 1
    /\ UNCHANGED <<queue, unfinished, stats, queuedAt, workerVars, stopVars>>

\* Mistaken form of Put: the queue has no bound.
PutUnbounded(p) ==
    /\ ppc[p] = "put"
    /\ queue' = Append(queue, item[p])
    /\ unfinished' = unfinished + 1
    /\ queuedAt' = item[p].at
    /\ ppc' = [ppc EXCEPT ![p] = "accepted"]
    /\ UNCHANGED <<stats, item, offered, lastAccepted, workerVars, stopVars>>

\* Mistaken form of Put: the last slot is never used.
PutShort(p) ==
    /\ ppc[p] = "put"
    /\ Len(queue) < MaxQueue - 1
    /\ queue' = Append(queue, item[p])
    /\ unfinished' = unfinished + 1
    /\ queuedAt' = item[p].at
    /\ ppc' = [ppc EXCEPT ![p] = "accepted"]
    /\ UNCHANGED <<stats, item, offered, lastAccepted, workerVars, stopVars>>

\* put or put_nowait finds a free slot.
Put(p) ==
    /\ ppc[p] = "put"
    /\ Len(queue) < MaxQueue
    /\ queue' = Append(queue, item[p])
    /\ unfinished' = unfinished + 1
    /\ queuedAt' = item[p].at
    /\ ppc' = [ppc EXCEPT ![p] = "accepted"]
    /\ UNCHANGED <<stats, item, offered, lastAccepted, workerVars, stopVars>>

\* queue.Full: at once under "reject", when the timeout elapses under "block".
Full(p) ==
    /\ ppc[p] = "put"
    /\ Len(queue) >= MaxQueue
    /\ Policy = "reject" \/ "put_timeout" \in Allowed
    /\ ppc' = [ppc EXCEPT ![p] = "refused"]
    /\ UNCHANGED <<queue, unfinished, stats, item, offered, lastAccepted, queuedAt, workerVars, stopVars>>

\* Mistaken form of ReturnRefused: a refusal is not counted.
ReturnRefusedUncounted(p) ==
    /\ ppc[p] = "refused"
    /\ ppc' = [ppc EXCEPT ![p] = "out"]
    /\ UNCHANGED <<queue, unfinished, stats, item, offered, lastAccepted, queuedAt, workerVars, stopVars>>

ReturnRefused(p) ==
    /\ ppc[p] = "refused"
    /\ Count("rejected_full", 1)
    /\ ppc' = [ppc EXCEPT ![p] = "out"]
    /\ UNCHANGED <<queue, unfinished, item, offered, lastAccepted, queuedAt, workerVars, stopVars>>

\* The depth recorded is the one seen now, after the worker may have taken items.
ReturnAccepted(p) ==
    /\ ppc[p] = "accepted"
    /\ stats' = [stats EXCEPT !["submitted"] = @ + 1,
                              !["max_queue_depth"] = Greater(@, Len(queue))]
    /\ ppc' = [ppc EXCEPT ![p] = "out"]
    /\ UNCHANGED <<queue, unfinished, item, offered, lastAccepted, queuedAt, workerVars, stopVars>>

----------------------------------------------------------------------------
(* start and _run *)

Start ==
    /\ wpc = "unstarted"
    /\ wpc' = "check"
    /\ UNCHANGED <<queue, unfinished, stats, producerVars, batch, twin, lost, stopVars>>

\* Mistaken form of CheckStop: the loop condition ignores the stop flag.
CheckNothing ==
    /\ wpc = "check"
    /\ wpc' = "get"
    /\ UNCHANGED <<queue, unfinished, stats, producerVars, batch, twin, lost, stopVars>>

\* The loop condition of _run.
CheckStop ==
    /\ wpc = "check"
    /\ wpc' = IF stopSet THEN "exited" ELSE "get"
    /\ UNCHANGED <<queue, unfinished, stats, producerVars, batch, twin, lost, stopVars>>

\* Mistaken form of Get: task_done as soon as the item is taken.
GetMarksDone ==
    /\ wpc = "get"
    /\ queue # <<>>
    /\ batch' = <<Head(queue)>>
    /\ queue' = Tail(queue)
    /\ unfinished' = unfinished - 1
    /\ wpc' = IF Coalesce THEN "coalesce" ELSE "sync"
    /\ UNCHANGED <<stats, producerVars, twin, lost, stopVars>>

\* get(timeout=0.02) returns an item.
Get ==
    /\ wpc = "get"
    /\ queue # <<>>
    /\ batch' = <<Head(queue)>>
    /\ queue' = Tail(queue)
    /\ wpc' = IF Coalesce THEN "coalesce" ELSE "sync"
    /\ UNCHANGED <<unfinished, stats, producerVars, twin, lost, stopVars>>

\* get finds nothing until its timeout.
GetTimeout ==
    /\ wpc = "get"
    /\ queue = <<>>
    /\ wpc' = "check"
    /\ UNCHANGED <<queue, unfinished, stats, producerVars, batch, twin, lost, stopVars>>

\* get_nowait takes one more item into the batch.
TakeMore ==
    /\ wpc = "coalesce"
    /\ queue # <<>>
    /\ batch' = Append(batch, Head(queue))
    /\ queue' = Tail(queue)
    /\ UNCHANGED <<unfinished, stats, producerVars, wpc, twin, lost, stopVars>>

BatchComplete ==
    /\ wpc = "coalesce"
    /\ queue = <<>>
    /\ wpc' = "sync"
    /\ UNCHANGED <<queue, unfinished, stats, producerVars, batch, twin, lost, stopVars>>

\* Mistaken form of Merged: the first supplier in the batch wins.
MergedOldestWins(k) ==
    LET suppliers == {i \in 1 .. Len(batch) : k \in batch[i].keys}
    IN  IF suppliers = {} THEN twin.fps[k]
        ELSE LET first == CHOOSE i \in suppliers : \A j \in suppliers : i <= j
             IN  batch[first].no

\* The merged fingerprints of _process over the twin's own: per key the last
\* supplier in the batch, the twin's where the batch supplies none.
Merged(k) ==
    LET suppliers == {i \in 1 .. Len(batch) : k \in batch[i].keys}
    IN  IF suppliers = {} THEN twin.fps[k]
        ELSE LET last == CHOOSE i \in suppliers : \A j \in suppliers : i >= j
             IN  batch[last].no

\* Mistaken form of SyncSucceeds: coalesced counts the synced item too.
SyncCountsAll ==
    /\ wpc = "sync"
    /\ twin' = [at |-> batch[Len(batch)].at, fps |-> [k \in Keys |-> Merged(k)]]
    /\ stats' = [stats EXCEPT !["synced"] = @ + 1, !["coalesced"] = @ + Len(batch)]
    /\ wpc' = "on_sync"
    /\ UNCHANGED <<queue, unfinished, producerVars, batch, lost, stopVars>>

\* sync_digital_twin returns: the new twin and the counters, under the lock.
SyncSucceeds ==
    /\ wpc = "sync"
    /\ twin' = [at |-> batch[Len(batch)].at, fps |-> [k \in Keys |-> Merged(k)]]
    /\ stats' = [stats EXCEPT !["synced"] = @ + 1, !["coalesced"] = @ + Len(batch) - 1]
    /\ wpc' = "on_sync"
    /\ UNCHANGED <<queue, unfinished, producerVars, batch, lost, stopVars>>

\* Mistaken form of SyncFails: the batch is kept and tried again.
SyncFailsRetried ==
    /\ wpc = "sync"
    /\ "sync_fails" \in Allowed
    /\ wpc' = "coalesce"
    /\ UNCHANGED <<queue, unfinished, stats, producerVars, batch, twin, lost, stopVars>>

\* sync_digital_twin raises: one error, the twin stays, the batch is not retried.
SyncFails ==
    /\ wpc = "sync"
    /\ "sync_fails" \in Allowed
    /\ Count("errors", 1)
    /\ lost' = lost + Len(batch)
    /\ wpc' = "finish"
    /\ UNCHANGED <<queue, unfinished, producerVars, batch, twin, stopVars>>

OnSyncReturns ==
    /\ wpc = "on_sync"
    /\ wpc' = "finish"
    /\ UNCHANGED <<queue, unfinished, stats, producerVars, batch, twin, lost, stopVars>>

\* on_sync raises outside the try of _process: the exception leaves _run.
OnSyncRaises ==
    /\ wpc = "on_sync"
    /\ "on_sync_raises" \in Allowed
    /\ wpc' = "unwind"
    /\ UNCHANGED <<queue, unfinished, stats, producerVars, batch, twin, lost, stopVars>>

\* Mistaken form of TaskDone: one task_done for the whole batch.
TaskDoneOnce ==
    /\ wpc \in {"finish", "unwind"}
    /\ batch # <<>>
    /\ batch' = <<>>
    /\ unfinished' = unfinished - 1
    /\ UNCHANGED <<queue, stats, producerVars, wpc, twin, lost, stopVars>>

\* The finally clause, one task_done per item, with or without an exception.
TaskDone ==
    /\ wpc \in {"finish", "unwind"}
    /\ batch # <<>>
    /\ batch' = Tail(batch)
    /\ unfinished' = unfinished - 1
    /\ UNCHANGED <<queue, stats, producerVars, wpc, twin, lost, stopVars>>

BatchDone ==
    /\ wpc \in {"finish", "unwind"}
    /\ batch = <<>>
    /\ wpc' = IF wpc = "finish" THEN "check" ELSE "dead"
    /\ UNCHANGED <<queue, unfinished, stats, producerVars, batch, twin, lost, stopVars>>

----------------------------------------------------------------------------
(* stop *)

\* stop(drain=...) is called; it drains only what a started worker can process.
StopCalled(drain) ==
    /\ "stop" \in Allowed
    /\ spc \in {"out", "stopped"}
    /\ spc' = IF drain /\ wpc # "unstarted" THEN "join_queue" ELSE "set"
    /\ UNCHANGED <<queue, unfinished, stats, producerVars, workerVars, stopSet>>

JoinQueue ==
    /\ spc = "join_queue"
    /\ unfinished = 0 \/ "stop_timeout" \in Allowed
    /\ spc' = "set"
    /\ UNCHANGED <<queue, unfinished, stats, producerVars, workerVars, stopSet>>

SetStop ==
    /\ spc = "set"
    /\ stopSet' = TRUE
    /\ spc' = IF wpc = "unstarted" THEN "discard" ELSE "join_thread"
    /\ UNCHANGED <<queue, unfinished, stats, producerVars, workerVars>>

\* Mistaken form of JoinThread: stop does not wait for the worker.
JoinNothing ==
    /\ spc = "join_thread"
    /\ spc' = "discard"
    /\ UNCHANGED <<queue, unfinished, stats, producerVars, workerVars, stopSet>>

JoinThread ==
    /\ spc = "join_thread"
    /\ wpc \in {"exited", "dead"} \/ "stop_timeout" \in Allowed
    /\ spc' = "discard"
    /\ UNCHANGED <<queue, unfinished, stats, producerVars, workerVars, stopSet>>

\* One turn of the loop that empties the queue: get_nowait, the count, task_done.
\* In between the item is in stop's hand.
DiscardTakes ==
    /\ spc = "discard"
    /\ queue # <<>>
    /\ queue' = Tail(queue)
    /\ spc' = "taken"
    /\ UNCHANGED <<unfinished, stats, producerVars, workerVars, stopSet>>

DiscardCounts ==
    /\ spc = "taken"
    /\ Count("discarded_on_stop", 1)
    /\ spc' = "counted"
    /\ UNCHANGED <<queue, unfinished, producerVars, workerVars, stopSet>>

DiscardDone ==
    /\ spc = "counted"
    /\ unfinished' = unfinished - 1
    /\ spc' = "discard"
    /\ UNCHANGED <<queue, stats, producerVars, workerVars, stopSet>>

StopReturns ==
    /\ spc = "discard"
    /\ queue = <<>>
    /\ spc' = "stopped"
    /\ UNCHANGED <<queue, unfinished, stats, producerVars, workerVars, stopSet>>

----------------------------------------------------------------------------
Submit(p) ==
    \/ \E at \in Stamps : RejectStale(p, at) \/ \E keys \in SUBSET Keys : Admit(p, at, keys)
    \/ Put(p) \/ Full(p) \/ ReturnRefused(p) \/ ReturnAccepted(p)

Worker ==
    \/ CheckStop \/ Get \/ GetTimeout \/ TakeMore \/ BatchComplete
    \/ SyncSucceeds \/ SyncFails \/ OnSyncReturns \/ OnSyncRaises \/ TaskDone \/ BatchDone

Stopping ==
    \/ JoinQueue \/ SetStop \/ JoinThread
    \/ DiscardTakes \/ DiscardCounts \/ DiscardDone \/ StopReturns

Next ==
    \/ \E p \in Producers : Submit(p)
    \/ Start \/ Worker
    \/ \E drain \in BOOLEAN : StopCalled(drain)
    \/ Stopping

\* The threads are scheduled: a started worker runs, a call of submit that can
\* go on goes on, and so does a call of stop.  Nothing makes anyone call submit,
\* start or stop, and a put competes for a slot without priority.
Fairness ==
    /\ WF_vars(Worker) /\ WF_vars(Stopping)
    /\ \A p \in Producers :
        WF_vars(Put(p) \/ Full(p) \/ ReturnRefused(p) \/ ReturnAccepted(p))

Safety == Init /\ [][Next]_vars
Spec == Safety /\ Fairness

----------------------------------------------------------------------------
Places == {"out", "put", "accepted", "refused"}
WorkerPlaces ==
    {"unstarted", "check", "get", "coalesce", "sync", "on_sync", "finish", "unwind",
     "exited", "dead"}
Discarding == {"discard", "taken", "counted"}
StopPlaces == {"out", "join_queue", "set", "join_thread", "stopped"} \cup Discarding

QueueOK ==
    /\ queue \in Seq(Items)
    /\ Len(queue) <= MaxQueue
    /\ unfinished \in Nat
StatsOK ==
    /\ stats \in [Counters -> Nat]
    /\ stats["max_queue_depth"] <= MaxQueue
SubmitOK ==
    /\ lastAccepted \in Nat
    /\ queuedAt \in Nat
    /\ offered \in 0 .. MaxSubmissions
    /\ ppc \in [Producers -> Places]
    /\ item \in [Producers -> Items \cup {NoItem}]
    /\ \A p \in Producers : ppc[p] = "put" => item[p] \in Items
WorkerOK ==
    /\ wpc \in WorkerPlaces
    /\ batch \in Seq(Items)
    /\ wpc \in {"coalesce", "sync", "on_sync"} => batch # <<>>
    /\ wpc \in {"unstarted", "check", "get", "exited", "dead"} => batch = <<>>
    /\ twin \in [at : Nat, fps : [Keys -> Nat]]
    /\ lost \in Nat
StopOK ==
    /\ spc \in StopPlaces
    /\ stopSet \in BOOLEAN

\* The queue and the depth recorded never exceed max_queue; the worker never
\* processes an empty batch.
TypeOK == QueueOK /\ StatsOK /\ SubmitOK /\ WorkerOK /\ StopOK

\* What the worker holds and has not yet synced or given up.
Unsettled == IF wpc \in {"coalesce", "sync"} THEN batch ELSE <<>>

\* Accepted snapshots whose fate is decided.
Settled == stats["synced"] + stats["coalesced"] + lost + stats["discarded_on_stop"]

At(place) == {p \in Producers : ppc[p] = place}

\* Items that stop took from the queue and has not yet marked done.
InStopsHand == IF spc \in {"taken", "counted"} THEN 1 ELSE 0

\* Those of them that it has not counted either.
Uncounted == IF spc = "taken" THEN 1 ELSE 0

\* The sum wait_idle and stop(drain=True) rely on: the queue's count of
\* unfinished tasks is what is queued plus what the worker and stop still hold,
\* under every interleaving of put, get, the worker's task_done and stop's.
UnfinishedExact == unfinished = Len(queue) + Len(batch) + InStopsHand

\* No accepted snapshot is lost or counted twice: what submit accepted is
\* queued, held by the worker, synced, folded into a sync, dropped with a
\* failed batch, discarded by stop or about to be counted so.
AcceptedAccounted ==
    stats["submitted"] + Cardinality(At("accepted"))
        = Len(queue) + Len(Unsettled) + Uncounted + Settled

\* "A refused submission is counted, never silently dropped": every call of
\* submit is counted once it returns, as accepted or as refused.
CallsAccounted ==
    offered = stats["submitted"] + stats["rejected_full"] + stats["rejected_out_of_order"]
                + Cardinality(Producers \ At("out"))

\* wait_idle "blocks until every accepted submission has been processed": when
\* it sees no unfinished task, nothing accepted is waiting anywhere.
WaitIdleIsSound ==
    unfinished = 0 =>
        stats["submitted"] + Cardinality(At("accepted")) = Settled

\* With one producer the snapshots stay in captured_at order from the gate to
\* the twin: none the worker holds is newer than one still queued, and none is
\* older than the twin.  It fails for two producers (see SyncsToTheNewest).
OneProducerOrder ==
    /\ twin.at <= lastAccepted
    /\ \A p \in At("put") : item[p].at = lastAccepted
    /\ \A i \in 1 .. Len(queue) : twin.at <= queue[i].at /\ queue[i].at <= lastAccepted
    /\ \A i, j \in 1 .. Len(queue) : i <= j => queue[i].at <= queue[j].at
    /\ \A i \in 1 .. Len(Unsettled) :
        twin.at <= Unsettled[i].at /\ Unsettled[i].at <= lastAccepted
    /\ \A i, j \in 1 .. Len(Unsettled) : i <= j => Unsettled[i].at <= Unsettled[j].at
    /\ \A i \in 1 .. Len(Unsettled), j \in 1 .. Len(queue) : Unsettled[i].at <= queue[j].at

\* With one producer the twin never goes back in time, whatever is refused,
\* coalesced, failed or discarded.
TwinNeverGoesBack == [][twin'.at >= twin.at]_vars

\* After stop returned (with no timeout) no sync changes the twin any more.
NoSyncAfterStop == [][spc = "stopped" => UNCHANGED twin]_vars

\* Coalescing reaches the twin of syncing one step at a time, and accepted
\* snapshots reach the twin in the order of the queue: the daemon implements
\* SnapshotFeed.
Feed == INSTANCE SnapshotFeed WITH pending <- Unsettled \o queue
ImplementsFeed == Feed!Spec

Held(n) ==
    \/ \E i \in 1 .. Len(queue) : queue[i].no = n
    \/ \E i \in 1 .. Len(Unsettled) : Unsettled[i].no = n

WorkerGone == wpc \in {"exited", "dead"}
NoWorker == WorkerGone \/ wpc = "unstarted"

\* Every snapshot in the queue is eventually synced or dropped by a failed
\* sync, unless the daemon is not started, is stopped or a callback kills its
\* worker.
AcceptedSettles == \A n \in 1 .. MaxSubmissions : Held(n) ~> ~Held(n) \/ NoWorker

\* A submit call returns: a blocked producer is not forgotten while there is a
\* worker to make room.
SubmitReturns == \A p \in Producers : (ppc[p] # "out") ~> (ppc[p] = "out" \/ NoWorker)

\* A stop past its wait for the queue returns, even when a callback has killed
\* the worker.
StopTerminates == (spc \in {"set", "join_thread"} \cup Discarding) ~> (spc = "stopped")

\* The wait of stop(drain=True) ends as long as there is a worker: one killed by
\* a callback, or stopped before, leaves it waiting for what is still queued.
DrainTerminates ==
    (spc = "join_queue") ~> (spc # "join_queue" \/ WorkerGone)

\* Nobody who calls the daemon waits for ever: producers, a stop past its wait,
\* and the wait itself.
CallsReturn == SubmitReturns /\ StopTerminates /\ DrainTerminates

----------------------------------------------------------------------------
(* What the documentation says and the code does not do; see README. *)

\* "It syncs once to the newest snapshot" of the batch.
SyncsToTheNewest == [][SyncSucceeds => \A i \in 1 .. Len(batch) : batch[i].at <= twin'.at]_vars

\* submit refuses a snapshot that "is older than the last accepted one".
StaleMeansOlderThanAccepted ==
    [][\A p \in Producers, at \in Stamps : RejectStale(p, at) => at < queuedAt]_vars

\* A stopped daemon has processed or discarded everything it accepted.
StoppedMeansSettled ==
    spc = "stopped" /\ wpc \in {"exited", "dead"} /\ At("out") = Producers => queue = <<>>
=============================================================================
