---------------------------- MODULE SnapshotFeed ----------------------------
(* What the twin synchronization daemon promises, without its threads: the  *)
(* twin moves along the accepted snapshots in the order they were accepted, *)
(* one at a time, each replacing the snapshot and the fingerprints it       *)
(* carries.  A failed sync or a stop drops accepted snapshots; nothing else *)
(* changes the twin.                                                        *)
EXTENDS Naturals, Sequences

CONSTANT Items      \* what can be accepted: records with fields no, at, keys

VARIABLES
    pending,        \* accepted snapshots the twin has not moved past, in order
    twin            \* the twin: [at, fps], fps naming the submission per key

\* One step of sync_digital_twin: the twin is rebuilt at the new snapshot, and
\* a fingerprint not supplied again is carried forward.
Step(t, item) ==
    [at |-> item.at,
     fps |-> [k \in DOMAIN t.fps |-> IF k \in item.keys THEN item.no ELSE t.fps[k]]]

\* The twin after the first n pending snapshots, one sync after another.
After(n) ==
    LET walk[i \in 0 .. n] == IF i = 0 THEN twin ELSE Step(walk[i - 1], pending[i])
    IN  walk[n]

Init == pending = <<>>

Accept == \E item \in Items : pending' = Append(pending, item) /\ UNCHANGED twin

\* Several snapshots may be passed at once (coalescing), with the twin of
\* taking them one at a time.
Advance ==
    \E n \in 1 .. Len(pending) :
        /\ twin' = After(n)
        /\ pending' = SubSeq(pending, n + 1, Len(pending))

\* A run of pending snapshots is given up: the batch of a failed sync, or one
\* queued snapshot that stop discards.
Drop ==
    \E i \in 1 .. Len(pending) : \E j \in i .. Len(pending) :
        /\ pending' = SubSeq(pending, 1, i - 1) \o SubSeq(pending, j + 1, Len(pending))
        /\ UNCHANGED twin

Next == Accept \/ Advance \/ Drop

Spec == Init /\ [][Next]_<<pending, twin>>
=============================================================================
