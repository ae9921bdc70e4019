------------------------ MODULE ReplicatedStoreProofs ------------------------
(***************************************************************************)
(* What replication, verify and repair promise, for any instances, files,  *)
(* kinds of request and numbers of requests, crashes and damaged copies.   *)
(*                                                                         *)
(* Three invariants hold whatever overlaps: Grounded (a record, a hash or  *)
(* a held copy is of something its root has, and what was stored once      *)
(* never goes missing), Vouched (a marker without its data is one that a   *)
(* repair was handing around) and WrittenOnceOnly.  The others are about   *)
(* what holds as long as requests and repairs came one at a time: then a   *)
(* commit carries exactly what its root holds (Mirrored) and a repair      *)
(* hands on what its source has (HandedOn), so that what was acknowledged  *)
(* is everywhere (AckedHeld), and with it, for files that are never        *)
(* rewritten, a record that tells the one damaged copy from the good ones  *)
(* (Kept); Healing says how far a startup repair has come.                 *)
(***************************************************************************)
EXTENDS ReplicatedStoreSteps

Committing == {"recording", "replicating", "copying"}
Replicating == {"replicating", "copying"}

-----------------------------------------------------------------------------
(* The hypotheses. *)

\* No root is listed twice or mirrors to itself, and the quorum can be reached.
Attainable ==
    \A i \in Instances : /\ NoRepeats(Replicas[i]) /\ i \notin Among(Replicas[i])
                         /\ MinReplicas[i] <= Cardinality(Among(Replicas[i]))

\* No request writes a file twice that is not to be rewritten.
OncePerRequest ==
    \A k \in Kinds : \A m, n \in DOMAIN Writes[k] :
       Writes[k][m] = Writes[k][n] /\ Writes[k][m] \notin Rewritten => m = n

\* A marker is written after the data it vouches for, or by a request that
\* found them in place.
DataBefore(s, have) ==
    \A m \in DOMAIN s : s[m] \in Markers =>
       \A f \in Vouches[s[m]] : f \in have \/ \E n \in DOMAIN s : n < m /\ s[n] = f
VouchedFirst ==
    /\ \A m \in Markers : Vouches[m] \subseteq Files \ Markers
    /\ \A k \in Kinds : DataBefore(Writes[k], Needs[k])

\* Every instance mirrors to all the others.
AllMirror == \A i \in Instances : Required(i) = Instances

\* And a commit counts only when it reached all of them (min_replicas = 0).
AllCount == \A i \in Instances : MinReplicas[i] = Cardinality(Among(Replicas[i]))

\* There are two copies at least, and one of them is damaged at most once, while
\* the instance that owns it is down.
OneDamage == /\ MaxRot <= 1 /\ "rot_live" \notin Allowed
             /\ \A i \in Instances : \E j \in Instances : j # i

-----------------------------------------------------------------------------
(* The invariants. *)

Real(c) == c.v = 0 => c.ok

\* A job of an instance h carries what its root has: its files are in place there
\* and hashed, and the replica it is at has those it is done with.
JobGrounded(h, j) ==
    /\ \A f \in Files : /\ j.wrote[f] <= newest[f] /\ (j.wrote[f] > 0 => Has(h, f))
                        /\ Real(j.hashes[f]) /\ (j.hashes[f] # Missing => Has(h, f))
    /\ j.pc \in Committing =>
          /\ DataFirst(j.rels)
          /\ \A f \in Among(j.rels) : j.hashes[f] # Missing
          /\ \A f \in Files : j.wrote[f] > 0 => f \in Among(j.rels)
    /\ j.pc \in Replicating =>
          /\ DataFirst(j.todo) /\ Among(j.todo) \subseteq Among(j.rels)
          /\ Among(j.left) \subseteq Among(Replicas[h]) /\ NoRepeats(j.left)
          /\ j.left # <<>> => \A f \in Among(j.rels) \ Among(j.todo) : Has(Head(j.left), f)
    /\ j.pc = "copying" =>
          j.held # Missing /\ Real(j.held) /\ j.held.v <= newest[Head(j.todo)]

\* A repair of an instance i knows what is there: its records are of files their
\* roots have; the file it hands around is where it takes it from, and on the roots
\* it is done with.
FixGrounded(i, x) ==
    /\ \A r \in Instances, f \in Files :
          Real(x.recs[r][f]) /\ (x.recs[r][f] # Missing => Has(r, f))
    /\ x.over = <<>> => x.held = Missing
    /\ x.over # <<>> => x.todo # <<>>
    /\ \A f \in Files : x.over # <<>> /\ f = Head(x.todo) =>
          /\ Has(x.from, f) /\ Real(x.hash) /\ x.hash # Missing
          /\ \A r \in Required(i) \ Among(x.over) : Has(r, f)
          /\ x.held # Missing => Real(x.held) /\ x.held.v <= newest[f]

Grounded ==
    /\ \A r \in Instances, f \in Files :
          /\ Real(disk[r][f]) /\ disk[r][f].v <= newest[f]
          /\ Real(recs[r][f]) /\ (recs[r][f] # Missing => Has(r, f))
          /\ acked[r][f] <= newest[f]
    /\ \A i \in Instances : FixGrounded(i, fix[i])
    /\ \A w \in Workers : JobGrounded(Home[w], job[w])

\* The roots that the commit j went through, and has left with all its files.
Done(h, j) == {r \in Among(Replicas[h]) \ Among(j.left) : \A f \in Among(j.rels) : Has(r, f)}

\* reached counts no other.
ReachedDone == \A w \in Workers :
    /\ job[w].pc \in {"writing", "recording"} => job[w].reached = 0
    /\ job[w].pc \in Replicating => job[w].reached <= Cardinality(Done(Home[w], job[w]))

\* A file that is not Rewritten is in the hands of one request, once, and of none
\* after it was written.
OnceIn(s) == \A m, n \in DOMAIN s : s[m] = s[n] /\ s[m] \notin Rewritten => m = n
WrittenOnceOnly ==
    /\ \A f \in Files \ Rewritten : newest[f] <= 1
    /\ \A w \in Workers : job[w].pc = "writing" =>
          OnceIn(job[w].todo) /\ \A f \in Among(job[w].todo) \ Rewritten : newest[f] = 0
    /\ \A w, x \in Workers : w # x /\ job[w].pc = "writing" /\ job[x].pc = "writing" =>
          Among(job[w].todo) \cap Among(job[x].todo) \subseteq Rewritten

\* Of what was acknowledged there is some version on its own root and on a quorum.
AckedThere == \A i \in Instances, f \in Files : acked[i][f] > 0 =>
    Has(i, f) /\ MinReplicas[i] <= Cardinality({r \in Among(Replicas[i]) : Has(r, f)})

\* Until two requests or repairs overlap, there is one at a time.
Alone ==
    overlapped \/ /\ \A w, x \in Workers : job[w].pc # "idle" /\ job[x].pc # "idle" => w = x
                  /\ \A i, j \in Instances : up[i] = "repairing" /\ up[j] = "repairing" => i = j
                  /\ \A w \in Workers, i \in Instances :
                        ~(job[w].pc # "idle" /\ up[i] = "repairing")

\* The roots that are left with exactly what the commit's own root has.
Same(h, j) == {r \in Among(Replicas[h]) \ Among(j.left) :
                 \A f \in Among(j.rels) : disk[r][f] = disk[h][f] /\ recs[r][f] = j.hashes[f]}

\* A job that is alone carries what its root has, as it is.
JobMirrors(h, j) ==
    /\ j.pc # "idle" => \A f \in Files : j.wrote[f] > 0 =>
          disk[h][f].ok /\ j.wrote[f] <= disk[h][f].v
    /\ j.pc \in Committing => \A f \in Files :
          j.hashes[f] = IF f \in Among(j.rels) THEN disk[h][f] ELSE recs[h][f]
    /\ j.pc \in Replicating =>
          /\ \A f \in Files : recs[h][f] = j.hashes[f]
          /\ j.left # <<>> => \A f \in Among(j.rels) \ Among(j.todo) :
                                 disk[Head(j.left)][f] = disk[h][f]
          /\ j.reached <= Cardinality(Same(h, j))
    /\ j.pc = "copying" => j.held = disk[h][Head(j.todo)]

Mirrored == overlapped \/ \A w \in Workers : JobMirrors(Home[w], job[w])

\* A repair x that is alone hands on what its source has: no copy that is still to be
\* looked at is newer, unless it was bad, and the roots it is done with have it.
HandsOn(x) == \A f \in Files : x.over # <<>> /\ f = Head(x.todo) =>
    /\ x.hash = disk[x.from][f] /\ x.held \in {Missing, x.hash}
    /\ \A r \in Instances :
          IF r \in Among(x.over) THEN disk[r][f].v <= x.hash.v \/ r \in x.bad
                                 ELSE disk[r][f].v = x.hash.v /\ x.recs[r][f] = x.hash

HandedOn == overlapped \/ \A i \in Instances : up[i] = "repairing" => HandsOn(fix[i])

\* What was acknowledged, or something newer, is on every root and in its records.
AckedHeld ==
    overlapped \/ \A i, r \in Instances, f \in Files :
       /\ acked[i][f] <= disk[r][f].v /\ acked[i][f] <= recs[r][f].v
       /\ \A j \in Instances : up[j] = "repairing" => acked[i][f] <= fix[j].recs[r][f].v

\* Nothing is damaged, and no damage is recorded, before the medium damages something.
SoundUntilRot ==
    rots = 0 => /\ \A r \in Instances, f \in Files :
                      /\ disk[r][f].ok /\ recs[r][f].ok
                      /\ \A i \in Instances : fix[i].recs[r][f].ok
                /\ \A i \in Instances : fix[i].hash.ok /\ fix[i].held.ok
                /\ \A w \in Workers : job[w].held.ok /\ \A f \in Files : job[w].hashes[f].ok

Whole == [v |-> 1, ok |-> TRUE]
Known(f) == f \notin Rewritten /\ \E i \in Instances : acked[i][f] > 0

\* Of a known file every record is right, at most one copy is damaged, and its
\* root does not serve; a repair knows it for bad and restores it when it comes to
\* the file.
KeptFile(f) ==
    /\ \A r \in Instances : /\ recs[r][f] = Whole
                            /\ ~disk[r][f].ok => up[r] # "up"
    /\ \A r, s \in Instances : ~disk[r][f].ok /\ ~disk[s][f].ok => r = s
    /\ \A i \in Instances : up[i] = "repairing" =>
          /\ \A r \in Instances : fix[i].recs[r][f] = Whole
          /\ f \notin Among(fix[i].todo) => \A r \in Instances : disk[r][f].ok
          /\ fix[i].over # <<>> /\ f = Head(fix[i].todo) =>
                /\ fix[i].hash = Whole
                /\ \A r \in Instances :
                      ~disk[r][f].ok => r \in Among(fix[i].over) /\ r \in fix[i].bad

Kept == overlapped \/ \A f \in Files : Known(f) => KeptFile(f)

\* A repair x that is alone: what it is done with is the same everywhere, and the
\* records it wrote back are those it holds.
Heals(x) ==
    /\ \A f \in Files \ (Among(x.todo) \cup x.lost) : \A r, s \in Instances :
          /\ disk[r][f].v = disk[s][f].v
          /\ rots = 0 => x.recs[r][f] \in {Missing, disk[r][f]}
    /\ \A r \in Instances \ Among(x.left) : \A f \in Files : recs[r][f] = x.recs[r][f]
    /\ x.todo # <<>> => Among(x.left) = Instances

Healing == overlapped \/ \A i \in Instances : up[i] = "repairing" => Heals(fix[i])

\* A marker is on a root only with its data, unless a repair hands it around, or was
\* killed over that with a third root still without it, or has brought it everywhere.
Everywhere(m) == \A r \in Instances : Has(r, m)
Brought(m) == Everywhere(m) \/ (ThirdRoot /\ m \in halfway)
VouchedJob(h, j) ==
    /\ j.pc = "writing" => DataBefore(j.todo, FilesUnder(h))
    /\ j.pc \in Committing => \A m \in Among(j.rels) \cap Markers :
                                 Brought(m) \/ Vouches[m] \subseteq Among(j.rels)
HalfwayWith(x) == \A f \in Files : x.over # <<>> /\ f = Head(x.todo) =>
                                   f \in halfway \/ Everywhere(f)
Vouched ==
    /\ \A m \in Markers : Brought(m) \/ \A r \in Instances :
          Has(r, m) => \A f \in Vouches[m] : Has(r, f)
    /\ \A i \in Instances : HalfwayWith(fix[i])
    /\ \A w \in Workers : VouchedJob(Home[w], job[w])

-----------------------------------------------------------------------------
(* Type correctness.                                                       *)

\* Type correctness, taken apart in the next state.
LEMMA TypedAfter ==
    ASSUME TypeOK'
    PROVE  /\ job' \in [Workers -> Jobs] /\ fix' \in [Instances -> Fixes]
           /\ disk' \in [Instances -> [Files -> Content]]
           /\ recs' \in [Instances -> [Files -> Content]]
           /\ newest' \in [Files -> 0..MaxVersion]
           /\ acked' \in [Instances -> [Files -> 0..MaxVersion]]
           /\ \A w \in Workers :
                 /\ job'[w] \in Jobs /\ job'[w].todo \in Seq(Files) /\ job'[w].rels \in Seq(Files)
                 /\ job'[w].left \in Seq(Instances) /\ job'[w].reached \in Nat
                 /\ job'[w].held \in Content /\ job'[w].hashes \in [Files -> Content]
                 /\ job'[w].wrote \in [Files -> 0..MaxVersion]
                 /\ job'[w].pc \in {"idle", "writing", "recording", "replicating", "copying"}
                 /\ job'[w].pc = "copying" => job'[w].todo # <<>> /\ job'[w].left # <<>>
<1>1. job' \in [Workers -> Jobs] /\ fix' \in [Instances -> Fixes]
  BY DEF TypeOK, Jobs, Fixes
<1>2. \A w \in Workers :
         /\ job'[w] \in Jobs /\ job'[w].todo \in Seq(Files) /\ job'[w].rels \in Seq(Files)
         /\ job'[w].left \in Seq(Instances) /\ job'[w].reached \in Nat
         /\ job'[w].held \in Content /\ job'[w].hashes \in [Files -> Content]
         /\ job'[w].wrote \in [Files -> 0..MaxVersion]
         /\ job'[w].pc \in {"idle", "writing", "recording", "replicating", "copying"}
  BY <1>1 DEF Jobs
<1>3. \A w \in Workers : job'[w].pc = "copying" => job'[w].todo # <<>> /\ job'[w].left # <<>>
  BY DEF TypeOK
<1> QED
  BY <1>1, <1>2, <1>3 DEF TypeOK

\* Requests, commits, repairs, crashes and decay keep every variable in its type.
THEOREM StoreTyping == Spec => []TypeOK
<1>1. Init => TypeOK
  BY InitTyped
<1>2. TypeOK /\ [Next]_vars => TypeOK'
  BY StepTyped
<1> QED
  BY <1>1, <1>2, PTL DEF Spec

-----------------------------------------------------------------------------
(* Which steps change what.                                                *)

LEMMA DiskChanges ==
    ASSUME [Next]_vars
    PROVE  \/ UNCHANGED <<disk, newest>>
           \/ \E w \in Workers : WriteFile(w) \/ Copy(w)
           \/ \E i \in Instances : RepairFile(i)
           \/ \E r \in Instances, f \in Files : Rot(r, f)
<1>1. ASSUME NEW w \in Workers, Serve(w)
      PROVE  UNCHANGED <<disk, newest>> \/ WriteFile(w) \/ Copy(w)
  BY <1>1 DEF Serve, Receive, StartCommit, WriteRecords, Compare, Merge, ReplicaFails,
              PrimaryFails, Answer
<1>2. ASSUME NEW i \in Instances, Crash(i) \/ Restart(i) \/ RepairRecords(i)
      PROVE  UNCHANGED <<disk, newest>>
  BY <1>2 DEF Crash, Restart, RepairRecords
<1> QED
  BY <1>1, <1>2 DEF Next, vars

LEMMA RecsChange ==
    ASSUME [Next]_vars
    PROVE  \/ UNCHANGED recs
           \/ \E w \in Workers : WriteRecords(w) \/ Merge(w)
           \/ \E i \in Instances : RepairRecords(i)
<1>1. ASSUME NEW w \in Workers, Serve(w)
      PROVE  UNCHANGED recs \/ WriteRecords(w) \/ Merge(w)
  BY <1>1 DEF Serve, Receive, WriteFile, StartCommit, Compare, Copy, ReplicaFails,
              PrimaryFails, Answer
<1>2. ASSUME NEW i \in Instances, Crash(i) \/ Restart(i) \/ RepairFile(i)
      PROVE  UNCHANGED recs
  BY <1>2 DEF Crash, Restart, RepairFile, ExamineFile, PassCopy, OpenSource, ReplaceCopy
<1>3. ASSUME NEW r \in Instances, NEW f \in Files, Rot(r, f)
      PROVE  UNCHANGED recs
  BY <1>3 DEF Rot
<1> QED
  BY <1>1, <1>2, <1>3 DEF Next, vars

LEMMA AckedChanges ==
    ASSUME [Next]_vars
    PROVE  UNCHANGED acked \/ \E w \in Workers : Answer(w)
<1>1. ASSUME NEW w \in Workers, Serve(w)
      PROVE  UNCHANGED acked \/ Answer(w)
  BY <1>1 DEF Serve, Receive, WriteFile, StartCommit, WriteRecords, Compare, Copy, Merge,
              ReplicaFails, PrimaryFails
<1>2. ASSUME NEW i \in Instances, Crash(i) \/ Restart(i) \/ RepairFile(i) \/ RepairRecords(i)
      PROVE  UNCHANGED acked
  BY <1>2 DEF Crash, Restart, RepairFile, ExamineFile, PassCopy, OpenSource, ReplaceCopy,
              RepairRecords
<1>3. ASSUME NEW r \in Instances, NEW f \in Files, Rot(r, f)
      PROVE  UNCHANGED acked
  BY <1>3 DEF Rot
<1> QED
  BY <1>1, <1>2, <1>3 DEF Next, vars

LEMMA RepairsChange ==
    ASSUME TypeOK, [Next]_vars
    PROVE  \/ UNCHANGED <<fix, up>>
           \/ \E i \in Instances :
                /\ \A j \in Instances : j # i => fix'[j] = fix[j] /\ up'[j] = up[j]
                /\ Crash(i) \/ Restart(i) \/ RepairFile(i) \/ RepairRecords(i)
<1>1. ASSUME NEW w \in Workers, Serve(w)
      PROVE  UNCHANGED <<fix, up>>
  BY <1>1 DEF Serve, Receive, WriteFile, StartCommit, WriteRecords, Compare, Copy, Merge,
              ReplicaFails, PrimaryFails, Answer
<1>2. ASSUME NEW i \in Instances, Crash(i) \/ Restart(i) \/ RepairFile(i) \/ RepairRecords(i)
      PROVE  \A j \in Instances : j # i => fix'[j] = fix[j] /\ up'[j] = up[j]
  <2>1. CASE Crash(i)
    BY <2>1, CrashDoes
  <2>2. CASE Restart(i)
    BY <2>2, RestartDoes
  <2>3. CASE RepairFile(i)
    BY <2>3, RepairFileDoes
  <2>4. CASE RepairRecords(i)
    BY <2>4, RepairRecordsDoes
  <2> QED BY <1>2, <2>1, <2>2, <2>3, <2>4
<1>3. ASSUME NEW r \in Instances, NEW f \in Files, Rot(r, f)
      PROVE  UNCHANGED <<fix, up>>
  BY <1>3 DEF Rot
<1> QED
  BY <1>1, <1>2, <1>3 DEF Next, vars

\* Every job goes on as it was, is one that a step serves, or is dropped.
LEMMA JobsChange ==
    ASSUME TypeOK, [Next]_vars, NEW w \in Workers
    PROVE  job'[w] = job[w] \/ Serve(w) \/ job'[w] = Idle
<1>1. ASSUME NEW x \in Workers, Serve(x)
      PROVE  OthersWork(x)
  <2>1. ASSUME NEW k \in Kinds, Receive(x, k) PROVE OthersWork(x)
    BY <2>1, ReceiveDoes
  <2>2. CASE WriteFile(x)
    BY <2>2, WriteFileDoes
  <2>3. CASE StartCommit(x)
    BY <2>3, StartCommitDoes
  <2>4. CASE WriteRecords(x)
    BY <2>4, WriteRecordsDoes
  <2>5. CASE Compare(x)
    BY <2>5, CompareDoes
  <2>6. CASE Copy(x)
    BY <2>6, CopyDoes
  <2>7. CASE Merge(x)
    BY <2>7, MergeDoes DEF OnToNext
  <2>8. CASE ReplicaFails(x)
    BY <2>8, ReplicaFailsDoes DEF OnToNext
  <2>9. CASE PrimaryFails(x)
    BY <2>9, PrimaryFailsDoes
  <2>10. CASE Answer(x)
    BY <2>10, AnswerDoes
  <2> QED
    BY <1>1, <2>1, <2>2, <2>3, <2>4, <2>5, <2>6, <2>7, <2>8, <2>9, <2>10 DEF Serve
<1>2. ASSUME NEW i \in Instances, Crash(i)
      PROVE  job'[w] = job[w] \/ job'[w] = Idle
  BY <1>2, CrashDoes
<1>3. ASSUME NEW i \in Instances, Restart(i) \/ RepairFile(i) \/ RepairRecords(i)
      PROVE  job'[w] = job[w]
  BY <1>3 DEF Restart, RepairFile, ExamineFile, PassCopy, OpenSource, ReplaceCopy, RepairRecords
<1>4. ASSUME NEW r \in Instances, NEW f \in Files, Rot(r, f)
      PROVE  job'[w] = job[w]
  BY <1>4 DEF Rot
<1> QED
  BY <1>1, <1>2, <1>3, <1>4 DEF Next, vars, OthersWork

-----------------------------------------------------------------------------
(* Whatever overlaps.                                                      *)

\* What a root has it keeps, and files are only written again.
Grows == /\ \A r \in Instances, f \in Files : Has(r, f) => Has(r, f)'
         /\ \A f \in Files : newest[f] <= newest'[f]

\* A content is missing exactly when its number is 0.
LEMMA RealIs ==
    ASSUME NEW c \in Content, Real(c)
    PROVE  /\ c = Missing <=> c.v = 0
           /\ c.v \in Nat
  BY ConstantsTyped DEF Real, Missing, Content

LEMMA IdleGrounded ==
    ASSUME TypeOK', NEW h \in Instances
    PROVE  JobGrounded(h, Idle)'
<1>1. Idle.pc = "idle" /\ \A f \in Files : Idle.wrote[f] = 0 /\ Idle.hashes[f] = Missing
  BY DEF Idle
<1>2. \A f \in Files : newest'[f] \in Nat
  BY TypedAfter, ConstantsTyped
<1> QED
  BY <1>1, <1>2 DEF JobGrounded, Committing, Replicating, Real, Missing

LEMMA JobStaysGrounded ==
    ASSUME TypeOK, TypeOK', Grows, NEW h \in Instances, NEW j \in Jobs, JobGrounded(h, j),
           j.pc = "copying" => j.todo # <<>>
    PROVE  JobGrounded(h, j)'
<1>1. \A f \in Files : newest[f] \in Nat /\ newest'[f] \in Nat /\ j.wrote[f] \in Nat
                       /\ newest[f] <= newest'[f]
  BY Typed, TypedAfter, ConstantsTyped DEF Jobs, Grows
<1>2. j.todo \in Seq(Files) /\ j.left \in Seq(Instances) /\ j.rels \in Seq(Files)
  BY DEF Jobs
<1>3. Among(j.rels) \subseteq Files /\ j.held.v \in Nat
  BY <1>2, AmongIsFinite DEF Content, Jobs
<1>4. j.left # <<>> => Head(j.left) \in Instances
  BY <1>2, TakeHead
<1>5. j.pc = "copying" => Head(j.todo) \in Files
  BY <1>2, TakeHead
<1>6. \A r \in Instances, f \in Files : Has(r, f) => Has(r, f)'
  BY DEF Grows
<1>7. \A f \in Files : /\ j.wrote[f] <= newest'[f] /\ (j.wrote[f] > 0 => Has(h, f)')
                       /\ Real(j.hashes[f]) /\ (j.hashes[f] # Missing => Has(h, f)')
  BY <1>1, <1>6 DEF JobGrounded
<1>8. j.pc = "copying" => j.held.v <= newest'[Head(j.todo)]
  BY <1>1, <1>3, <1>5 DEF JobGrounded
<1>9. j.pc \in Replicating /\ j.left # <<>> =>
         \A f \in Among(j.rels) \ Among(j.todo) : Has(Head(j.left), f)'
  BY <1>3, <1>4, <1>6 DEF JobGrounded
<1> QED
  BY <1>7, <1>8, <1>9 DEF JobGrounded

\* JobGrounded of the next job, named.
LEMMA JobGroundedAfter ==
    ASSUME NEW w \in Workers, NEW k, k = job'[w], JobGrounded(Home[w], k)'
    PROVE  JobGrounded(Home[w], job[w])'
  BY DEF JobGrounded

\* The one thing that a repair does to the disk.
Replaces(i, f, r) ==
    /\ fix[i].over # <<>> /\ f = Head(fix[i].todo) /\ r = Head(fix[i].over)
    /\ fix[i].held # Missing /\ disk'[r][f] = fix[i].held
    /\ \A q \in Instances, g \in Files : q # r \/ g # f => disk'[q][g] = disk[q][g]

LEMMA RepairReplaces ==
    ASSUME TypeOK, NEW i \in Instances, RepairFile(i)
    PROVE  /\ up[i] = "repairing" /\ UNCHANGED <<recs, newest>>
           /\ disk' = disk \/ \E r \in Instances, f \in Files : Replaces(i, f, r)
<1>1. PICK f \in Files :
         /\ up[i] = "repairing" /\ f = Head(fix[i].todo)
         /\ \/ GivesUp(i, f) \/ Opens(i, f)
            \/ \E s \in GoodRoots(i, f) : TakesSource(i, f, s)
            \/ \E r \in Instances : HandsTo(i, f, r)
         /\ UNCHANGED <<recs, newest>>
  BY RepairFileDoes
<1>2. CASE GivesUp(i, f) \/ Opens(i, f) \/ \E s \in GoodRoots(i, f) : TakesSource(i, f, s)
  BY <1>1, <1>2 DEF GivesUp, Opens, TakesSource
<1>3. ASSUME NEW r \in Instances, HandsTo(i, f, r) PROVE disk' = disk \/ Replaces(i, f, r)
  BY <1>1, <1>3 DEF HandsTo, Replaces
<1> QED
  BY <1>1, <1>2, <1>3

LEMMA StepGrows ==
    ASSUME TypeOK, Grounded, [Next]_vars
    PROVE  Grows
<1>0. /\ disk \in [Instances -> [Files -> Content]]
      /\ \A f \in Files : newest[f] \in Nat
      /\ \A r \in Instances, f \in Files : Has(r, f)' <=> disk'[r][f] # Missing
  BY Typed, ConstantsTyped DEF Has
<1>1. CASE UNCHANGED <<disk, newest>>
  BY <1>0, <1>1 DEF Grows, Has
<1>2. ASSUME NEW w \in Workers, WriteFile(w) PROVE Grows
  <2>1. PICK i \in Instances, f \in Files, v \in 1 .. MaxVersion :
           /\ v = newest[f] + 1
           /\ newest'[f] = v /\ \A g \in Files : g # f => newest'[g] = newest[g]
           /\ disk'[i][f] = [v |-> v, ok |-> TRUE]
           /\ \A r \in Instances, g \in Files : r # i \/ g # f => disk'[r][g] = disk[r][g]
    BY <1>2, WriteFileDoes
  <2>2. disk'[i][f] # Missing
    BY <2>1 DEF Missing
  <2>3. \A r \in Instances, g \in Files : Has(r, g) => disk'[r][g] # Missing
    BY <2>1, <2>2 DEF Has
  <2>4. \A g \in Files : newest[g] <= newest'[g]
    BY <1>0, <2>1
  <2> QED BY <1>0, <2>3, <2>4 DEF Grows
<1>3. ASSUME NEW w \in Workers, Copy(w) PROVE Grows
  <2>1. PICK r \in Instances, f \in Files :
           /\ job[w].pc = "copying" /\ disk'[r][f] = job[w].held
           /\ \A s \in Instances, g \in Files : s # r \/ g # f => disk'[s][g] = disk[s][g]
           /\ UNCHANGED newest
    BY <1>3, CopyDoes
  <2>2. disk'[r][f] # Missing
    BY <2>1 DEF Grounded, JobGrounded
  <2>3. \A s \in Instances, g \in Files : Has(s, g) => disk'[s][g] # Missing
    BY <2>1, <2>2 DEF Has
  <2> QED BY <1>0, <2>1, <2>3 DEF Grows
<1>4. ASSUME NEW i \in Instances, RepairFile(i) PROVE Grows
  <2>1. UNCHANGED newest /\ (disk' = disk \/ \E r \in Instances, f \in Files : Replaces(i, f, r))
    BY <1>4, RepairReplaces
  <2>2. CASE disk' = disk
    BY <1>0, <2>1, <2>2 DEF Grows, Has
  <2>3. ASSUME NEW r \in Instances, NEW f \in Files, Replaces(i, f, r) PROVE Grows
    <3>1. \A s \in Instances, g \in Files : Has(s, g) => disk'[s][g] # Missing
      BY <2>3 DEF Replaces, Has
    <3> QED BY <1>0, <2>1, <3>1 DEF Grows
  <2> QED BY <2>1, <2>2, <2>3
<1>5. ASSUME NEW r \in Instances, NEW f \in Files, Rot(r, f) PROVE Grows
  <2>1. /\ disk'[r][f] = [v |-> disk[r][f].v, ok |-> FALSE]
        /\ \A s \in Instances, g \in Files : s # r \/ g # f => disk'[s][g] = disk[s][g]
        /\ UNCHANGED newest
    BY <1>5, RotDoes
  <2>2. disk'[r][f] # Missing
    BY <2>1 DEF Missing
  <2>3. \A s \in Instances, g \in Files : Has(s, g) => disk'[s][g] # Missing
    BY <2>1, <2>2 DEF Has
  <2> QED BY <1>0, <2>1, <2>3 DEF Grows
<1> QED
  BY <1>1, <1>2, <1>3, <1>4, <1>5, DiskChanges

\* The jobs that are served stay grounded, operation by operation.
LEMMA ServeGrounded ==
    ASSUME Attainable, TypeOK, TypeOK', Grounded, Grows, NEW w \in Workers, Serve(w)
    PROVE  JobGrounded(Home[w], job[w])'
<1>1. PICK h \in Instances, j \in Jobs, k \in Jobs : h = Home[w] /\ j = job[w] /\ k = job'[w]
  BY Typed, TypedAfter, ConstantsTyped
<1> SUFFICES JobGrounded(h, k)'
  BY <1>1, JobGroundedAfter
<1>2. /\ j.todo \in Seq(Files) /\ j.left \in Seq(Instances) /\ j.rels \in Seq(Files)
      /\ k.todo \in Seq(Files) /\ k.left \in Seq(Instances) /\ k.rels \in Seq(Files)
      /\ Among(j.rels) \subseteq Files
  BY AmongIsFinite DEF Jobs
<1>3. JobGrounded(h, j)
  BY <1>1 DEF Grounded
<1>4. JobGrounded(h, j)'
  BY <1>1, <1>3, Typed, JobStaysGrounded
<1>5. \A r \in Instances, f \in Files : Has(r, f) => Has(r, f)'
  BY DEF Grows
<1>6. \A f \in Files : newest'[f] \in Nat /\ newest[f] \in Nat
  BY Typed, TypedAfter, ConstantsTyped
\* What the job wrote and hashed is as it was.
<1>7. ASSUME k.wrote = j.wrote, k.hashes = j.hashes
      PROVE  \A f \in Files : /\ k.wrote[f] <= newest'[f] /\ (k.wrote[f] > 0 => Has(h, f)')
                              /\ Real(k.hashes[f]) /\ (k.hashes[f] # Missing => Has(h, f)')
  BY <1>4, <1>7 DEF JobGrounded
\* On to another replica, with all the files before it.
<1>8. ASSUME k.pc = "replicating", k.wrote = j.wrote, k.hashes = j.hashes, k.rels = j.rels,
             j.pc \in Committing,
             k.todo = j.rels \/ (k.left = <<>> /\ k.todo = <<>>),
             Among(k.left) \subseteq Among(Replicas[h]), NoRepeats(k.left)
      PROVE  JobGrounded(h, k)'
  <2>1. /\ DataFirst(j.rels) /\ \A f \in Among(j.rels) : j.hashes[f] # Missing
        /\ \A f \in Files : j.wrote[f] > 0 => f \in Among(j.rels)
    BY <1>3, <1>8 DEF JobGrounded, Committing
  <2>2. DataFirst(k.todo) /\ Among(k.todo) \subseteq Among(k.rels)
    BY <1>8, <2>1, EmptyHasNone
  <2>3. k.left # <<>> => Among(k.rels) \ Among(k.todo) = {}
    BY <1>8
  <2> QED BY <1>7, <1>8, <2>1, <2>2, <2>3 DEF JobGrounded, Committing, Replicating
<1>9. ASSUME NEW c \in Kinds, Receive(w, c) PROVE JobGrounded(h, k)'
  <2>1. k.pc = "writing" /\ \A f \in Files : k.wrote[f] = 0 /\ k.hashes[f] = Missing
    BY <1>1, <1>9, ReceiveDoes
  <2> QED BY <1>6, <2>1 DEF JobGrounded, Committing, Replicating, Real, Missing
<1>10. CASE WriteFile(w)
  <2>1. PICK f \in Files, v \in 1 .. MaxVersion :
           /\ v = newest[f] + 1 /\ k.pc = "writing"
           /\ newest'[f] = v /\ disk'[h][f] = [v |-> v, ok |-> TRUE]
           /\ k.wrote[f] = v /\ (\A g \in Files : g # f => k.wrote[g] = j.wrote[g])
           /\ k.hashes = j.hashes
    BY <1>1, <1>10, WriteFileDoes
  <2>2. disk'[h][f] # Missing
    BY <2>1 DEF Missing
  <2>3. \A g \in Files : k.wrote[g] <= newest'[g] /\ (k.wrote[g] > 0 => Has(h, g)')
    <3>1. \A g \in Files : g # f => k.wrote[g] <= newest'[g] /\ (k.wrote[g] > 0 => Has(h, g)')
      BY <1>4, <2>1 DEF JobGrounded
    <3>2. k.wrote[f] <= newest'[f] /\ Has(h, f)'
      BY <1>6, <2>1, <2>2 DEF Has
    <3> QED BY <3>1, <3>2
  <2>4. \A g \in Files : Real(k.hashes[g]) /\ (k.hashes[g] # Missing => Has(h, g)')
    BY <1>4, <2>1 DEF JobGrounded
  <2> QED BY <2>1, <2>3, <2>4 DEF JobGrounded, Committing, Replicating
<1>11. CASE StartCommit(w)
  <2>1. /\ k.pc = "recording" /\ Among(k.rels) = FilesUnder(h) /\ DataFirst(k.rels)
        /\ \A f \in Files : k.hashes[f] = IF Has(h, f) THEN disk[h][f] ELSE recs[h][f]
        /\ k.wrote = j.wrote
    BY <1>1, <1>11, StartCommitDoes
  <2>2. \A f \in Files : Real(k.hashes[f]) /\ (k.hashes[f] # Missing <=> Has(h, f))
    BY <2>1 DEF Grounded, Has
  <2>3. \A f \in Files : k.wrote[f] <= newest'[f] /\ (k.wrote[f] > 0 => Has(h, f)')
    BY <1>4, <2>1 DEF JobGrounded
  <2>4. \A f \in Files : k.wrote[f] > 0 => f \in Among(k.rels)
    BY <1>3, <2>1 DEF JobGrounded, FilesUnder
  <2>5. \A f \in Among(k.rels) : k.hashes[f] # Missing
    BY <2>1, <2>2 DEF FilesUnder
  <2>6. \A f \in Files : k.hashes[f] # Missing => Has(h, f)'
    BY <1>5, <2>2
  <2> QED BY <2>1, <2>2, <2>3, <2>4, <2>5, <2>6 DEF JobGrounded, Replicating
<1>12. CASE WriteRecords(w)
  <2>1. /\ j.pc = "recording" /\ k.pc = "replicating" /\ k.left = Replicas[h]
        /\ k.todo = j.rels /\ k.rels = j.rels /\ k.wrote = j.wrote /\ k.hashes = j.hashes
    BY <1>1, <1>12, WriteRecordsDoes
  <2>2. NoRepeats(k.left)
    BY <2>1 DEF Attainable
  <2> QED BY <1>8, <2>1, <2>2 DEF Committing
<1>13. CASE Compare(w)
  <2>1. PICK r \in Instances, f \in Files :
           /\ j.pc = "replicating" /\ j.left # <<>> /\ j.todo # <<>>
           /\ f = Head(j.todo) /\ r = Head(j.left)
           /\ \/ /\ disk[r][f] = j.hashes[f] /\ k.pc = "replicating"
                 /\ k.todo = Tail(j.todo)
              \/ /\ k.pc = "copying" /\ k.held = disk[h][f] /\ k.todo = j.todo
           /\ k.rels = j.rels /\ k.wrote = j.wrote /\ k.hashes = j.hashes /\ k.left = j.left
           /\ UNCHANGED newest
    BY <1>1, <1>13, CompareDoes
  <2>2. /\ DataFirst(j.rels) /\ \A g \in Among(j.rels) : j.hashes[g] # Missing
        /\ \A g \in Files : j.wrote[g] > 0 => g \in Among(j.rels)
        /\ DataFirst(j.todo) /\ Among(j.todo) \subseteq Among(j.rels)
        /\ Among(j.left) \subseteq Among(Replicas[h]) /\ NoRepeats(j.left)
        /\ \A g \in Among(j.rels) \ Among(j.todo) : Has(r, g)'
    BY <1>4, <2>1 DEF JobGrounded, Committing, Replicating
  <2>3. /\ f \in Among(j.todo) /\ Among(j.todo) = {f} \cup Among(Tail(j.todo))
        /\ DataFirst(Tail(j.todo))
    BY <1>2, <2>1, <2>2, TakeHead
  <2>4. CASE k.pc = "replicating" /\ disk[r][f] = j.hashes[f] /\ k.todo = Tail(j.todo)
    <3>1. Has(r, f)
      BY <2>2, <2>3, <2>4 DEF Has
    <3>2. \A g \in Among(k.rels) \ Among(k.todo) : Has(r, g)'
      BY <1>5, <2>1, <2>2, <2>3, <2>4, <3>1
    <3>3. Head(k.left) = r
      BY <2>1
    <3> QED BY <1>7, <2>1, <2>2, <2>3, <2>4, <3>2, <3>3 DEF JobGrounded
  <2>5. CASE k.pc = "copying" /\ k.held = disk[h][f] /\ k.todo = j.todo
    <3>1. disk[h][f] # Missing
      BY <1>3, <2>2, <2>3 DEF JobGrounded, Has
    <3>2. Real(disk[h][f]) /\ disk[h][f].v <= newest'[f]
      BY <2>1 DEF Grounded
    <3>3. Head(k.left) = r /\ Head(k.todo) = f
      BY <2>1, <2>5
    <3> QED BY <1>7, <2>1, <2>2, <2>5, <3>1, <3>2, <3>3 DEF JobGrounded
  <2> QED BY <2>1, <2>4, <2>5
<1>14. CASE Copy(w)
  <2>1. PICK r \in Instances, f \in Files :
           /\ j.pc = "copying" /\ k.pc = "replicating" /\ j.left # <<>> /\ j.todo # <<>>
           /\ f = Head(j.todo) /\ r = Head(j.left) /\ disk'[r][f] = j.held
           /\ k.todo = Tail(j.todo)
           /\ k.rels = j.rels /\ k.wrote = j.wrote /\ k.hashes = j.hashes /\ k.left = j.left
    BY <1>1, <1>14, CopyDoes
  <2>2. /\ DataFirst(j.rels) /\ \A g \in Among(j.rels) : j.hashes[g] # Missing
        /\ \A g \in Files : j.wrote[g] > 0 => g \in Among(j.rels)
        /\ DataFirst(j.todo) /\ Among(j.todo) \subseteq Among(j.rels)
        /\ Among(j.left) \subseteq Among(Replicas[h]) /\ NoRepeats(j.left)
        /\ \A g \in Among(j.rels) \ Among(j.todo) : Has(r, g)'
        /\ j.held # Missing
    BY <1>4, <2>1 DEF JobGrounded, Committing, Replicating
  <2>3. /\ f \in Among(j.todo) /\ Among(j.todo) = {f} \cup Among(Tail(j.todo))
        /\ DataFirst(Tail(j.todo))
    BY <1>2, <2>1, <2>2, TakeHead
  <2>4. Has(r, f)'
    BY <2>1, <2>2 DEF Has
  <2>5. \A g \in Among(k.rels) \ Among(k.todo) : Has(r, g)'
    BY <2>1, <2>2, <2>3, <2>4
  <2>6. Head(k.left) = r
    BY <2>1
  <2> QED BY <1>7, <2>1, <2>2, <2>3, <2>5, <2>6 DEF JobGrounded
<1>15. ASSUME OnToNext(w), j.pc \in Replicating PROVE JobGrounded(h, k)'
  <2>1. /\ j.left # <<>> /\ k.pc = "replicating" /\ k.left = Tail(j.left)
        /\ k.todo = (IF Len(j.left) > 1 THEN j.rels ELSE <<>>)
        /\ k.rels = j.rels /\ k.wrote = j.wrote /\ k.hashes = j.hashes
    BY <1>1, <1>15 DEF OnToNext
  <2>2. PICK l \in Seq(Instances), t \in Seq(Instances), n \in Nat \ {0} :
           /\ l = j.left /\ t = Tail(l) /\ n = Len(l) /\ Len(t) = n - 1
           /\ Among(l) = {Head(l)} \cup Among(t) /\ (NoRepeats(l) => NoRepeats(t))
    <3>1. PICK l \in Seq(Instances) : l = j.left /\ l # <<>>
      BY <1>2, <2>1
    <3>2. PICK t \in Seq(Instances) : t = Tail(l) /\ Len(t) = Len(l) - 1
      BY <3>1, TakeHead
    <3>3. Among(l) = {Head(l)} \cup Among(t) /\ (NoRepeats(l) => NoRepeats(t))
      BY <3>1, <3>2, TakeHead
    <3>4. Len(l) \in Nat \ {0}
      BY <3>1
    <3> QED BY <3>1, <3>2, <3>3, <3>4
  <2>3. Among(l) \subseteq Among(Replicas[h]) /\ NoRepeats(l)
    BY <1>3, <1>15, <2>2 DEF JobGrounded
  <2>4. ~(n > 1) => t = <<>>
    <3>1. ASSUME ~(n > 1) PROVE n - 1 = 0
      BY <3>1
    <3> QED BY <2>2, <3>1
  <2>5. k.todo = j.rels \/ (k.left = <<>> /\ k.todo = <<>>)
    BY <2>1, <2>2, <2>4
  <2>6. j.pc \in Committing
    BY <1>15 DEF Committing, Replicating
  <2> QED BY <1>8, <2>1, <2>2, <2>3, <2>5, <2>6
<1>16. CASE Merge(w)
  <2>1. OnToNext(w) /\ j.pc \in Replicating
    BY <1>1, <1>16, MergeDoes DEF Replicating
  <2> QED BY <1>15, <2>1
<1>17. CASE ReplicaFails(w)
  <2>1. OnToNext(w) /\ j.pc \in Replicating
    BY <1>1, <1>17, ReplicaFailsDoes DEF Replicating
  <2> QED BY <1>15, <2>1
<1>18. CASE PrimaryFails(w) \/ Answer(w)
  <2>1. k = Idle
    BY <1>1, <1>18, PrimaryFailsDoes, AnswerDoes
  <2> QED BY <2>1, IdleGrounded
<1> QED
  BY <1>9, <1>10, <1>11, <1>12, <1>13, <1>14, <1>16, <1>17, <1>18 DEF Serve

\* What a write leaves of one file, and of the others.
Wrote(w, i, f, v) ==
    /\ i = Home[w] /\ job[w].pc = "writing" /\ job[w].todo # <<>> /\ f = Head(job[w].todo)
    /\ v = newest[f] + 1 /\ newest'[f] = v /\ disk'[i][f] = [v |-> v, ok |-> TRUE]
    /\ \A g \in Files : g # f => newest'[g] = newest[g]
    /\ \A r \in Instances, g \in Files : r # i \/ g # f => disk'[r][g] = disk[r][g]
    /\ job'[w].pc = "writing" /\ job'[w].wrote[f] = v
    /\ \A g \in Files : g # f => job'[w].wrote[g] = job[w].wrote[g]

LEMMA WriteFileWrites ==
    ASSUME TypeOK, NEW w \in Workers, WriteFile(w)
    PROVE  \E i \in Instances, f \in Files, v \in 1 .. MaxVersion : Wrote(w, i, f, v)
<1>1. PICK i \in Instances, f \in Files, v \in 1 .. MaxVersion :
         /\ i = Home[w] /\ job[w].todo # <<>> /\ f = Head(job[w].todo) /\ v = newest[f] + 1
         /\ job[w].pc = "writing" /\ job'[w].pc = "writing"
         /\ newest'[f] = v /\ \A g \in Files : g # f => newest'[g] = newest[g]
         /\ disk'[i][f] = [v |-> v, ok |-> TRUE]
         /\ \A r \in Instances, g \in Files : r # i \/ g # f => disk'[r][g] = disk[r][g]
         /\ job'[w].wrote[f] = v /\ (\A g \in Files : g # f => job'[w].wrote[g] = job[w].wrote[g])
  BY WriteFileDoes
<1>2. Wrote(w, i, f, v)
  BY <1>1 DEF Wrote
<1> QED
  BY <1>2

\* FixGrounded of the next repair, named.
LEMMA FixGroundedAfter ==
    ASSUME NEW i \in Instances, NEW x, x = fix'[i], FixGrounded(i, x)'
    PROVE  FixGrounded(i, fix[i])'
  BY DEF FixGrounded

LEMMA FixStaysGrounded ==
    ASSUME TypeOK, TypeOK', Grows, NEW i \in Instances, NEW x \in Fixes, FixGrounded(i, x)
    PROVE  FixGrounded(i, x)'
<1>1. \A f \in Files : newest[f] \in Nat /\ newest'[f] \in Nat /\ newest[f] <= newest'[f]
  BY Typed, TypedAfter, ConstantsTyped DEF Grows
<1>2. \A r \in Instances, f \in Files : Has(r, f) => Has(r, f)'
  BY DEF Grows
<1>3. x.held.v \in Nat /\ x.from \in Instances /\ Required(i) \subseteq Instances
  <2>1. x.held \in Content /\ x.from \in Instances
    BY DEF Fixes
  <2>2. x.held.v \in Nat
    BY <2>1, ConstantsTyped DEF Content
  <2> QED BY <2>1, <2>2, RequiredIs
<1>4. \A r \in Instances, f \in Files :
         Real(x.recs[r][f]) /\ (x.recs[r][f] # Missing => Has(r, f)')
  BY <1>2 DEF FixGrounded
<1>5. ASSUME NEW f \in Files, x.over # <<>>, f = Head(x.todo)
      PROVE  /\ Has(x.from, f)' /\ Real(x.hash) /\ x.hash # Missing
             /\ \A r \in Required(i) \ Among(x.over) : Has(r, f)'
             /\ x.held # Missing => Real(x.held) /\ x.held.v <= newest'[f]
  BY <1>1, <1>2, <1>3, <1>5 DEF FixGrounded
<1> QED
  BY <1>4, <1>5 DEF FixGrounded

LEMMA NoRepairGrounded ==
    ASSUME NEW i \in Instances
    PROVE  FixGrounded(i, NoRepair) /\ FixGrounded(i, NoRepair)'
<1>1. /\ NoRepair.over = <<>> /\ NoRepair.held = Missing
      /\ \A r \in Instances, f \in Files : NoRepair.recs[r][f] = Missing
  BY DEF NoRepair
<1> QED
  BY <1>1 DEF FixGrounded, Real, Missing

LEMMA StepFixGrounded ==
    ASSUME TypeOK, TypeOK', Grounded, Grows, [Next]_vars, NEW i \in Instances
    PROVE  FixGrounded(i, fix[i])'
<1>1. PICK x \in Fixes, y \in Fixes : x = fix[i] /\ y = fix'[i]
  BY Typed, TypedAfter
<1> SUFFICES FixGrounded(i, y)'
  BY <1>1, FixGroundedAfter
<1>2. FixGrounded(i, x) /\ FixGrounded(i, x)'
  BY <1>1, FixStaysGrounded DEF Grounded
<1>3. \A r \in Instances, f \in Files : Has(r, f) => Has(r, f)'
  BY DEF Grows
<1>4. CASE y = x
  BY <1>2, <1>4
<1>5. CASE y = NoRepair
  BY <1>5, NoRepairGrounded
<1>6. CASE Restart(i)
  <2>1. /\ y.over = <<>> /\ y.held = Missing
        /\ \A r \in Instances, f \in Files :
              y.recs[r][f] = recs[r][f] \/ y.recs[r][f] = Missing
    BY <1>1, <1>6, RestartDoes
  <2>2. Real(Missing)
    BY DEF Real, Missing
  <2>3. \A r \in Instances, f \in Files :
           Real(recs[r][f]) /\ (recs[r][f] # Missing => Has(r, f)')
    BY <1>3 DEF Grounded
  <2>4. \A r \in Instances, f \in Files :
           Real(y.recs[r][f]) /\ (y.recs[r][f] # Missing => Has(r, f)')
    BY <2>1, <2>2, <2>3
  <2> QED BY <2>1, <2>4 DEF FixGrounded
<1>7. CASE RepairFile(i)
  <2>1. PICK f \in Files :
           /\ x.todo # <<>> /\ f = Head(x.todo)
           /\ \/ GivesUp(i, f) \/ Opens(i, f)
              \/ \E s \in GoodRoots(i, f) : TakesSource(i, f, s)
              \/ \E r \in Instances : HandsTo(i, f, r)
           /\ UNCHANGED newest
    BY <1>1, <1>7, RepairFileDoes
  <2>2. /\ \A r \in Instances, g \in Files :
              Real(x.recs[r][g]) /\ (x.recs[r][g] # Missing => Has(r, g)')
        /\ x.over = <<>> => x.held = Missing
        /\ x.over # <<>> => /\ Has(x.from, f)' /\ Real(x.hash) /\ x.hash # Missing
                            /\ \A r \in Required(i) \ Among(x.over) : Has(r, f)'
                            /\ x.held # Missing => Real(x.held) /\ x.held.v <= newest'[f]
    BY <1>2, <2>1 DEF FixGrounded
  <2>3. CASE GivesUp(i, f)
    <3>1. y.over = <<>> /\ y.held = Missing /\ y.recs = x.recs
      BY <1>1, <2>2, <2>3 DEF GivesUp
    <3> QED BY <2>2, <3>1 DEF FixGrounded
  <2>4. CASE Opens(i, f)
    <3>1. /\ x.over # <<>> /\ y.held = disk[x.from][f] /\ y.over = x.over /\ y.todo = x.todo
          /\ y.recs = x.recs /\ y.from = x.from /\ y.hash = x.hash
      BY <1>1, <2>4 DEF Opens, SameFile
    <3>2. x.from \in Instances
      BY DEF Fixes
    <3>3. Real(y.held) /\ y.held.v <= newest'[f]
      BY <2>1, <3>1, <3>2 DEF Grounded
    <3> QED BY <2>1, <2>2, <3>1, <3>3 DEF FixGrounded
  <2>5. ASSUME NEW s \in GoodRoots(i, f), TakesSource(i, f, s) PROVE FixGrounded(i, y)'
    <3>1. /\ y.over = RootsOf(i) /\ y.from = s /\ y.hash = disk[s][f] /\ y.todo = x.todo
          /\ y.held = Missing /\ y.recs = x.recs
      BY <1>1, <2>2, <2>5 DEF TakesSource
    <3>2. s \in Instances /\ disk[s][f] # Missing /\ Has(s, f)'
      BY <1>3, RequiredIs DEF GoodRoots, Has
    <3>3. Real(y.hash) /\ y.hash # Missing
      BY <3>1, <3>2 DEF Grounded
    <3>4. Required(i) \ Among(y.over) = {}
      BY <3>1, RequiredIs
    <3> QED BY <2>1, <2>2, <3>1, <3>2, <3>3, <3>4 DEF FixGrounded
  <2>6. ASSUME NEW r \in Instances, HandsTo(i, f, r) PROVE FixGrounded(i, y)'
    <3>1. /\ x.over # <<>> /\ r = Head(x.over) /\ y.over = Tail(x.over) /\ y.held = Missing
          /\ y.from = x.from /\ y.hash = x.hash
          /\ y.recs[r][f] = x.hash
          /\ \A q \in Instances, g \in Files : q # r \/ g # f => y.recs[q][g] = x.recs[q][g]
          /\ y.over # <<>> => y.todo = x.todo
      BY <1>1, <2>6 DEF HandsTo, SameFile
    <3>2. Has(r, f)'
      <4>1. CASE disk' = disk /\ Has(r, f)
        BY <1>3, <4>1
      <4>2. CASE x.held # Missing /\ disk'[r][f] = x.held
        BY <4>2 DEF Has
      <4> QED BY <1>1, <2>6, <4>1, <4>2 DEF HandsTo
    <3>3. \A q \in Instances, g \in Files :
             Real(y.recs[q][g]) /\ (y.recs[q][g] # Missing => Has(q, g)')
      BY <2>2, <3>1, <3>2
    <3>4. Among(x.over) = {r} \cup Among(y.over)
      <4>1. x.over \in Seq(Instances)
        BY DEF Fixes
      <4> QED BY <3>1, <4>1, TakeHead
    <3>5. \A q \in Required(i) \ Among(y.over) : Has(q, f)'
      BY <2>2, <3>1, <3>2, <3>4
    <3> QED BY <2>1, <2>2, <3>1, <3>3, <3>5 DEF FixGrounded
  <2> QED BY <2>1, <2>3, <2>4, <2>5, <2>6
<1>8. CASE RepairRecords(i)
  <2>1. CASE y = NoRepair
    BY <1>5, <2>1
  <2>2. CASE y # NoRepair
    <3>1. /\ y.recs = x.recs /\ y.over = x.over /\ y.from = x.from /\ y.hash = x.hash
          /\ y.held = x.held /\ y.todo = x.todo
      BY <1>1, <1>8, <2>2, RepairRecordsDoes, RepairRecordsKeeps
    <3> QED BY <1>2, <3>1 DEF FixGrounded
  <2> QED BY <2>1, <2>2
<1>9. CASE Crash(i)
  BY <1>1, <1>5, <1>9, CrashDoes
<1> QED
  BY <1>1, <1>4, <1>6, <1>7, <1>8, <1>9, RepairsChange

LEMMA StepGrounded ==
    ASSUME Attainable, TypeOK, Grounded, [Next]_vars
    PROVE  Grounded'
<1>0. TypeOK' /\ Grows
  BY StepTyped, StepGrows
<1>1. /\ \A f \in Files : newest'[f] \in Nat /\ newest[f] \in Nat /\ newest[f] <= newest'[f]
      /\ \A r \in Instances, f \in Files : /\ disk[r][f].v \in Nat /\ acked[r][f] \in Nat
                                           /\ Has(r, f) => Has(r, f)'
  BY <1>0, Typed, TypedAfter, ConstantsTyped DEF Content, Grows
<1>2. \A r \in Instances, f \in Files : /\ Real(disk[r][f]) /\ disk[r][f].v <= newest'[f]
                                        /\ Real(recs[r][f]) /\ (recs[r][f] # Missing => Has(r, f)')
                                        /\ acked[r][f] <= newest'[f]
  BY <1>1 DEF Grounded
<1>3. \A i, r \in Instances, f \in Files :
         Real(fix[i].recs[r][f]) /\ (fix[i].recs[r][f] # Missing => Has(r, f)')
  BY <1>1 DEF Grounded, FixGrounded
<1>4. ASSUME NEW r \in Instances, NEW f \in Files
      PROVE  Real(disk'[r][f]) /\ disk'[r][f].v <= newest'[f]
  <2>1. CASE UNCHANGED <<disk, newest>>
    BY <1>2, <2>1
  <2>2. ASSUME NEW w \in Workers, WriteFile(w)
        PROVE  Real(disk'[r][f]) /\ disk'[r][f].v <= newest'[f]
    <3>1. PICK i \in Instances, g \in Files, v \in 1 .. MaxVersion : Wrote(w, i, g, v)
      BY <2>2, WriteFileWrites
    <3>2. /\ newest'[g] = v /\ disk'[i][g] = [v |-> v, ok |-> TRUE]
          /\ \A s \in Instances, x \in Files : s # i \/ x # g => disk'[s][x] = disk[s][x]
      BY <3>1 DEF Wrote
    <3> QED BY <1>2, <3>2, ConstantsTyped DEF Real
  <2>3. ASSUME NEW w \in Workers, Copy(w)
        PROVE  Real(disk'[r][f]) /\ disk'[r][f].v <= newest'[f]
    <3>1. PICK s \in Instances, g \in Files :
             /\ job[w].pc = "copying" /\ g = Head(job[w].todo) /\ disk'[s][g] = job[w].held
             /\ \A x \in Instances, y \in Files : x # s \/ y # g => disk'[x][y] = disk[x][y]
             /\ UNCHANGED newest
      BY <2>3, CopyDoes
    <3>2. Real(job[w].held) /\ job[w].held.v <= newest'[g]
      BY <3>1 DEF Grounded, JobGrounded
    <3> QED BY <1>2, <3>1, <3>2
  <2>4. ASSUME NEW i \in Instances, RepairFile(i)
        PROVE  Real(disk'[r][f]) /\ disk'[r][f].v <= newest'[f]
    <3>1. UNCHANGED newest /\ (disk' = disk \/ \E s \in Instances, g \in Files : Replaces(i, g, s))
      BY <2>4, RepairReplaces
    <3>2. ASSUME NEW s \in Instances, NEW g \in Files, Replaces(i, g, s)
          PROVE  Real(disk'[r][f]) /\ disk'[r][f].v <= newest'[f]
      <4>1. Real(fix[i].held) /\ fix[i].held.v <= newest[g]
        BY <3>2 DEF Grounded, FixGrounded, Replaces
      <4> QED BY <1>2, <3>1, <3>2, <4>1 DEF Replaces
    <3> QED BY <1>2, <3>1, <3>2
  <2>5. ASSUME NEW s \in Instances, NEW g \in Files, Rot(s, g)
        PROVE  Real(disk'[r][f]) /\ disk'[r][f].v <= newest'[f]
    <3>1. /\ disk'[s][g] = [v |-> disk[s][g].v, ok |-> FALSE] /\ disk[s][g] # Missing
          /\ \A x \in Instances, y \in Files : x # s \/ y # g => disk'[x][y] = disk[x][y]
      BY <2>5, RotDoes DEF Has
    <3>2. disk[s][g].v # 0
      BY <1>2, <3>1, RealIs, Typed
    <3>3. Real(disk'[s][g]) /\ disk'[s][g].v <= newest'[g]
      BY <1>2, <3>1, <3>2 DEF Real
    <3> QED BY <1>2, <3>1, <3>3
  <2> QED BY <2>1, <2>2, <2>3, <2>4, <2>5, DiskChanges
<1>5. ASSUME NEW r \in Instances, NEW f \in Files
      PROVE  Real(recs'[r][f]) /\ (recs'[r][f] # Missing => Has(r, f)')
  <2>1. ASSUME NEW w \in Workers, WriteRecords(w)
        PROVE  Real(recs'[r][f]) /\ (recs'[r][f] # Missing => Has(r, f)')
    <3>1. /\ \A g \in Files : recs'[Home[w]][g] = job[w].hashes[g]
          /\ \A s \in Instances, g \in Files : s # Home[w] => recs'[s][g] = recs[s][g]
      BY <2>1, WriteRecordsDoes
    <3>2. Real(job[w].hashes[f]) /\ (job[w].hashes[f] # Missing => Has(Home[w], f))
      BY DEF Grounded, JobGrounded
    <3>3. r = Home[w] => (Has(Home[w], f) => Has(r, f)')
      BY <1>1
    <3> QED BY <1>2, <3>1, <3>2, <3>3
  <2>2. ASSUME NEW w \in Workers, Merge(w)
        PROVE  Real(recs'[r][f]) /\ (recs'[r][f] # Missing => Has(r, f)')
    <3>1. PICK s \in Instances :
             /\ s = Head(job[w].left) /\ job[w].pc = "replicating" /\ job[w].todo = <<>>
             /\ \A g \in Files : recs'[s][g] = IF g \in Among(job[w].rels) THEN job[w].hashes[g]
                                                                          ELSE recs[s][g]
             /\ \A x \in Instances, g \in Files : x # s => recs'[x][g] = recs[x][g]
             /\ job[w].left # <<>>
      BY <2>2, MergeDoes DEF OnToNext
    <3>2. Real(job[w].hashes[f])
      BY DEF Grounded, JobGrounded
    <3>3. f \in Among(job[w].rels) => Has(s, f)
      BY <3>1, EmptyHasNone DEF Grounded, JobGrounded, Replicating
    <3> QED BY <1>1, <1>2, <3>1, <3>2, <3>3
  <2>3. ASSUME NEW i \in Instances, RepairRecords(i)
        PROVE  Real(recs'[r][f]) /\ (recs'[r][f] # Missing => Has(r, f)')
    <3>1. PICK s \in Instances :
             /\ \A g \in Files : recs'[s][g] = fix[i].recs[s][g]
             /\ \A x \in Instances, g \in Files : x # s => recs'[x][g] = recs[x][g]
      BY <2>3, RepairRecordsDoes
    <3> QED BY <1>2, <1>3, <3>1
  <2> QED BY <1>2, <2>1, <2>2, <2>3, RecsChange
<1>6. ASSUME NEW i \in Instances, NEW f \in Files
      PROVE  acked'[i][f] <= newest'[f]
  <2>1. ASSUME NEW w \in Workers, Answer(w)
        PROVE  acked'[i][f] <= newest'[f]
    <3>1. acked'[i][f] = acked[i][f] \/ acked'[i][f] = job[w].wrote[f]
      BY <2>1, AnswerDoes
    <3>2. job[w].wrote[f] <= newest[f] /\ job[w].wrote[f] \in Nat
      BY Typed, ConstantsTyped DEF Grounded, JobGrounded
    <3> QED BY <1>1, <1>2, <3>1, <3>2
  <2> QED BY <1>2, <2>1, AckedChanges
<1>7. ASSUME NEW i \in Instances PROVE FixGrounded(i, fix[i])'
  BY <1>0, StepFixGrounded
<1>8. ASSUME NEW w \in Workers PROVE JobGrounded(Home[w], job[w])'
  <2>1. CASE job'[w] = job[w]
    <3>1. PICK h \in Instances, j \in Jobs : h = Home[w] /\ j = job[w]
      BY Typed, ConstantsTyped
    <3>2. JobGrounded(h, j)
      BY <3>1 DEF Grounded
    <3>3. JobGrounded(h, j)'
      BY <1>0, <3>1, <3>2, Typed, JobStaysGrounded
    <3> QED BY <2>1, <3>1, <3>3, JobGroundedAfter
  <2>2. CASE Serve(w)
    BY <1>0, <2>2, ServeGrounded
  <2>3. CASE job'[w] = Idle
    BY <1>0, <2>3, ConstantsTyped, IdleGrounded, JobGroundedAfter
  <2> QED BY <2>1, <2>2, <2>3, JobsChange
<1> QED
  BY <1>4, <1>5, <1>6, <1>7, <1>8 DEF Grounded

LEMMA InitGrounded == Init => Grounded
<1> SUFFICES ASSUME Init PROVE Grounded
  OBVIOUS
<1>1. /\ Real(Missing) /\ Missing.v = 0
      /\ Idle.pc = "idle" /\ \A f \in Files : Idle.wrote[f] = 0 /\ Idle.hashes[f] = Missing
      /\ \A r \in Instances, f \in Files : NoRepair.recs[r][f] = Missing
  BY DEF Real, Missing, Idle, NoRepair
<1>2. /\ \A r \in Instances, f \in Files : /\ disk[r][f] = Missing /\ recs[r][f] = Missing
                                           /\ acked[r][f] = 0
      /\ \A f \in Files : newest[f] = 0
      /\ \A w \in Workers : job[w] = Idle
      /\ \A i \in Instances : fix[i] = NoRepair
  BY DEF Init
<1>3. \A w \in Workers : JobGrounded(Home[w], job[w])
  BY <1>1, <1>2 DEF JobGrounded, Committing, Replicating
<1>4. \A i \in Instances : FixGrounded(i, fix[i])
  BY <1>2, NoRepairGrounded
<1> QED
  BY <1>1, <1>2, <1>3, <1>4 DEF Grounded

LEMMA StoreGrounded == ASSUME Attainable PROVE Spec => [](TypeOK /\ Grounded)
<1>1. Init => TypeOK /\ Grounded
  BY InitTyped, InitGrounded
<1>2. TypeOK /\ Grounded /\ [Next]_vars => TypeOK' /\ Grounded'
  BY StepTyped, StepGrounded
<1> QED
  BY <1>1, <1>2, PTL DEF Spec

-----------------------------------------------------------------------------
(* Markers come after their data.                                          *)

LEMMA DataBeforeTail ==
    ASSUME NEW s \in Seq(Files), s # <<>>, NEW have, NEW more,
           DataBefore(s, have), have \subseteq more, Head(s) \in more
    PROVE  /\ DataBefore(Tail(s), more)
           /\ Head(s) \in Markers => \A f \in Vouches[Head(s)] : f \in have
<1>1. PICK x \in Files, t \in Seq(Files) : x = Head(s) /\ t = Tail(s)
  BY HeadTailProperties
<1>2. /\ Len(t) \in Nat /\ Len(s) = Len(t) + 1 /\ s[1] = x
      /\ DOMAIN s = 1 .. Len(s) /\ DOMAIN t = 1 .. Len(t)
      /\ \A i \in 1 .. Len(t) : t[i] = s[i + 1]
  BY <1>1, HeadTailProperties
<1>3. ASSUME NEW m \in DOMAIN t, t[m] \in Markers, NEW f \in Vouches[t[m]]
      PROVE  f \in more \/ \E n \in DOMAIN t : n < m /\ t[n] = f
  <2>1. m + 1 \in DOMAIN s /\ s[m + 1] = t[m] /\ m \in Nat
    BY <1>2
  <2>2. f \in have \/ \E n \in DOMAIN s : n < m + 1 /\ s[n] = f
    BY <1>3, <2>1 DEF DataBefore
  <2>3. ASSUME NEW n \in DOMAIN s, n < m + 1, s[n] = f
        PROVE  f \in more \/ \E o \in DOMAIN t : o < m /\ t[o] = f
    <3>1. CASE n = 1
      BY <1>1, <1>2, <2>3, <3>1
    <3>2. CASE n # 1
      <4>1. n - 1 \in DOMAIN t /\ n - 1 < m /\ (n - 1) + 1 = n
        BY <1>2, <2>1, <2>3, <3>2
      <4>2. t[n - 1] = f
        BY <1>2, <2>3, <4>1
      <4> QED BY <4>1, <4>2
    <3> QED BY <3>1, <3>2
  <2> QED BY <2>2, <2>3
<1>4. ASSUME x \in Markers, NEW f \in Vouches[x] PROVE f \in have
  <2>1. 1 \in DOMAIN s /\ s[1] = x /\ \A n \in DOMAIN s : ~(n < 1)
    BY <1>2
  <2> QED BY <1>4, <2>1 DEF DataBefore
<1> QED
  BY <1>1, <1>3, <1>4 DEF DataBefore

\* Handed to a root, a file is there.
LEMMA HandedIsThere ==
    ASSUME TypeOK, Grows, NEW i \in Instances, NEW f \in Files, NEW r \in Instances,
           HandsTo(i, f, r)
    PROVE  Has(r, f)' /\ Among(fix[i].over) = {r} \cup Among(fix'[i].over)
<1>1. disk' = disk /\ Has(r, f) => Has(r, f)'
  BY DEF Grows
<1>2. fix[i].held # Missing /\ disk'[r][f] = fix[i].held => Has(r, f)'
  BY DEF Has
<1>3. fix[i].over \in Seq(Instances)
  BY Typed
<1> QED
  BY <1>1, <1>2, <1>3, TakeHead DEF HandsTo

\* A repair is no longer half way with a file when all roots have it.
LEMMA HalfwayUntil ==
    ASSUME AllMirror, TypeOK, Grounded, Grows, [Next]_vars,
           NEW f \in Files, f \in halfway
    PROVE  f \in halfway' \/ Everywhere(f)'
<1>1. CASE \E w \in Workers : Serve(w)
  BY <1>1, ServeKeepsHalfway
<1>2. ASSUME NEW i \in Instances, RepairFile(i) PROVE f \in halfway' \/ Everywhere(f)'
  <2>1. PICK g \in Files :
           /\ g = Head(fix[i].todo)
           /\ \/ GivesUp(i, g) \/ Opens(i, g)
              \/ \E s \in GoodRoots(i, g) : TakesSource(i, g, s)
              \/ \E r \in Instances : HandsTo(i, g, r)
    BY <1>2, RepairFileDoes
  <2>2. CASE GivesUp(i, g) \/ Opens(i, g) \/ \E s \in GoodRoots(i, g) : TakesSource(i, g, s)
    BY <2>2 DEF GivesUp, Opens, TakesSource
  <2>3. ASSUME NEW r \in Instances, HandsTo(i, g, r) PROVE f \in halfway' \/ Everywhere(f)'
    <3>1. CASE halfway' = halfway \/ g # f
      BY <2>3, <3>1 DEF HandsTo
    <3>2. CASE fix'[i].over = <<>> /\ g = f
      <4>1. Has(r, f)' /\ Among(fix[i].over) = {r}
        BY <2>3, <3>2, HandedIsThere, EmptyHasNone
      <4>2. \A q \in Instances \ {r} : Has(q, f)
        BY <2>1, <2>3, <3>2, <4>1 DEF Grounded, FixGrounded, HandsTo, AllMirror
      <4> QED BY <4>1, <4>2 DEF Everywhere, Grows
    <3> QED BY <2>3, <3>1, <3>2 DEF HandsTo
  <2> QED BY <2>1, <2>2, <2>3
<1>3. ASSUME NEW i \in Instances, Crash(i) \/ Restart(i) \/ RepairRecords(i)
      PROVE  halfway' = halfway
  BY <1>3 DEF Crash, Restart, RepairRecords
<1>4. ASSUME NEW r \in Instances, NEW g \in Files, Rot(r, g) PROVE halfway' = halfway
  BY <1>4 DEF Rot
<1>5. CASE UNCHANGED vars
  BY <1>5 DEF vars
<1> QED
  BY <1>1, <1>2, <1>3, <1>4, <1>5 DEF Next

BroughtStays == \A m \in Markers : Brought(m) => Brought(m)'

LEMMA StepBrought ==
    ASSUME AllMirror, TypeOK, Grounded, Grows, [Next]_vars
    PROVE  BroughtStays
<1> SUFFICES ASSUME NEW m \in Markers, Brought(m) PROVE Brought(m)'
  BY DEF BroughtStays
<1>1. m \in Files
  BY ReplicatedStoreAssumption
<1>2. Everywhere(m) => Everywhere(m)'
  BY <1>1 DEF Everywhere, Grows
<1>3. m \in halfway => m \in halfway' \/ Everywhere(m)'
  BY <1>1, HalfwayUntil
<1> QED
  BY <1>2, <1>3 DEF Brought

\* A repair that hands a file to a root that was without it is half way with it, or
\* has brought it everywhere.
LEMMA HandedIsBrought ==
    ASSUME AllMirror, TypeOK, Grounded, Grows, Vouched, BroughtStays, [Next]_vars,
           NEW i \in Instances, NEW m \in Markers, NEW r \in Instances,
           Replaces(i, m, r), ~Has(r, m)
    PROVE  Brought(m)'
<1>1. m \in Files
  BY ReplicatedStoreAssumption
<1>2. m \in halfway
  <2>1. ~Everywhere(m)
    BY DEF Everywhere
  <2> QED BY <1>1, <2>1 DEF Vouched, HalfwayWith, Replaces
<1>3. CASE ThirdRoot
  BY <1>2, <1>3 DEF Brought, BroughtStays
<1>4. CASE ~ThirdRoot
  <2>1. fix[i].from \in Instances /\ Has(fix[i].from, m)
    BY <1>1, Typed DEF Grounded, FixGrounded, Replaces
  <2>2. \A q \in Instances : q = r \/ q = fix[i].from
    BY <1>4, <2>1 DEF ThirdRoot
  <2>3. Has(r, m)'
    BY DEF Has, Replaces
  <2> QED BY <1>1, <2>1, <2>2, <2>3 DEF Brought, Everywhere, Grows
<1> QED
  BY <1>3, <1>4

\* Where a marker is new, its data are there, or a repair hands it around.
LEMMA MarkerComes ==
    ASSUME VouchedFirst, AllMirror, TypeOK, TypeOK', Grounded, Grows, Vouched, [Next]_vars,
           NEW r \in Instances, NEW m \in Markers, ~Has(r, m), Has(r, m)'
    PROVE  \/ \A f \in Vouches[m] : Has(r, f)'
           \/ Brought(m)' /\ HandedAround(m)
<1>0. m \in Files /\ Vouches[m] \subseteq Files \ Markers
  BY ReplicatedStoreAssumption DEF VouchedFirst
<1>1. disk[r][m] = Missing /\ disk'[r][m] # Missing
  BY DEF Has
<1>2. ASSUME NEW w \in Workers, WriteFile(w) PROVE \A f \in Vouches[m] : Has(r, f)'
  <2>1. PICK h \in Instances, f \in Files, v \in 1 .. MaxVersion : Wrote(w, h, f, v)
    BY <1>2, WriteFileWrites
  <2>2. /\ h = Home[w] /\ job[w].todo # <<>> /\ job[w].pc = "writing" /\ f = Head(job[w].todo)
        /\ r = h /\ m = f
    BY <1>0, <1>1, <2>1 DEF Wrote
  <2>3. PICK s \in Seq(Files) : s = job[w].todo /\ s # <<>> /\ Head(s) = m
    BY <2>2, Typed
  <2>4. PICK have : have = FilesUnder(r) /\ DataBefore(s, have)
    BY <2>2, <2>3 DEF Vouched, VouchedJob
  <2>5. PICK more : have \subseteq more /\ m \in more
    <3>1. have \subseteq have \cup {m} /\ m \in have \cup {m}
      OBVIOUS
    <3> QED BY <3>1
  <2>7. Head(s) \in Markers => \A g \in Vouches[Head(s)] : g \in have
    BY <2>3, <2>4, <2>5, DataBeforeTail
  <2>6. \A g \in Vouches[m] : g \in have
    BY <2>3, <2>7
  <2> QED BY <1>0, <2>4, <2>6 DEF FilesUnder, Grows
<1>9. BroughtStays
  BY StepBrought
<1>3. ASSUME NEW w \in Workers, Copy(w)
      PROVE  (\A f \in Vouches[m] : Has(r, f)') \/ (Brought(m)' /\ HandedAround(m))
  <2>1. PICK s \in Instances, g \in Files :
           /\ job[w].pc = "copying" /\ job[w].left # <<>> /\ job[w].todo # <<>>
           /\ g = Head(job[w].todo) /\ s = Head(job[w].left)
           /\ \A x \in Instances, y \in Files : x # s \/ y # g => disk'[x][y] = disk[x][y]
    BY <1>3, CopyDoes
  <2>2. r = s /\ m = g
    BY <1>0, <1>1, <2>1
  <2>3. PICK j \in Jobs : j = job[w] /\ j.todo \in Seq(Files)
    BY Typed
  <2>4. /\ DataFirst(j.todo) /\ Among(j.todo) \subseteq Among(j.rels)
        /\ \A f \in Among(j.rels) \ Among(j.todo) : Has(r, f)
    BY <2>1, <2>2, <2>3 DEF Grounded, JobGrounded, Replicating
  <2>5. m \in Among(j.todo) /\ \A f \in Among(j.todo) : f \in Markers
    BY <2>1, <2>2, <2>3, <2>4, TakeHead
  <2>6. Brought(m) \/ Vouches[m] \subseteq Among(j.rels)
    BY <2>1, <2>3, <2>4, <2>5 DEF Vouched, VouchedJob, Committing
  <2>7. CASE Vouches[m] \subseteq Among(j.rels)
    BY <1>0, <2>4, <2>5, <2>7 DEF Grows
  <2>8. CASE Brought(m)
    <3>1. ~Everywhere(m)
      BY DEF Everywhere
    <3> QED BY <1>9, <2>8, <3>1 DEF Brought, BroughtStays, HandedAround
  <2> QED BY <2>6, <2>7, <2>8
<1>4. ASSUME NEW i \in Instances, RepairFile(i) PROVE Brought(m)' /\ HandedAround(m)
  <2>1. PICK q \in Instances, g \in Files : Replaces(i, g, q)
    BY <1>1, <1>4, RepairReplaces
  <2>2. q = r /\ g = m
    BY <1>0, <1>1, <2>1 DEF Replaces
  <2> QED BY <1>9, <2>1, <2>2, HandedIsBrought DEF HandedAround, Replaces
<1>5. ASSUME NEW s \in Instances, NEW g \in Files, Rot(s, g) PROVE FALSE
  <2>1. /\ disk[s][g] # Missing
        /\ \A x \in Instances, y \in Files : x # s \/ y # g => disk'[x][y] = disk[x][y]
    BY <1>5, RotDoes DEF Has
  <2> QED BY <1>0, <1>1, <2>1
<1> QED
  BY <1>1, <1>2, <1>3, <1>4, <1>5, DiskChanges

LEMMA JobStaysVouched ==
    ASSUME Grows, BroughtStays, NEW h \in Instances, NEW j \in Jobs, VouchedJob(h, j)
    PROVE  VouchedJob(h, j)'
<1>1. \A f \in FilesUnder(h) : f \in FilesUnder(h)'
  BY DEF FilesUnder, Grows
<1>2. DataBefore(j.todo, FilesUnder(h)) => DataBefore(j.todo, FilesUnder(h)')
  BY <1>1 DEF DataBefore
<1> QED
  BY <1>2 DEF VouchedJob, BroughtStays

LEMMA ServeVouched ==
    ASSUME VouchedFirst, TypeOK, TypeOK', Grounded, Grows, Vouched, BroughtStays,
           NEW w \in Workers, Serve(w),
           NEW h \in Instances, NEW j \in Jobs, NEW k \in Jobs,
           h = Home[w], j = job[w], k = job'[w]
    PROVE  VouchedJob(h, k)'
<1>0. (\A m \in Markers : m \in Files) /\ j.todo \in Seq(Files)
  BY ReplicatedStoreAssumption DEF Jobs
<1>1. VouchedJob(h, j)'
  BY JobStaysVouched DEF Vouched
<1>2. ASSUME k.pc # "writing", j.pc \in Committing, k.rels = j.rels
      PROVE  VouchedJob(h, k)'
  BY <1>1, <1>2 DEF VouchedJob
<1>3. ASSUME NEW c \in Kinds, Receive(w, c) PROVE VouchedJob(h, k)'
  <2>1. k.pc = "writing" /\ k.todo = Writes[c] /\ \A f \in Needs[c] : Has(h, f)
    BY <1>3, ReceiveDoes
  <2>2. Needs[c] \subseteq Files
    BY ConstantsTyped
  <2>3. \A f \in Needs[c] : f \in FilesUnder(h)'
    BY <2>1, <2>2 DEF FilesUnder, Grows
  <2>4. DataBefore(Writes[c], FilesUnder(h)')
    BY <2>3 DEF VouchedFirst, DataBefore
  <2> QED BY <2>1, <2>4 DEF VouchedJob, Committing
<1>4. CASE WriteFile(w)
  <2>1. PICK f \in Files, v \in 1 .. MaxVersion :
           /\ j.todo # <<>> /\ f = Head(j.todo) /\ v = newest[f] + 1
           /\ j.pc = "writing" /\ k.pc = "writing"
           /\ disk'[h][f] = [v |-> v, ok |-> TRUE]
           /\ k.todo = Tail(j.todo)
    BY <1>4, WriteFileDoes
  <2>2. f \in FilesUnder(h)'
    BY <2>1 DEF FilesUnder, Has, Missing
  <2>3. DataBefore(j.todo, FilesUnder(h)')
    BY <1>1, <2>1 DEF VouchedJob
  <2>4. DataBefore(k.todo, FilesUnder(h)')
    <3>1. PICK more : more = FilesUnder(h)'
      OBVIOUS
    <3> QED BY <1>0, <2>1, <2>2, <2>3, <3>1, DataBeforeTail
  <2> QED BY <2>1, <2>4 DEF VouchedJob, Committing
<1>5. CASE StartCommit(w)
  <2>1. k.pc = "recording" /\ Among(k.rels) = FilesUnder(h)
    BY <1>5, StartCommitDoes
  <2>2. ASSUME NEW m \in Among(k.rels) \cap Markers
        PROVE  Brought(m)' \/ Vouches[m] \subseteq Among(k.rels)
    <3>1. Has(h, m) /\ Vouches[m] \subseteq Files
      BY <2>1, <2>2 DEF FilesUnder, VouchedFirst
    <3>2. Brought(m) \/ \A f \in Vouches[m] : Has(h, f)
      BY <3>1 DEF Vouched
    <3>3. Brought(m) => Brought(m)'
      BY DEF BroughtStays
    <3> QED BY <2>1, <3>1, <3>2, <3>3 DEF FilesUnder
  <2> QED BY <2>1, <2>2 DEF VouchedJob
<1>6. CASE WriteRecords(w)
  <2>1. j.pc = "recording" /\ k.pc = "replicating" /\ k.rels = j.rels
    BY <1>6, WriteRecordsDoes
  <2> QED BY <1>2, <2>1 DEF Committing
<1>7. CASE Compare(w)
  <2>1. j.pc = "replicating" /\ k.pc # "writing" /\ k.rels = j.rels
    BY <1>7, CompareDoes
  <2> QED BY <1>2, <2>1 DEF Committing
<1>8. CASE Copy(w)
  <2>1. j.pc = "copying" /\ k.pc # "writing" /\ k.rels = j.rels
    BY <1>8, CopyDoes
  <2> QED BY <1>2, <2>1 DEF Committing
<1>9. CASE Merge(w)
  <2>1. j.pc = "replicating" /\ k.pc # "writing" /\ k.rels = j.rels
    BY <1>9, MergeDoes DEF OnToNext
  <2> QED BY <1>2, <2>1 DEF Committing
<1>10. CASE ReplicaFails(w)
  <2>1. j.pc \in {"replicating", "copying"} /\ k.pc # "writing" /\ k.rels = j.rels
    BY <1>10, ReplicaFailsDoes DEF OnToNext
  <2> QED BY <1>2, <2>1 DEF Committing
<1>11. CASE PrimaryFails(w) \/ Answer(w)
  <2>1. k = Idle
    BY <1>11, PrimaryFailsDoes, AnswerDoes
  <2>2. k.pc = "idle"
    BY <2>1 DEF Idle
  <2> QED BY <2>2 DEF VouchedJob, Committing
<1> QED
  BY <1>3, <1>4, <1>5, <1>6, <1>7, <1>8, <1>9, <1>10, <1>11 DEF Serve

LEMMA StepHalfwayWith ==
    ASSUME AllMirror, TypeOK, TypeOK', Grounded, Grows, Vouched, [Next]_vars, NEW i \in Instances
    PROVE  HalfwayWith(fix[i])'
<1>1. PICK x \in Fixes, y \in Fixes : x = fix[i] /\ y = fix'[i]
  BY Typed, TypedAfter
<1>2. \A f \in Files : x.over # <<>> /\ f = Head(x.todo) => f \in halfway' \/ Everywhere(f)'
  <2>1. \A f \in Files : Everywhere(f) => Everywhere(f)'
    BY DEF Everywhere, Grows
  <2> QED BY <1>1, <2>1, HalfwayUntil DEF Vouched, HalfwayWith
<1>3. ASSUME y.over # <<>>, y.over = x.over \/ x.over # <<>>, y.todo = x.todo
      PROVE  \A f \in Files : y.over # <<>> /\ f = Head(y.todo) => f \in halfway' \/ Everywhere(f)'
  BY <1>2, <1>3
<1>4. ASSUME y.over # <<>>, NEW f \in Files, f = Head(y.todo)
      PROVE  f \in halfway' \/ Everywhere(f)'
  <2>1. CASE y = x
    BY <1>2, <1>4, <2>1
  <2>2. CASE Crash(i) \/ Restart(i)
    BY <1>1, <1>4, <2>2, CrashDoes, RestartDoes, NoRepairTyped
  <2>3. CASE RepairFile(i)
    <3>1. PICK g \in Files :
             /\ g = Head(x.todo)
             /\ \/ GivesUp(i, g) \/ Opens(i, g)
                \/ \E s \in GoodRoots(i, g) : TakesSource(i, g, s)
                \/ \E r \in Instances : HandsTo(i, g, r)
      BY <1>1, <2>3, RepairFileDoes
    <3>2. CASE GivesUp(i, g)
      BY <1>1, <1>4, <3>2 DEF GivesUp
    <3>3. CASE Opens(i, g)
      <4>1. x.over # <<>> /\ y.todo = x.todo
        BY <1>1, <3>3 DEF Opens
      <4> QED BY <1>3, <1>4, <4>1
    <3>4. ASSUME NEW s \in GoodRoots(i, g), TakesSource(i, g, s) PROVE f \in halfway'
      <4>1. y.todo = x.todo /\ halfway' = halfway \cup {g}
        BY <1>1, <3>4 DEF TakesSource
      <4> QED BY <1>4, <3>1, <4>1
    <3>5. ASSUME NEW r \in Instances, HandsTo(i, g, r) PROVE f \in halfway' \/ Everywhere(f)'
      <4>1. x.over # <<>> /\ y.todo = x.todo
        BY <1>1, <1>4, <3>5 DEF HandsTo
      <4> QED BY <1>3, <1>4, <4>1
    <3> QED BY <3>1, <3>2, <3>3, <3>4, <3>5
  <2>4. CASE RepairRecords(i)
    <3>1. y = NoRepair \/ (y.over = x.over /\ y.todo = x.todo)
      BY <1>1, <2>4, RepairRecordsDoes, RepairRecordsKeeps
    <3> QED BY <1>3, <1>4, <3>1, NoRepairTyped
  <2> QED BY <1>1, <2>1, <2>2, <2>3, <2>4, RepairsChange
<1> QED
  BY <1>1, <1>4 DEF HalfwayWith

LEMMA StepVouched ==
    ASSUME VouchedFirst, AllMirror, Attainable, TypeOK, Grounded, Vouched, [Next]_vars
    PROVE  Vouched'
<1>0. /\ TypeOK' /\ Grows /\ BroughtStays /\ \A m \in Markers : m \in Files
      /\ \A i \in Instances : HalfwayWith(fix[i])'
  <2>1. TypeOK' /\ Grows
    BY StepTyped, StepGrows
  <2> QED BY <2>1, StepBrought, StepHalfwayWith, ReplicatedStoreAssumption
<1>1. ASSUME NEW m \in Markers
      PROVE  Brought(m)' \/ \A r \in Instances : Has(r, m)' => \A f \in Vouches[m] : Has(r, f)'
  <2>1. CASE Brought(m)
    BY <1>0, <2>1 DEF BroughtStays
  <2>2. CASE ~Brought(m)
    <3> SUFFICES ASSUME ~Brought(m)', NEW r \in Instances, Has(r, m)', NEW f \in Vouches[m]
                 PROVE  Has(r, f)'
      OBVIOUS
    <3>1. CASE Has(r, m)
      <4>1. Has(r, f) /\ f \in Files
        BY <2>2, <3>1 DEF Vouched, VouchedFirst
      <4> QED BY <1>0, <4>1 DEF Grows
    <3>2. CASE ~Has(r, m)
      BY <1>0, <3>2, MarkerComes
    <3> QED BY <3>1, <3>2
  <2> QED BY <2>1, <2>2
<1>2. ASSUME NEW w \in Workers PROVE VouchedJob(Home[w], job[w])'
  <2>1. PICK h \in Instances, j \in Jobs, k \in Jobs : h = Home[w] /\ j = job[w] /\ k = job'[w]
    BY <1>0, Typed, TypedAfter, ConstantsTyped
  <2>2. VouchedJob(h, k)'
    <3>1. CASE k = j
      BY <1>0, <2>1, <3>1, JobStaysVouched DEF Vouched
    <3>2. CASE Serve(w)
      BY <1>0, <2>1, <3>2, ServeVouched
    <3>3. CASE k = Idle
      <4>1. k.pc = "idle"
        BY <3>3 DEF Idle
      <4> QED BY <4>1 DEF VouchedJob, Committing
    <3> QED BY <2>1, <3>1, <3>2, <3>3, JobsChange
  <2> QED BY <2>1, <2>2 DEF VouchedJob
<1> QED
  BY <1>0, <1>1, <1>2 DEF Vouched

LEMMA InitVouched == Init => Vouched
<1> SUFFICES ASSUME Init PROVE Vouched
  OBVIOUS
<1>1. \A r \in Instances, f \in Files : disk[r][f] = Missing
  BY DEF Init
<1>2. \A w \in Workers : job[w].pc = "idle"
  BY DEF Init, Idle
<1>3. \A i \in Instances : HalfwayWith(fix[i])
  BY NoRepairTyped DEF Init, HalfwayWith
<1> QED
  BY <1>1, <1>2, <1>3, ReplicatedStoreAssumption DEF Vouched, VouchedJob, Has, Committing

\* commit copies data before markers: however requests, failing replicas, crashes,
\* repairs and decay interleave, a marker comes to a root after its data, unless a
\* startup repair is handing that very marker around or, with three roots or more,
\* was killed over it and none has finished it since.
THEOREM StoreMarkerAfterData ==
    ASSUME Attainable, VouchedFirst, AllMirror
    PROVE  Spec => MarkerAfterData
<1>1. Init => TypeOK /\ Grounded /\ Vouched
  BY InitTyped, InitGrounded, InitVouched
<1>2. TypeOK /\ Grounded /\ Vouched /\ [Next]_vars => TypeOK' /\ Grounded' /\ Vouched'
  BY StepTyped, StepGrounded, StepVouched
<1>3. TypeOK /\ Grounded /\ Vouched /\ [Next]_vars =>
        [\A r \in Instances, m \in Markers :
            ~Has(r, m) /\ Has(r, m)' /\ ~HandedAround(m)
               => \A f \in Vouches[m] : Has(r, f)']_vars
  BY StepTyped, StepGrows, MarkerComes
<1> QED
  BY <1>1, <1>2, <1>3, PTL DEF Spec, MarkerAfterData

-----------------------------------------------------------------------------
(* What is acknowledged is on a quorum.                                    *)

LEMMA MoreCount ==
    ASSUME NEW E, IsFiniteSet(E), NEW D \in SUBSET E, NEW n \in Nat, n <= Cardinality(D)
    PROVE  /\ n <= Cardinality(E) /\ IsFiniteSet(D)
           /\ \A r \in E \ D : n + 1 <= Cardinality(E)
<1>1. IsFiniteSet(D) /\ Cardinality(D) <= Cardinality(E)
      /\ Cardinality(E) \in Nat /\ Cardinality(D) \in Nat
  BY FS_Subset, FS_CardinalityType
<1>2. ASSUME NEW r \in E \ D PROVE n + 1 <= Cardinality(E)
  <2>1. PICK C : C = D \cup {r}
    OBVIOUS
  <2>2. IsFiniteSet(C) /\ Cardinality(C) = Cardinality(D) + 1
    BY <1>1, <2>1, FS_AddElement
  <2>3. C \subseteq E
    BY <2>1
  <2>4. Cardinality(C) <= Cardinality(E)
    BY <2>3, FS_Subset
  <2> QED BY <1>1, <2>2, <2>4
<1> QED
  BY <1>1, <1>2

\* The job after a step that is neither a merge nor the next job's first: what it
\* has left shrinks, its files are the same and it counts no more than before.
LEMMA DoneGrows ==
    ASSUME Grows, NEW h \in Instances, NEW j \in Jobs, NEW k \in Jobs, k.rels = j.rels,
           Among(k.left) \subseteq Among(j.left), k.reached = j.reached,
           j.reached <= Cardinality(Done(h, j))
    PROVE  k.reached <= Cardinality(Done(h, k)')
<1>1. PICK D, E : D = Done(h, j) /\ E = Done(h, k)'
  OBVIOUS
<1>2. IsFiniteSet(Among(Replicas[h])) /\ Among(Replicas[h]) \subseteq Instances
  BY ConstantsTyped, AmongIsFinite
<1>3. Among(j.rels) \subseteq Files /\ j.reached \in Nat
  BY AmongIsFinite DEF Jobs
<1>4. D \subseteq E
  BY <1>1, <1>2, <1>3 DEF Done, Grows
<1>5. IsFiniteSet(E)
  <2>1. E \subseteq Among(Replicas[h])
    BY <1>1 DEF Done
  <2> QED BY <1>2, <2>1, FS_Subset
<1> QED
  BY <1>1, <1>3, <1>4, <1>5, MoreCount

LEMMA ServeReached ==
    ASSUME Attainable, TypeOK, TypeOK', Grounded, Grows, ReachedDone, NEW w \in Workers, Serve(w),
           NEW h \in Instances, NEW j \in Jobs, NEW k \in Jobs,
           h = Home[w], j = job[w], k = job'[w]
    PROVE  /\ k.pc \in {"writing", "recording"} => k.reached = 0
           /\ k.pc \in Replicating => k.reached <= Cardinality(Done(h, k)')
<1> DEFINE Goal == /\ k.pc \in {"writing", "recording"} => k.reached = 0
                   /\ k.pc \in Replicating => k.reached <= Cardinality(Done(h, k)')
<1>0. /\ j.pc \in {"writing", "recording"} => j.reached = 0
      /\ j.pc \in Replicating => j.reached <= Cardinality(Done(h, j))
  BY DEF ReachedDone
<1>1. ASSUME k.pc \in Replicating, j.pc \in Replicating, k.rels = j.rels, k.left = j.left,
             k.reached = j.reached
      PROVE  Goal
  BY <1>0, <1>1, DoneGrows DEF Replicating
<1>2. ASSUME NEW c \in Kinds, Receive(w, c) PROVE Goal
  BY <1>2, ReceiveDoes DEF Replicating
<1>3. CASE WriteFile(w)
  <2>1. job[w].pc = "writing" /\ job'[w].pc = "writing" /\ job'[w].reached = job[w].reached
    BY <1>3, WriteFileKeeps
  <2> QED BY <1>0, <2>1 DEF Replicating
<1>4. CASE StartCommit(w)
  <2>1. j.pc = "writing" /\ k.pc = "recording" /\ k.reached = j.reached
    BY <1>4, StartCommitDoes
  <2> QED BY <1>0, <2>1 DEF Replicating
<1>5. CASE WriteRecords(w)
  <2>1. j.pc = "recording" /\ k.pc = "replicating" /\ k.reached = j.reached
    BY <1>5, WriteRecordsDoes
  <2>2. PICK E : E = Done(h, k)'
    OBVIOUS
  <2>3. IsFiniteSet(E)
    <3>1. E \subseteq Among(Replicas[h])
      BY <2>2 DEF Done
    <3> QED BY <3>1, RequiredIs, FS_Subset
  <2>4. Cardinality(E) \in Nat
    BY <2>3, FS_CardinalityType
  <2> QED BY <1>0, <2>1, <2>2, <2>4
<1>6. CASE Compare(w)
  <2>1. j.pc = "replicating" /\ k.pc \in Replicating /\ k.rels = j.rels /\ k.left = j.left
        /\ k.reached = j.reached
    BY <1>6, CompareDoes DEF Replicating
  <2> QED BY <1>1, <2>1 DEF Replicating
<1>7. CASE Copy(w)
  <2>1. j.pc = "copying" /\ k.pc = "replicating" /\ k.rels = j.rels /\ k.left = j.left
        /\ k.reached = j.reached
    BY <1>7, CopyDoes
  <2> QED BY <1>1, <2>1 DEF Replicating
<1>8. ASSUME OnToNext(w) PROVE
         /\ k.rels = j.rels /\ k.pc = "replicating" /\ j.left # <<>>
         /\ Among(k.left) \subseteq Among(j.left) /\ Head(j.left) \in Among(j.left)
         /\ NoRepeats(j.left) => Head(j.left) \notin Among(k.left)
  <2>1. k.rels = j.rels /\ k.pc = "replicating" /\ j.left # <<>> /\ k.left = Tail(j.left)
    BY <1>8 DEF OnToNext
  <2>2. j.left \in Seq(Instances)
    BY DEF Jobs
  <2> QED BY <2>1, <2>2, TakeHead
<1>9. CASE ReplicaFails(w)
  <2>1. OnToNext(w) /\ k.reached = j.reached /\ j.pc \in Replicating
    BY <1>9, ReplicaFailsDoes DEF Replicating
  <2> QED BY <1>0, <1>8, <2>1, DoneGrows
<1>10. CASE Merge(w)
  <2>1. PICK r \in Instances :
           /\ r = Head(j.left) /\ j.pc = "replicating" /\ j.todo = <<>>
           /\ OnToNext(w) /\ k.reached = j.reached + 1
    BY <1>10, MergeDoes
  <2>2. /\ Among(j.left) \subseteq Among(Replicas[h]) /\ NoRepeats(j.left)
        /\ \A f \in Among(j.rels) \ Among(j.todo) : Has(r, f)
    BY <1>8, <2>1 DEF Grounded, JobGrounded, Replicating
  <2>3. PICK D, E : D = Done(h, j) /\ E = Done(h, k)'
    OBVIOUS
  <2>4. Among(j.rels) \subseteq Files /\ j.reached \in Nat
        /\ Among(Replicas[h]) \subseteq Instances
    BY ConstantsTyped, AmongIsFinite DEF Jobs
  <2>5. D \subseteq E
    BY <1>8, <2>1, <2>3, <2>4 DEF Done, Grows
  <2>6. r \in E /\ r \notin D
    BY <1>8, <2>1, <2>2, <2>3, <2>4, EmptyHasNone DEF Done, Grows
  <2>7. IsFiniteSet(E)
    <3>1. E \subseteq Among(Replicas[h])
      BY <2>3 DEF Done
    <3> QED BY <3>1, RequiredIs, FS_Subset
  <2>8. j.reached <= Cardinality(D)
    BY <1>0, <2>1, <2>3 DEF Replicating
  <2>9. j.reached + 1 <= Cardinality(E)
    BY <2>4, <2>5, <2>6, <2>7, <2>8, MoreCount
  <2> QED BY <1>8, <2>1, <2>3, <2>9
<1>11. CASE PrimaryFails(w) \/ Answer(w)
  <2>1. k = Idle
    BY <1>11, PrimaryFailsDoes, AnswerDoes
  <2>2. k.pc = "idle"
    BY <2>1 DEF Idle
  <2> QED BY <2>2 DEF Replicating
<1> QED
  BY <1>2, <1>3, <1>4, <1>5, <1>6, <1>7, <1>9, <1>10, <1>11 DEF Serve

LEMMA StepReached ==
    ASSUME Attainable, TypeOK, Grounded, ReachedDone, [Next]_vars
    PROVE  ReachedDone'
<1>0. TypeOK' /\ Grows
  BY StepTyped, StepGrows
<1>1. ASSUME NEW w \in Workers
      PROVE  /\ job'[w].pc \in {"writing", "recording"} => job'[w].reached = 0
             /\ job'[w].pc \in Replicating =>
                   job'[w].reached <= Cardinality(Done(Home[w], job[w])')
  <2>1. PICK h \in Instances, j \in Jobs, k \in Jobs : h = Home[w] /\ j = job[w] /\ k = job'[w]
    BY <1>0, Typed, TypedAfter, ConstantsTyped
  <2>2. /\ k.pc \in {"writing", "recording"} => k.reached = 0
        /\ k.pc \in Replicating => k.reached <= Cardinality(Done(h, k)')
    <3>1. CASE k = j
      <4>1. /\ j.pc \in {"writing", "recording"} => j.reached = 0
            /\ j.pc \in Replicating => j.reached <= Cardinality(Done(h, j))
        BY <2>1 DEF ReachedDone
      <4> QED BY <1>0, <3>1, <4>1, DoneGrows
    <3>2. CASE Serve(w)
      BY <1>0, <2>1, <3>2, ServeReached
    <3>3. CASE k = Idle
      <4>1. k.pc = "idle"
        BY <3>3 DEF Idle
      <4> QED BY <4>1 DEF Replicating
    <3> QED BY <2>1, <3>1, <3>2, <3>3, JobsChange
  <2>3. Done(Home[w], job[w])' = Done(h, k)'
    BY <2>1 DEF Done
  <2> QED BY <2>1, <2>2, <2>3
<1> QED
  BY <1>1 DEF ReachedDone

LEMMA StepAckedThere ==
    ASSUME TypeOK, Grounded, ReachedDone, AckedThere, [Next]_vars
    PROVE  AckedThere'
<1>0. Grows
  BY StepGrows
<1>1. ASSUME NEW i \in Instances, NEW f \in Files, acked'[i][f] > 0
      PROVE  /\ Has(i, f)'
             /\ MinReplicas[i] <= Cardinality({r \in Among(Replicas[i]) : Has(r, f)'})
  <2>0. /\ Among(Replicas[i]) \subseteq Instances /\ IsFiniteSet(Among(Replicas[i]))
        /\ MinReplicas[i] \in Nat
    BY ConstantsTyped, AmongIsFinite
  <2>1. PICK C, D : /\ C = {r \in Among(Replicas[i]) : Has(r, f)}
                    /\ D = {r \in Among(Replicas[i]) : Has(r, f)'}
    OBVIOUS
  <2>2. C \subseteq D
    BY <1>0, <2>0, <2>1 DEF Grows
  <2>3. IsFiniteSet(D)
    <3>1. D \subseteq Among(Replicas[i])
      BY <2>1
    <3> QED BY <2>0, <3>1, FS_Subset
  <2>4. CASE acked'[i][f] = acked[i][f]
    <3>1. Has(i, f) /\ MinReplicas[i] <= Cardinality(C)
      BY <1>1, <2>1, <2>4 DEF AckedThere
    <3>2. MinReplicas[i] <= Cardinality(D)
      BY <2>0, <2>2, <2>3, <3>1, MoreCount
    <3> QED BY <1>0, <2>1, <3>1, <3>2 DEF Grows
  <2>5. ASSUME NEW w \in Workers, Answer(w), acked'[i][f] # acked[i][f]
        PROVE  Has(i, f)' /\ MinReplicas[i] <= Cardinality(D)
    <3>1. PICK j \in Jobs : j = job[w]
      BY Typed
    <3>2. /\ j.pc = "replicating" /\ i = Home[w] /\ j.reached >= MinReplicas[i]
          /\ j.wrote[f] > acked[i][f]
      BY <2>5, <3>1, AnswerDoes
    <3>3. j.wrote[f] > 0
      <4>1. j.wrote[f] \in Nat /\ acked[i][f] \in Nat
        BY Typed, ConstantsTyped DEF Jobs
      <4> QED BY <3>2, <4>1
    <3>4. Has(i, f) /\ f \in Among(j.rels)
      BY <3>1, <3>2, <3>3 DEF Grounded, JobGrounded, Committing
    <3>5. PICK E : E = Done(i, j)
      OBVIOUS
    <3>6. E \subseteq C
      BY <2>1, <3>4, <3>5 DEF Done
    <3>7. j.reached <= Cardinality(E) /\ j.reached \in Nat
      BY <3>1, <3>2, <3>5 DEF ReachedDone, Replicating, Jobs
    <3>8. E \subseteq D
      BY <2>2, <3>6
    <3>9. j.reached <= Cardinality(D) /\ Cardinality(D) \in Nat
      BY <2>3, <3>7, <3>8, MoreCount, FS_CardinalityType
    <3> QED BY <1>0, <2>0, <3>2, <3>4, <3>7, <3>9 DEF Grows
  <2> QED BY <2>1, <2>4, <2>5, AckedChanges
<1> QED
  BY <1>1 DEF AckedThere

\* Who writes after a step wrote before it, or sets out, or has just written one file.
LEMMA WritersAfter ==
    ASSUME TypeOK, [Next]_vars, NEW w \in Workers, job'[w].pc = "writing"
    PROVE  \/ job'[w] = job[w]
           \/ \E c \in Kinds : Receive(w, c)
           \/ WriteFile(w)
<1>1. CASE job'[w] = Idle
  BY <1>1 DEF Idle
<1>2. CASE Serve(w)
  <2>1. CASE StartCommit(w)
    BY <2>1, StartCommitDoes
  <2>2. CASE WriteRecords(w)
    BY <2>2, WriteRecordsDoes
  <2>3. CASE Compare(w)
    BY <2>3, CompareDoes
  <2>4. CASE Copy(w)
    BY <2>4, CopyDoes
  <2>5. CASE Merge(w)
    BY <2>5, MergeDoes DEF OnToNext
  <2>6. CASE ReplicaFails(w)
    BY <2>6, ReplicaFailsDoes DEF OnToNext
  <2>7. CASE PrimaryFails(w) \/ Answer(w)
    <3>1. job'[w] = Idle
      BY <2>7, PrimaryFailsDoes, AnswerDoes
    <3> QED BY <3>1 DEF Idle
  <2> QED
    BY <1>2, <2>1, <2>2, <2>3, <2>4, <2>5, <2>6, <2>7 DEF Serve
<1> QED
  BY <1>1, <1>2, JobsChange

LEMMA OnceInTail ==
    ASSUME NEW s \in Seq(Files), s # <<>>, OnceIn(s)
    PROVE  OnceIn(Tail(s)) /\ (Head(s) \notin Rewritten => Head(s) \notin Among(Tail(s)))
<1>1. PICK x \in Files, t \in Seq(Files) : x = Head(s) /\ t = Tail(s)
  BY HeadTailProperties
<1>2. /\ Len(t) \in Nat /\ Len(s) = Len(t) + 1 /\ s[1] = x
      /\ DOMAIN s = 1 .. Len(s) /\ DOMAIN t = 1 .. Len(t)
      /\ \A i \in 1 .. Len(t) : t[i] = s[i + 1]
  BY <1>1, HeadTailProperties
<1>3. 1 \in DOMAIN s /\ \A i \in DOMAIN t : i + 1 \in DOMAIN s /\ i + 1 # 1 /\ i \in Nat
  BY <1>2
<1>4. ASSUME NEW m \in DOMAIN t, NEW n \in DOMAIN t, t[m] = t[n], t[m] \notin Rewritten
      PROVE  m = n
  <2>1. m + 1 = n + 1
    BY <1>2, <1>3, <1>4 DEF OnceIn
  <2> QED BY <1>3, <2>1
<1>5. ASSUME NEW n \in DOMAIN t, t[n] = x, x \notin Rewritten PROVE FALSE
  BY <1>2, <1>3, <1>5 DEF OnceIn
<1> QED
  BY <1>1, <1>4, <1>5 DEF OnceIn, Among

\* What is left to write, after a step.
LEMMA TodoAfter ==
    ASSUME OncePerRequest, TypeOK, WrittenOnceOnly, [Next]_vars, NEW w \in Workers,
           job'[w].pc = "writing"
    PROVE  /\ OnceIn(job'[w].todo)
           /\ \/ /\ job[w].pc = "writing" /\ job'[w] = job[w]
              \/ /\ job[w].pc = "writing" /\ OthersWork(w)
                 /\ Among(job'[w].todo) \subseteq Among(job[w].todo)
                 /\ \A f \in Files \ Rewritten : newest'[f] # newest[f] =>
                       f \in Among(job[w].todo) /\ f \notin Among(job'[w].todo)
              \/ /\ OthersWork(w) /\ newest' = newest
                 /\ \A f \in Among(job'[w].todo) \ Rewritten : Unused(f)
<1>1. CASE job'[w] = job[w]
  BY <1>1 DEF WrittenOnceOnly
<1>2. ASSUME NEW c \in Kinds, Receive(w, c)
      PROVE  /\ OnceIn(job'[w].todo) /\ OthersWork(w) /\ newest' = newest
             /\ \A f \in Among(job'[w].todo) \ Rewritten : Unused(f)
  <2>1. /\ job'[w].todo = Writes[c] /\ OthersWork(w) /\ newest' = newest
        /\ \A n \in DOMAIN Writes[c] : Writes[c][n] \notin Rewritten => Unused(Writes[c][n])
    BY <1>2, ReceiveDoes
  <2>2. \A f \in Among(Writes[c]) \ Rewritten : Unused(f)
    BY <2>1 DEF Among
  <2>3. OnceIn(Writes[c])
    BY DEF OncePerRequest, OnceIn
  <2> QED BY <2>1, <2>2, <2>3
<1>3. CASE WriteFile(w)
  <2>1. PICK i \in Instances, f \in Files, v \in 1 .. MaxVersion : Wrote(w, i, f, v)
    BY <1>3, WriteFileWrites
  <2>2. /\ job[w].pc = "writing" /\ job[w].todo # <<>> /\ f = Head(job[w].todo)
        /\ \A g \in Files : g # f => newest'[g] = newest[g]
        /\ job'[w].todo = Tail(job[w].todo) /\ OthersWork(w)
    BY <1>3, <2>1, WriteFileDoes DEF Wrote
  <2>3. PICK s \in Seq(Files) : s = job[w].todo /\ s # <<>> /\ OnceIn(s)
    BY <2>2, Typed DEF WrittenOnceOnly
  <2>4. /\ OnceIn(Tail(s)) /\ (f \notin Rewritten => f \notin Among(Tail(s)))
        /\ Among(s) = {f} \cup Among(Tail(s))
    BY <2>2, <2>3, OnceInTail, TakeHead
  <2> QED BY <2>2, <2>3, <2>4
<1> QED
  BY <1>1, <1>2, <1>3, WritersAfter

LEMMA StepOnce ==
    ASSUME OncePerRequest, TypeOK, WrittenOnceOnly, [Next]_vars
    PROVE  WrittenOnceOnly'
<1>0. TypeOK' /\ \A w \in Workers : Among(job[w].todo) \subseteq Files
  BY StepTyped, Typed, AmongIsFinite
\* Only a file that was to be written is.
<1>1. ASSUME NEW f \in Files, newest'[f] # newest[f]
      PROVE  \E w \in Workers : /\ job[w].pc = "writing" /\ f \in Among(job[w].todo)
                                /\ newest'[f] = newest[f] + 1
                                /\ f \notin Rewritten => f \notin Among(job'[w].todo)
  <2>1. PICK w \in Workers : WriteFile(w)
    <3>1. ASSUME NEW x \in Workers, Copy(x) PROVE newest' = newest
      BY <3>1 DEF Copy
    <3>2. ASSUME NEW i \in Instances, RepairFile(i) PROVE newest' = newest
      BY <3>2 DEF RepairFile, ExamineFile, PassCopy, OpenSource, ReplaceCopy
    <3>3. ASSUME NEW r \in Instances, NEW g \in Files, Rot(r, g) PROVE newest' = newest
      BY <3>3 DEF Rot
    <3> QED BY <1>1, <3>1, <3>2, <3>3, DiskChanges
  <2>2. PICK i \in Instances, g \in Files, v \in 1 .. MaxVersion : Wrote(w, i, g, v)
    BY <2>1, WriteFileWrites
  <2>3. /\ job[w].pc = "writing" /\ job[w].todo # <<>> /\ g = Head(job[w].todo)
        /\ f = g /\ newest'[f] = newest[f] + 1
    BY <1>1, <2>2 DEF Wrote
  <2>4. PICK s \in Seq(Files) : s = job[w].todo /\ s # <<>> /\ OnceIn(s)
    BY <2>3, Typed DEF WrittenOnceOnly
  <2>5. f \in Among(s) /\ (f \notin Rewritten => f \notin Among(Tail(s)))
    BY <2>3, <2>4, OnceInTail, TakeHead
  <2>6. job'[w].todo = Tail(s)
    BY <2>1, <2>4, WriteFileDoes
  <2> QED BY <2>3, <2>4, <2>5, <2>6
<1>2. ASSUME NEW f \in Files \ Rewritten PROVE newest'[f] <= 1
  <2>1. newest[f] <= 1 /\ newest[f] \in Nat
    BY Typed, ConstantsTyped DEF WrittenOnceOnly
  <2>2. CASE newest'[f] # newest[f]
    <3>1. newest'[f] = newest[f] + 1 /\ newest[f] = 0
      BY <1>1, <2>2 DEF WrittenOnceOnly
    <3> QED BY <3>1
  <2> QED BY <2>1, <2>2
<1>3. ASSUME NEW w \in Workers, job'[w].pc = "writing", NEW f \in Among(job'[w].todo) \ Rewritten
      PROVE  newest'[f] = 0
  <2>1. f \in Files
    BY <1>0, TypedAfter, AmongIsFinite
  <2>2. CASE job[w].pc = "writing" /\ job'[w] = job[w]
    <3>1. newest[f] = 0
      BY <1>3, <2>2 DEF WrittenOnceOnly
    <3>2. ASSUME newest'[f] # newest[f] PROVE FALSE
      <4>1. PICK x \in Workers : /\ job[x].pc = "writing" /\ f \in Among(job[x].todo)
                                 /\ f \notin Among(job'[x].todo)
        BY <1>1, <1>3, <2>1, <3>2
      <4>2. x = w
        BY <1>3, <2>2, <4>1 DEF WrittenOnceOnly
      <4> QED BY <1>3, <4>1, <4>2
    <3> QED BY <3>1, <3>2
  <2>3. CASE /\ job[w].pc = "writing" /\ Among(job'[w].todo) \subseteq Among(job[w].todo)
             /\ \A g \in Files \ Rewritten : newest'[g] # newest[g] =>
                   g \in Among(job[w].todo) /\ g \notin Among(job'[w].todo)
    BY <1>3, <2>1, <2>3 DEF WrittenOnceOnly
  <2>4. CASE newest' = newest /\ \A g \in Among(job'[w].todo) \ Rewritten : Unused(g)
    BY <1>3, <2>4 DEF Unused
  <2> QED BY <1>3, <2>2, <2>3, <2>4, TodoAfter
<1>4. ASSUME NEW w \in Workers, NEW x \in Workers, w # x, job'[w].pc = "writing",
             job'[x].pc = "writing", OthersWork(w),
             NEW f \in Among(job'[w].todo), f \in Among(job'[x].todo), f \notin Rewritten
      PROVE  FALSE
  <2>1. job'[x] = job[x] /\ job[x].pc = "writing" /\ f \in Among(job[x].todo)
    BY <1>4 DEF OthersWork
  <2>2. CASE job[w].pc = "writing" /\ Among(job'[w].todo) \subseteq Among(job[w].todo)
    BY <1>4, <2>1, <2>2 DEF WrittenOnceOnly
  <2>3. CASE \A g \in Among(job'[w].todo) \ Rewritten : Unused(g)
    BY <1>4, <2>1, <2>3 DEF Unused, Among
  <2> QED BY <1>4, <2>2, <2>3, TodoAfter
<1>5. ASSUME NEW w \in Workers, NEW x \in Workers, w # x, job'[w].pc = "writing",
             job'[x].pc = "writing"
      PROVE  Among(job'[w].todo) \cap Among(job'[x].todo) \subseteq Rewritten
  <2>1. CASE OthersWork(w) \/ OthersWork(x)
    BY <1>4, <1>5, <2>1
  <2>2. CASE /\ job[w].pc = "writing" /\ job'[w] = job[w]
             /\ job[x].pc = "writing" /\ job'[x] = job[x]
    BY <1>5, <2>2 DEF WrittenOnceOnly
  <2> QED BY <1>5, <2>1, <2>2, TodoAfter
<1>6. \A w \in Workers : job'[w].pc = "writing" => OnceIn(job'[w].todo)
  BY TodoAfter
<1> QED
  BY <1>2, <1>3, <1>5, <1>6 DEF WrittenOnceOnly

-----------------------------------------------------------------------------
(* One at a time.                                                          *)

\* Who sets out next to something under way overlaps; nothing makes that undone.
LEMMA Overlaps ==
    ASSUME TypeOK, [Next]_vars, ~overlapped'
    PROVE  /\ ~overlapped
           /\ \/ /\ \A w \in Workers : job'[w].pc # "idle" => job[w].pc # "idle"
                 /\ \A i \in Instances : up'[i] = "repairing" => up[i] = "repairing"
              \/ ~Busy /\ up' = up /\ \E w \in Workers : OthersWork(w)
              \/ /\ ~Busy /\ job' = job
                 /\ \E i \in Instances : \A x \in Instances : x # i => up'[x] = up[x]
<1> DEFINE NoNew == /\ \A w \in Workers : job'[w].pc # "idle" => job[w].pc # "idle"
                    /\ \A i \in Instances : up'[i] = "repairing" => up[i] = "repairing"
<1>0. Idle.pc = "idle"
  BY DEF Idle
<1>1. ASSUME NEW w \in Workers, NEW c \in Kinds, Receive(w, c)
      PROVE  ~overlapped /\ ~Busy /\ up' = up /\ OthersWork(w)
  BY <1>1, ReceiveDoes
<1>2. ASSUME NEW i \in Instances, Restart(i)
      PROVE  ~overlapped /\ ~Busy /\ job' = job /\ \A x \in Instances : x # i => up'[x] = up[x]
  BY <1>2, RestartDoes
<1>3. ASSUME NEW w \in Workers, job[w].pc # "idle" \/ job'[w].pc = "idle", OthersWork(w),
             UNCHANGED <<up, overlapped>>
      PROVE  ~overlapped /\ NoNew
  BY <1>3 DEF OthersWork
<1>4. ASSUME NEW w \in Workers, Serve(w), \A c \in Kinds : ~Receive(w, c)
      PROVE  /\ job[w].pc # "idle" \/ job'[w].pc = "idle"
             /\ OthersWork(w) /\ UNCHANGED <<up, overlapped>>
  <2>1. CASE WriteFile(w)
    BY <2>1, WriteFileKeeps
  <2>2. CASE StartCommit(w)
    BY <2>2, StartCommitDoes
  <2>3. CASE WriteRecords(w)
    BY <2>3, WriteRecordsDoes
  <2>4. CASE Compare(w)
    BY <2>4, CompareDoes
  <2>5. CASE Copy(w)
    BY <2>5, CopyDoes
  <2>6. CASE Merge(w)
    BY <2>6, MergeDoes DEF OnToNext
  <2>7. CASE ReplicaFails(w)
    BY <2>7, ReplicaFailsDoes DEF OnToNext
  <2>8. CASE PrimaryFails(w)
    BY <1>0, <2>8, PrimaryFailsDoes
  <2>9. CASE Answer(w)
    BY <1>0, <2>9, AnswerDoes
  <2> QED
    BY <1>4, <2>1, <2>2, <2>3, <2>4, <2>5, <2>6, <2>7, <2>8, <2>9 DEF Serve
<1>5. ASSUME NEW i \in Instances, Crash(i) PROVE ~overlapped /\ NoNew
  <2>1. /\ up'[i] = "down" /\ \A j \in Instances : j # i => up'[j] = up[j]
        /\ \A w \in Workers : job'[w] = job[w] \/ job'[w] = Idle
        /\ UNCHANGED overlapped
    BY <1>5, CrashDoes
  <2>2. \A j \in Instances : up'[j] = "repairing" => up[j] = "repairing"
    <3> SUFFICES ASSUME NEW j \in Instances, up'[j] = "repairing" PROVE up[j] = "repairing"
      OBVIOUS
    <3>1. j # i
      BY <2>1
    <3> QED BY <2>1, <3>1
  <2> QED BY <1>0, <2>1, <2>2
<1>6. ASSUME NEW i \in Instances, RepairFile(i) \/ RepairRecords(i) PROVE ~overlapped /\ NoNew
  <2>1. job' = job /\ UNCHANGED overlapped
    BY <1>6 DEF RepairFile, ExamineFile, PassCopy, OpenSource, ReplaceCopy,
       RepairRecords
  <2>2. up[i] = "repairing" /\ \A j \in Instances : j # i => up'[j] = up[j]
    <3>1. CASE RepairFile(i)
      BY <3>1, RepairFileDoes
    <3>2. CASE RepairRecords(i)
      BY <3>2, RepairRecordsDoes
    <3> QED BY <1>6, <3>1, <3>2
  <2> QED BY <2>1, <2>2
<1>7. ASSUME NEW r \in Instances, NEW f \in Files, Rot(r, f) PROVE ~overlapped /\ NoNew
  BY <1>7 DEF Rot
<1>8. ASSUME UNCHANGED vars PROVE ~overlapped /\ NoNew
  BY <1>8 DEF vars
<1>9. ASSUME NEW w \in Workers, Serve(w)
      PROVE  ~overlapped /\ (NoNew \/ (~Busy /\ up' = up /\ OthersWork(w)))
  BY <1>1, <1>3, <1>4, <1>9
<1> HIDE DEF NoNew
<1>10. /\ ~overlapped
       /\ \/ NoNew
          \/ ~Busy /\ up' = up /\ \E w \in Workers : OthersWork(w)
          \/ /\ ~Busy /\ job' = job
             /\ \E i \in Instances : \A x \in Instances : x # i => up'[x] = up[x]
  BY <1>2, <1>5, <1>6, <1>7, <1>8, <1>9 DEF Next
<1> QED
  BY <1>10 DEF NoNew

LEMMA StepAlone ==
    ASSUME TypeOK, Alone, [Next]_vars
    PROVE  Alone'
<1> SUFFICES ASSUME ~overlapped'
             PROVE  /\ \A w, x \in Workers : job'[w].pc # "idle" /\ job'[x].pc # "idle" => w = x
                    /\ \A i, j \in Instances : up'[i] = "repairing" /\ up'[j] = "repairing" => i = j
                    /\ \A w \in Workers, i \in Instances :
                          ~(job'[w].pc # "idle" /\ up'[i] = "repairing")
  BY DEF Alone
<1>1. CASE /\ \A w \in Workers : job'[w].pc # "idle" => job[w].pc # "idle"
           /\ \A i \in Instances : up'[i] = "repairing" => up[i] = "repairing"
  BY <1>1, Overlaps DEF Alone
<1>2. ASSUME NEW w \in Workers, ~Busy, up' = up, OthersWork(w)
      PROVE  /\ \A x \in Workers : job'[x].pc # "idle" => x = w
             /\ \A i \in Instances : up'[i] # "repairing"
  BY <1>2 DEF Busy, OthersWork
<1>3. ASSUME NEW i \in Instances, ~Busy, job' = job, \A x \in Instances : x # i => up'[x] = up[x]
      PROVE  /\ \A x \in Workers : job'[x].pc = "idle"
             /\ \A x \in Instances : up'[x] = "repairing" => x = i
  BY <1>3 DEF Busy
<1>4. CASE ~Busy /\ up' = up /\ \E w \in Workers : OthersWork(w)
  BY <1>2, <1>4
<1>5. CASE ~Busy /\ job' = job /\ \E i \in Instances : \A x \in Instances : x # i => up'[x] = up[x]
  BY <1>3, <1>5
<1> QED
  BY <1>1, <1>4, <1>5, Overlaps

\* A repair that is alone sets out or goes on, or it waits and nothing changes.
LEMMA RepairStep ==
    ASSUME TypeOK, Alone, [Next]_vars, ~overlapped', NEW i \in Instances, up'[i] = "repairing"
    PROVE  /\ ~overlapped
           /\ \/ Restart(i)
              \/ up[i] = "repairing" /\ (RepairFile(i) \/ RepairRecords(i))
              \/ up[i] = "repairing" /\ fix'[i] = fix[i] /\ UNCHANGED <<disk, recs>>
<1>0. ~overlapped
  BY Overlaps
<1>1. CASE Crash(i)
  BY <1>1, CrashDoes
<1>2. CASE RepairFile(i) \/ RepairRecords(i)
  BY <1>0, <1>2, RepairFileDoes, RepairRecordsDoes
<1>3. ASSUME fix'[i] = fix[i], up[i] = "repairing", ~RepairFile(i), ~RepairRecords(i)
      PROVE  UNCHANGED <<disk, recs>>
  <2>1. /\ \A w \in Workers : job[w].pc = "idle"
        /\ \A j \in Instances : up[j] = "repairing" => j = i
    BY <1>0, <1>3 DEF Alone
  <2>2. \A w \in Workers : ~WriteFile(w) /\ ~Copy(w) /\ ~WriteRecords(w) /\ ~Merge(w)
    BY <2>1 DEF WriteFile, Copy, WriteRecords, Merge
  <2>3. \A j \in Instances : ~RepairFile(j) /\ ~RepairRecords(j)
    BY <1>3, <2>1, RepairFileDoes, RepairRecordsDoes
  <2>4. \A r \in Instances, f \in Files : ~Rot(r, f)
    BY <1>3, RotDoes DEF Busy
  <2> QED BY <2>2, <2>3, <2>4, DiskChanges, RecsChange
<1>4. up'[i] = up[i] => up[i] = "repairing"
  OBVIOUS
<1> QED
  BY <1>0, <1>1, <1>2, <1>3, <1>4, RepairsChange

\* While a job that is alone waits, neither the files nor their records change.
LEMMA AloneAtRest ==
    ASSUME TypeOK, Alone, [Next]_vars, ~overlapped', NEW w \in Workers, job[w].pc # "idle",
           ~Serve(w)
    PROVE  UNCHANGED <<disk, recs>>
<1>0. /\ ~overlapped /\ Busy
      /\ \A x \in Workers : x # w => job[x].pc = "idle"
      /\ \A i \in Instances : up[i] # "repairing"
  BY Overlaps DEF Alone, Busy
<1>1. ASSUME NEW x \in Workers, Serve(x) PROVE FALSE
  <2>1. x # w /\ job[x].pc = "idle"
    BY <1>0, <1>1
  <2>2. ASSUME NEW c \in Kinds, Receive(x, c) PROVE FALSE
    BY <1>0, <2>2 DEF Receive, SetsOut
  <2> QED
    BY <1>1, <2>1, <2>2 DEF Serve, WriteFile, StartCommit, WriteRecords, Compare, Copy, Merge,
       ReplicaFails, PrimaryFails, Answer
<1>2. ASSUME NEW i \in Instances, Crash(i) \/ Restart(i) \/ RepairFile(i) \/ RepairRecords(i)
      PROVE  UNCHANGED <<disk, recs>>
  BY <1>0, <1>2 DEF Crash, Restart, RepairFile, ExamineFile, PassCopy, OpenSource, ReplaceCopy,
     Handing, RepairRecords
<1>3. ASSUME NEW r \in Instances, NEW f \in Files, Rot(r, f) PROVE FALSE
  BY <1>0, <1>3 DEF Rot
<1> QED
  BY <1>1, <1>2, <1>3 DEF Next, vars

-----------------------------------------------------------------------------
(* A commit that is alone carries what its root has.                       *)

\* A root stays the same as the commit's own while others are dealt with.
LEMMA SameGrows ==
    ASSUME NEW h \in Instances, NEW j \in Jobs, NEW k \in Jobs, NEW n \in Nat,
           k.rels = j.rels, k.hashes = j.hashes, Among(k.left) \subseteq Among(j.left),
           \A f \in Files : disk'[h][f] = disk[h][f],
           \A r \in Instances \ Among(j.left), f \in Files :
              disk'[r][f] = disk[r][f] /\ recs'[r][f] = recs[r][f],
           n <= Cardinality(Same(h, j))
    PROVE  /\ n <= Cardinality(Same(h, k)')
           /\ \A r \in Among(Replicas[h]) \cap Among(j.left) :
                 /\ r \notin Among(k.left)
                 /\ \A f \in Among(k.rels) : disk'[r][f] = disk'[h][f] /\ recs'[r][f] = k.hashes[f]
                 => n + 1 <= Cardinality(Same(h, k)')
<1>1. PICK D, E : D = Same(h, j) /\ E = Same(h, k)'
  OBVIOUS
<1>2. IsFiniteSet(Among(Replicas[h])) /\ Among(Replicas[h]) \subseteq Instances
  BY ConstantsTyped, AmongIsFinite
<1>3. Among(j.rels) \subseteq Files
  BY AmongIsFinite DEF Jobs
<1>4. D \subseteq E
  BY <1>1, <1>2, <1>3 DEF Same
<1>5. IsFiniteSet(E)
  <2>1. E \subseteq Among(Replicas[h])
    BY <1>1 DEF Same
  <2> QED BY <1>2, <2>1, FS_Subset
<1>6. n <= Cardinality(D) /\ n <= Cardinality(E) /\ \A r \in E \ D : n + 1 <= Cardinality(E)
  BY <1>1, <1>4, <1>5, MoreCount
<1>7. ASSUME NEW r \in Among(Replicas[h]) \cap Among(j.left), r \notin Among(k.left),
             \A f \in Among(k.rels) : disk'[r][f] = disk'[h][f] /\ recs'[r][f] = k.hashes[f]
      PROVE  r \in E \ D
  BY <1>1, <1>7 DEF Same
<1> QED
  BY <1>1, <1>6, <1>7

LEMMA ServeMirrored ==
    ASSUME Attainable, TypeOK, TypeOK', Grounded, ReachedDone, NEW w \in Workers, Serve(w),
           NEW h \in Instances, NEW j \in Jobs, NEW k \in Jobs,
           h = Home[w], j = job[w], k = job'[w], JobMirrors(h, j)
    PROVE  JobMirrors(h, k)'
<1> USE DEF Committing, Replicating
<1>0. /\ Among(j.rels) \subseteq Files /\ Among(j.todo) \subseteq Files
      /\ j.todo \in Seq(Files) /\ j.left \in Seq(Instances) /\ j.reached \in Nat
      /\ Among(Replicas[h]) \subseteq Instances /\ h \notin Among(Replicas[h])
      /\ \A f \in Files : j.wrote[f] \in Nat /\ disk[h][f].v \in Nat
  <2>1. /\ j.rels \in Seq(Files) /\ j.todo \in Seq(Files) /\ j.left \in Seq(Instances)
        /\ j.reached \in Nat /\ \A f \in Files : j.wrote[f] \in Nat
    BY ConstantsTyped DEF Jobs
  <2>2. \A f \in Files : disk[h][f].v \in Nat
    BY Typed, ConstantsTyped DEF Content
  <2>3. Among(Replicas[h]) \subseteq Instances /\ h \notin Among(Replicas[h])
    BY ConstantsTyped, AmongIsFinite DEF Attainable
  <2> QED BY <2>1, <2>2, <2>3, AmongIsFinite
<1>1. ASSUME NEW c \in Kinds, Receive(w, c) PROVE JobMirrors(h, k)'
  BY <1>1, ReceiveDoes DEF JobMirrors
<1>2. CASE WriteFile(w)
  <2>1. PICK i \in Instances, f \in Files, v \in 1 .. MaxVersion : Wrote(w, i, f, v)
    BY <1>2, WriteFileWrites
  <2>2. /\ j.pc = "writing" /\ k.pc = "writing" /\ k.wrote[f] = v
        /\ \A g \in Files : g # f => k.wrote[g] = j.wrote[g] /\ disk'[h][g] = disk[h][g]
        /\ disk'[h][f] = [v |-> v, ok |-> TRUE]
    BY <2>1 DEF Wrote
  <2>3. \A g \in Files : k.wrote[g] > 0 => disk'[h][g].ok /\ k.wrote[g] <= disk'[h][g].v
    <3> SUFFICES ASSUME NEW g \in Files, k.wrote[g] > 0
                 PROVE  disk'[h][g].ok /\ k.wrote[g] <= disk'[h][g].v
      OBVIOUS
    <3>1. CASE g = f
      BY <2>2, <3>1
    <3>2. CASE g # f
      BY <2>2, <3>2 DEF JobMirrors
    <3> QED BY <3>1, <3>2
  <2> QED BY <2>2, <2>3 DEF JobMirrors
<1>3. CASE StartCommit(w)
  <2>1. /\ j.pc = "writing" /\ k.pc = "recording" /\ Among(k.rels) = FilesUnder(h)
        /\ \A f \in Files : k.hashes[f] = IF Has(h, f) THEN disk[h][f] ELSE recs[h][f]
        /\ k.wrote = j.wrote /\ UNCHANGED <<disk, recs>>
    BY <1>3, StartCommitDoes
  <2>2. \A f \in Files : f \in Among(k.rels) <=> Has(h, f)
    BY <2>1 DEF FilesUnder
  <2> QED BY <2>1, <2>2 DEF JobMirrors
<1>4. CASE WriteRecords(w)
  <2>1. /\ j.pc = "recording" /\ k.pc = "replicating" /\ disk' = disk
        /\ \A f \in Files : recs'[h][f] = j.hashes[f]
        /\ k.todo = j.rels /\ k.rels = j.rels /\ k.wrote = j.wrote
        /\ k.hashes = j.hashes /\ k.reached = j.reached
    BY <1>4, WriteRecordsDoes
  <2>2. j.reached = 0
    BY <2>1 DEF ReachedDone
  <2>3. PICK E : E = Same(h, k)'
    OBVIOUS
  <2>4. IsFiniteSet(E)
    <3>1. E \subseteq Among(Replicas[h])
      BY <2>3 DEF Same
    <3> QED BY <3>1, RequiredIs, FS_Subset
  <2>5. k.reached <= Cardinality(E)
    BY <2>1, <2>2, <2>4, FS_CardinalityType
  <2> QED BY <2>1, <2>3, <2>5 DEF JobMirrors
<1>5. CASE Compare(w)
  <2>1. PICK r \in Instances, f \in Files :
           /\ j.pc = "replicating" /\ j.left # <<>> /\ j.todo # <<>>
           /\ f = Head(j.todo) /\ r = Head(j.left)
           /\ \/ /\ disk[r][f] = j.hashes[f] /\ k.pc = "replicating" /\ k.todo = Tail(j.todo)
              \/ k.pc = "copying" /\ k.held = disk[h][f] /\ k.todo = j.todo
           /\ k.rels = j.rels /\ k.wrote = j.wrote /\ k.hashes = j.hashes /\ k.left = j.left
           /\ k.reached = j.reached /\ UNCHANGED <<disk, recs>>
    BY <1>5, CompareDoes
  <2>2. k.reached <= Cardinality(Same(h, k)')
    BY <1>0, <2>1, SameGrows DEF JobMirrors
  <2>3. f \in Among(j.rels) /\ Among(j.todo) = {f} \cup Among(Tail(j.todo))
    BY <1>0, <2>1, TakeHead DEF Grounded, JobGrounded
  <2>4. \A g \in Among(k.rels) \ Among(k.todo) : disk'[Head(k.left)][g] = disk'[h][g]
    <3>1. \A g \in Among(j.rels) \ Among(j.todo) : disk[Head(j.left)][g] = disk[h][g]
      BY <2>1 DEF JobMirrors
    <3>2. j.hashes[f] = disk[h][f]
      BY <2>1, <2>3 DEF JobMirrors
    <3>3. ASSUME NEW g \in Among(k.rels) \ Among(k.todo), g # f
          PROVE  disk[r][g] = disk[h][g]
      BY <2>1, <2>3, <3>1, <3>3
    <3>4. f \in Among(k.rels) \ Among(k.todo) => disk[r][f] = disk[h][f]
      BY <2>1, <2>3, <3>2
    <3>5. Head(k.left) = r /\ disk' = disk
      BY <2>1
    <3>6. \A g \in Among(k.rels) \ Among(k.todo) : disk[r][g] = disk[h][g]
      BY <3>3, <3>4
    <3> QED BY <3>5, <3>6
  <2>5. \A g \in Files : /\ k.wrote[g] > 0 => disk'[h][g].ok /\ k.wrote[g] <= disk'[h][g].v
                         /\ k.hashes[g] = IF g \in Among(k.rels) THEN disk'[h][g] ELSE recs'[h][g]
                         /\ recs'[h][g] = k.hashes[g]
    BY <2>1 DEF JobMirrors
  <2>6. k.pc \in Replicating /\ (k.pc = "copying" => k.held = disk'[h][Head(k.todo)])
    BY <2>1
  <2> QED BY <2>2, <2>4, <2>5, <2>6 DEF JobMirrors
<1>6. CASE Copy(w)
  <2>1. PICK r \in Instances, f \in Files :
           /\ j.pc = "copying" /\ k.pc = "replicating" /\ j.left # <<>> /\ j.todo # <<>>
           /\ f = Head(j.todo) /\ r = Head(j.left) /\ disk'[r][f] = j.held
           /\ \A s \in Instances, g \in Files : s # r \/ g # f => disk'[s][g] = disk[s][g]
           /\ k.todo = Tail(j.todo)
           /\ k.rels = j.rels /\ k.wrote = j.wrote /\ k.hashes = j.hashes /\ k.left = j.left
           /\ k.reached = j.reached /\ recs' = recs
    BY <1>6, CopyDoes
  <2>2. r \in Among(j.left) /\ r # h /\ Among(j.todo) = {f} \cup Among(Tail(j.todo))
    <3>1. Among(j.left) \subseteq Among(Replicas[h])
      BY <2>1 DEF Grounded, JobGrounded
    <3> QED BY <1>0, <2>1, <3>1, TakeHead
  <2>3. \A g \in Files : disk'[h][g] = disk[h][g]
    BY <2>1, <2>2
  <2>4. k.reached <= Cardinality(Same(h, k)')
    <3>1. \A s \in Instances \ Among(j.left), g \in Files :
             disk'[s][g] = disk[s][g] /\ recs'[s][g] = recs[s][g]
      BY <2>1, <2>2
    <3> QED BY <1>0, <2>1, <2>3, <3>1, SameGrows DEF JobMirrors
  <2>5. \A g \in Among(k.rels) \ Among(k.todo) : disk'[r][g] = disk'[h][g]
    <3> SUFFICES ASSUME NEW g \in Among(k.rels) \ Among(k.todo)
                 PROVE  disk'[r][g] = disk'[h][g]
      OBVIOUS
    <3>1. g \in Files
      BY <1>0, <2>1
    <3>2. CASE g = f
      BY <2>1, <2>3, <3>2 DEF JobMirrors
    <3>3. CASE g # f
      <4>1. disk'[r][g] = disk[r][g] /\ disk'[h][g] = disk[h][g]
        BY <2>1, <2>3, <3>1, <3>3
      <4>2. disk[r][g] = disk[h][g]
        BY <2>1, <2>2, <3>3 DEF JobMirrors
      <4> QED BY <4>1, <4>2
    <3> QED BY <3>2, <3>3
  <2>6. \A g \in Files : /\ k.wrote[g] > 0 => disk'[h][g].ok /\ k.wrote[g] <= disk'[h][g].v
                         /\ k.hashes[g] = IF g \in Among(k.rels) THEN disk'[h][g] ELSE recs'[h][g]
                         /\ recs'[h][g] = k.hashes[g]
    <3>1. \A g \in Files : /\ j.wrote[g] > 0 => disk[h][g].ok /\ j.wrote[g] <= disk[h][g].v
                           /\ j.hashes[g] = IF g \in Among(j.rels) THEN disk[h][g] ELSE recs[h][g]
                           /\ recs[h][g] = j.hashes[g]
      BY <2>1 DEF JobMirrors
    <3> QED BY <2>1, <2>3, <3>1
  <2>7. k.pc = "replicating" /\ r = Head(k.left)
    BY <2>1
  <2> QED BY <2>4, <2>5, <2>6, <2>7 DEF JobMirrors
<1>7. ASSUME OnToNext(w)
      PROVE  /\ k.rels = j.rels /\ k.pc = "replicating" /\ j.left # <<>> /\ k.left = Tail(j.left)
             /\ k.wrote = j.wrote /\ k.hashes = j.hashes
             /\ Among(k.left) \subseteq Among(j.left) /\ Head(j.left) \in Among(j.left)
             /\ NoRepeats(j.left) => Head(j.left) \notin Among(k.left)
             /\ k.left # <<>> => k.todo = j.rels
  <2>1. /\ k.rels = j.rels /\ k.pc = "replicating" /\ j.left # <<>> /\ k.left = Tail(j.left)
        /\ k.wrote = j.wrote /\ k.hashes = j.hashes
        /\ k.todo = IF Len(j.left) > 1 THEN j.rels ELSE <<>>
    BY <1>7 DEF OnToNext
  <2>2. PICK q \in Seq(Instances) : q = j.left
    BY <1>0
  <2>3. Tail(q) # <<>> => Len(q) > 1
    BY <2>1, <2>2, HeadTailProperties
  <2> QED BY <2>1, <2>2, <2>3, TakeHead
<1>8. CASE ReplicaFails(w)
  <2>1. OnToNext(w) /\ k.reached = j.reached /\ j.pc \in Replicating /\ UNCHANGED <<disk, recs>>
    BY <1>8, ReplicaFailsDoes
  <2>2. k.reached <= Cardinality(Same(h, k)')
    BY <1>0, <1>7, <2>1, SameGrows DEF JobMirrors
  <2> QED BY <1>7, <2>1, <2>2 DEF JobMirrors
<1>9. CASE Merge(w)
  <2>1. PICK r \in Instances :
           /\ r = Head(j.left) /\ j.pc = "replicating" /\ j.todo = <<>>
           /\ \A f \in Files : recs'[r][f] = IF f \in Among(j.rels) THEN j.hashes[f] ELSE recs[r][f]
           /\ \A s \in Instances, f \in Files : s # r => recs'[s][f] = recs[s][f]
           /\ OnToNext(w) /\ k.reached = j.reached + 1 /\ disk' = disk
    BY <1>9, MergeDoes
  <2>2. Among(j.left) \subseteq Among(Replicas[h]) /\ NoRepeats(j.left)
    BY <2>1 DEF Grounded, JobGrounded
  <2>3. r \in Among(j.left) /\ r # h /\ r \notin Among(k.left)
    BY <1>0, <1>7, <2>1, <2>2
  <2>4. \A f \in Among(j.rels) : disk[r][f] = disk[h][f]
    BY <1>7, <2>1, EmptyHasNone DEF JobMirrors
  <2>5. k.reached <= Cardinality(Same(h, k)')
    <3>1. j.reached <= Cardinality(Same(h, j))
      BY <2>1 DEF JobMirrors
    <3>2. \A s \in Instances \ Among(j.left), f \in Files :
             disk'[s][f] = disk[s][f] /\ recs'[s][f] = recs[s][f]
      BY <2>1, <2>3
    <3>3. \A f \in Among(k.rels) : disk'[r][f] = disk'[h][f] /\ recs'[r][f] = k.hashes[f]
      BY <1>0, <1>7, <2>1, <2>4
    <3>4. j.reached + 1 <= Cardinality(Same(h, k)')
      <4>1. /\ k.rels = j.rels /\ k.hashes = j.hashes /\ Among(k.left) \subseteq Among(j.left)
            /\ \A f \in Files : disk'[h][f] = disk[h][f]
            /\ r \in Among(Replicas[h]) \cap Among(j.left) /\ j.reached \in Nat
        BY <1>0, <1>7, <2>1, <2>2, <2>3
      <4>2. \A s \in Among(Replicas[h]) \cap Among(j.left) :
              /\ s \notin Among(k.left)
              /\ \A f \in Among(k.rels) : disk'[s][f] = disk'[h][f] /\ recs'[s][f] = k.hashes[f]
              => j.reached + 1 <= Cardinality(Same(h, k)')
        BY <3>1, <3>2, <4>1, SameGrows
      <4> QED BY <2>3, <3>3, <4>1, <4>2
    <3> QED BY <2>1, <3>4
  <2>6. \A f \in Files : recs'[h][f] = recs[h][f]
    BY <2>1, <2>3
  <2> QED BY <1>7, <2>1, <2>5, <2>6 DEF JobMirrors
<1>10. CASE PrimaryFails(w) \/ Answer(w)
  <2>1. k = Idle
    BY <1>10, PrimaryFailsDoes, AnswerDoes
  <2>2. k.pc = "idle"
    BY <2>1 DEF Idle
  <2> QED BY <2>2 DEF JobMirrors
<1> QED
  BY <1>1, <1>2, <1>3, <1>4, <1>5, <1>6, <1>8, <1>9, <1>10 DEF Serve

LEMMA StepMirrored ==
    ASSUME Attainable, TypeOK, Grounded, ReachedDone, Alone, Mirrored, [Next]_vars
    PROVE  Mirrored'
<1> SUFFICES ASSUME ~overlapped', NEW w \in Workers PROVE JobMirrors(Home[w], job[w])'
  BY DEF Mirrored
<1>0. TypeOK' /\ ~overlapped /\ Idle.pc = "idle"
  BY StepTyped, Overlaps DEF Idle
<1>1. PICK h \in Instances, j \in Jobs, k \in Jobs : h = Home[w] /\ j = job[w] /\ k = job'[w]
  BY <1>0, Typed, TypedAfter, ConstantsTyped
<1>2. JobMirrors(h, j)
  BY <1>0, <1>1 DEF Mirrored
<1>3. JobMirrors(h, k)'
  <2>1. CASE Serve(w)
    BY <1>0, <1>1, <1>2, <2>1, ServeMirrored
  <2>2. CASE k.pc = "idle"
    BY <2>2 DEF JobMirrors, Committing, Replicating
  <2>3. CASE ~Serve(w) /\ k.pc # "idle"
    <3>1. k = j
      BY <1>0, <1>1, <2>3, JobsChange
    <3>2. UNCHANGED <<disk, recs>>
      BY <1>0, <1>1, <2>3, <3>1, AloneAtRest
    <3>3. Same(h, k)' = Same(h, j)
      BY <3>1, <3>2 DEF Same
    <3> QED BY <1>2, <3>1, <3>2, <3>3 DEF JobMirrors
  <2> QED BY <2>1, <2>2, <2>3
<1> QED
  BY <1>1, <1>3 DEF JobMirrors, Same

-----------------------------------------------------------------------------
(* A repair that is alone hands on what its source has.                    *)

\* HandsOn of the next repair, named.
LEMMA HandsOnAfter ==
    ASSUME NEW i \in Instances, NEW x, x = fix'[i], HandsOn(x)'
    PROVE  HandsOn(fix[i])'
  BY DEF HandsOn

\* A source is taken: no good copy is newer, the other copies are bad or missing.
LEMMA TakenHandsOn ==
    ASSUME AllMirror, TypeOK, Grounded, NEW i \in Instances, NEW f \in Files,
           f = Head(fix[i].todo), NEW s \in GoodRoots(i, f), TakesSource(i, f, s)
    PROVE  HandsOn(fix[i])'
<1>1. PICK x, y : x \in Fixes /\ x = fix[i] /\ y = fix'[i]
  BY Typed
<1>2. Required(i) = Instances /\ Among(RootsOf(i)) = Instances /\ s \in Instances
  BY RequiredIs DEF AllMirror, GoodRoots
<1>3. /\ \A r \in GoodRoots(i, f) : disk[r][f].v <= disk[s][f].v
      /\ y.over = RootsOf(i) /\ y.from = s /\ y.hash = disk[s][f] /\ y.todo = x.todo
      /\ y.bad = {r \in Instances : Has(r, f) /\ Contradicted(r, f, fix[i].recs)}
      /\ y.held = x.held /\ x.over = <<>> /\ disk' = disk
  BY <1>1, <1>2 DEF TakesSource
<1>4. y.held = Missing
  BY <1>1, <1>3 DEF Grounded, FixGrounded
<1>5. ASSUME NEW r \in Instances PROVE disk[r][f].v <= disk[s][f].v \/ r \in y.bad
  <2>1. CASE r \in GoodRoots(i, f)
    BY <1>3, <2>1
  <2>2. CASE ~Has(r, f)
    <3>1. disk[r][f].v = 0
      BY <2>2 DEF Has, Missing
    <3>2. disk[s][f] \in Content
      BY <1>2, Typed
    <3>3. disk[s][f].v \in Nat
      BY <3>2, ConstantsTyped DEF Content
    <3> QED BY <3>1, <3>3
  <2>3. CASE Has(r, f) /\ Contradicted(r, f, fix[i].recs)
    BY <1>3, <2>3
  <2> QED BY <1>2, <2>1, <2>2, <2>3 DEF GoodRoots
<1>6. HandsOn(y)'
  <2>1. \A g \in Files : g = Head(y.todo) => g = f
    BY <1>1, <1>3
  <2>2. Among(y.over) = Instances
    BY <1>2, <1>3
  <2>3. \A r \in Instances : disk'[r][f].v <= y.hash.v \/ r \in y.bad
    BY <1>3, <1>5
  <2>4. y.hash = disk'[y.from][f] /\ y.held \in {Missing, y.hash}
    BY <1>3, <1>4
  <2> QED BY <2>1, <2>2, <2>3, <2>4 DEF HandsOn
<1> QED
  BY <1>1, <1>6, HandsOnAfter

\* One root is done with: its copy was as new as the source's, or is replaced by it.
LEMMA HandedHandsOn ==
    ASSUME TypeOK, NEW i \in Instances, NEW f \in Files, f = Head(fix[i].todo),
           HandsOn(fix[i]), NEW r \in Instances, HandsTo(i, f, r)
    PROVE  /\ HandsOn(fix[i])'
           /\ disk'[r][f].v = fix[i].hash.v
           /\ \A q \in Instances : q # r => disk'[q][f] = disk[q][f]
           /\ Among(fix[i].over) = {r} \cup Among(fix'[i].over)
<1>1. PICK x, y : x \in Fixes /\ x = fix[i] /\ y = fix'[i]
  BY Typed
<1>2. /\ x.over # <<>> /\ r = Head(x.over) /\ y.over = Tail(x.over) /\ y.held = Missing
      /\ y.from = x.from /\ y.hash = x.hash /\ y.bad = x.bad
      /\ y.recs[r][f] = x.hash
      /\ \A q \in Instances, g \in Files : q # r \/ g # f => y.recs[q][g] = x.recs[q][g]
      /\ y.over # <<>> => y.todo = x.todo
  BY <1>1 DEF HandsTo, SameFile
<1>3. /\ \/ /\ disk' = disk /\ r \notin x.bad
            /\ disk[r][f] = x.hash \/ ~(disk[r][f].v < disk[x.from][f].v)
         \/ x.held # Missing /\ disk'[r][f] = x.held
      /\ \A q \in Instances, g \in Files : q # r \/ g # f => disk'[q][g] = disk[q][g]
  BY <1>1 DEF HandsTo
<1>4. /\ x.hash = disk[x.from][f] /\ x.held \in {Missing, x.hash} /\ x.from \in Instances
      /\ \A q \in Instances :
            IF q \in Among(x.over) THEN disk[q][f].v <= x.hash.v \/ q \in x.bad
                                   ELSE disk[q][f].v = x.hash.v /\ x.recs[q][f] = x.hash
  <2>1. HandsOn(x) /\ f = Head(x.todo)
    BY <1>1
  <2>2. x.from \in Instances
    BY <1>1 DEF Fixes
  <2> QED BY <1>2, <2>1, <2>2 DEF HandsOn
<1>5. Among(x.over) = {r} \cup Among(y.over)
  <2>1. x.over \in Seq(Instances)
    BY <1>1 DEF Fixes
  <2> QED BY <1>2, <2>1, TakeHead
<1>6. disk'[r][f].v = x.hash.v
  <2>1. disk[r][f].v \in Nat /\ x.hash.v \in Nat
    <3>1. disk[r][f] \in Content /\ x.hash \in Content
      BY <1>1, Typed DEF Fixes
    <3> QED BY <3>1, ConstantsTyped DEF Content
  <2>2. CASE x.held # Missing /\ disk'[r][f] = x.held
    BY <1>4, <2>2
  <2>3. CASE disk' = disk /\ r \notin x.bad /\ disk[r][f] = x.hash
    BY <2>3
  <2>4. CASE disk' = disk /\ r \notin x.bad /\ ~(disk[r][f].v < x.hash.v)
    <3>1. disk[r][f].v <= x.hash.v
      BY <1>4, <1>5, <2>4
    <3> QED BY <2>1, <2>4, <3>1
  <2> QED BY <1>3, <1>4, <2>2, <2>3, <2>4
<1>7. x.hash = disk'[x.from][f]
  <2>1. CASE x.from = r
    BY <1>3, <1>4, <2>1
  <2>2. CASE x.from # r
    BY <1>3, <1>4, <2>2
  <2> QED BY <2>1, <2>2
<1>8. ASSUME NEW q \in Instances
      PROVE  IF q \in Among(y.over) THEN disk'[q][f].v <= y.hash.v \/ q \in y.bad
                                    ELSE disk'[q][f].v = y.hash.v /\ y.recs[q][f] = y.hash
  <2>1. CASE q = r
    <3>1. x.hash \in Content
      BY <1>1 DEF Fixes
    <3>2. y.hash.v \in Nat
      BY <1>2, <3>1, ConstantsTyped DEF Content
    <3> QED BY <1>2, <1>6, <2>1, <3>2
  <2>2. CASE q # r
    <3>1. /\ disk'[q][f] = disk[q][f] /\ y.recs[q][f] = x.recs[q][f]
          /\ q \in Among(y.over) <=> q \in Among(x.over)
      BY <1>2, <1>3, <1>5, <2>2
    <3> QED BY <1>2, <1>4, <3>1
  <2> QED BY <2>1, <2>2
<1>9. HandsOn(y)'
  <2>1. \A g \in Files : y.over # <<>> /\ g = Head(y.todo) => g = f
    BY <1>1, <1>2
  <2>2. y.hash = disk'[y.from][f] /\ y.held \in {Missing, y.hash}
    BY <1>2, <1>7
  <2> QED BY <1>8, <2>1, <2>2 DEF HandsOn
<1> QED
  BY <1>1, <1>3, <1>5, <1>6, <1>9, HandsOnAfter

LEMMA StepHandedOn ==
    ASSUME AllMirror, TypeOK, Grounded, Alone, HandedOn, [Next]_vars
    PROVE  HandedOn'
<1> SUFFICES ASSUME ~overlapped', NEW i \in Instances, up'[i] = "repairing"
             PROVE  HandsOn(fix[i])'
  BY DEF HandedOn
<1>0. ~overlapped
  BY RepairStep
<1>1. CASE Restart(i)
  <2>1. fix'[i].over = <<>>
    BY <1>1, RestartDoes
  <2> QED BY <2>1 DEF HandsOn
<1>2. CASE up[i] = "repairing" /\ fix'[i] = fix[i] /\ UNCHANGED <<disk, recs>>
  <2>1. HandsOn(fix[i])
    BY <1>0, <1>2 DEF HandedOn
  <2> QED BY <1>2, <2>1 DEF HandsOn
<1>3. CASE up[i] = "repairing" /\ RepairFile(i)
  <2>1. HandsOn(fix[i])
    BY <1>0, <1>3 DEF HandedOn
  <2>2. PICK f \in Files :
           /\ f = Head(fix[i].todo)
           /\ \/ GivesUp(i, f) \/ Opens(i, f)
              \/ \E s \in GoodRoots(i, f) : TakesSource(i, f, s)
              \/ \E r \in Instances : HandsTo(i, f, r)
    BY <1>3, RepairFileDoes
  <2>3. CASE GivesUp(i, f)
    BY <2>3 DEF GivesUp, HandsOn
  <2>4. CASE Opens(i, f)
    <3>1. /\ fix[i].over # <<>> /\ fix'[i].held = disk[fix[i].from][f]
          /\ fix'[i].over = fix[i].over /\ fix'[i].todo = fix[i].todo
          /\ fix'[i].recs = fix[i].recs /\ fix'[i].from = fix[i].from
          /\ fix'[i].hash = fix[i].hash /\ fix'[i].bad = fix[i].bad /\ disk' = disk
      BY <2>4 DEF Opens, SameFile
    <3>2. \A g \in Files : g = Head(fix[i].todo) => g = f
      BY <2>2
    <3> QED BY <2>1, <3>1, <3>2 DEF HandsOn
  <2> QED BY <2>1, <2>2, <2>3, <2>4, TakenHandsOn, HandedHandsOn
<1>4. CASE up[i] = "repairing" /\ RepairRecords(i)
  <2>1. fix[i].todo = <<>>
    BY <1>4 DEF RepairRecords
  <2>2. fix[i].over = <<>>
    BY <2>1 DEF Grounded, FixGrounded
  <2>3. fix'[i].over = <<>>
    BY <1>4, <2>2, RepairRecordsKeeps, NoRepairTyped
  <2> QED BY <2>3 DEF HandsOn
<1> QED
  BY <1>1, <1>2, <1>3, <1>4, RepairStep

-----------------------------------------------------------------------------
(* What was acknowledged is everywhere.                                    *)

\* A commit that is answered 2xx, and was alone, left its files on every root.
LEMMA AnsweredIsEverywhere ==
    ASSUME Attainable, AllMirror, AllCount, TypeOK, Grounded, Alone, Mirrored, ~overlapped,
           NEW w \in Workers, Answer(w), NEW h \in Instances, h = Home[w],
           job[w].reached >= MinReplicas[h], NEW f \in Files, job[w].wrote[f] > 0
    PROVE  /\ disk[h][f].ok /\ job[w].wrote[f] <= disk[h][f].v
           /\ \A r \in Instances : disk[r][f] = disk[h][f] /\ recs[r][f] = disk[h][f]
           /\ \A i \in Instances : up[i] # "repairing"
<1>1. PICK j \in Jobs : j = job[w]
  BY Typed
<1>2. j.pc = "replicating" /\ j.left = <<>>
  BY <1>1, AnswerDoes
<1>3. JobMirrors(h, j) /\ JobGrounded(h, j)
  BY <1>1 DEF Mirrored, Grounded
<1>4. /\ disk[h][f].ok /\ j.wrote[f] <= disk[h][f].v /\ f \in Among(j.rels)
      /\ j.hashes[f] = disk[h][f] /\ recs[h][f] = j.hashes[f]
      /\ j.reached <= Cardinality(Same(h, j))
  BY <1>1, <1>2, <1>3 DEF JobMirrors, JobGrounded, Committing, Replicating
<1>5. Same(h, j) = Among(Replicas[h])
  <2>1. PICK D, E : D = Same(h, j) /\ E = Among(Replicas[h])
    OBVIOUS
  <2>2. IsFiniteSet(E) /\ D \subseteq E /\ j.reached \in Nat /\ MinReplicas[h] = Cardinality(E)
    BY <2>1, RequiredIs DEF Same, Jobs, AllCount
  <2>3. Cardinality(E) \in Nat
    BY <2>2, FS_CardinalityType
  <2>4. \A r \in E \ D : j.reached + 1 <= Cardinality(E)
    BY <1>4, <2>1, <2>2, MoreCount
  <2>5. j.reached >= Cardinality(E)
    BY <1>1, <2>2
  <2>6. ~(j.reached + 1 <= Cardinality(E))
    BY <2>2, <2>3, <2>5
  <2> QED BY <2>1, <2>2, <2>4, <2>6
<1>6. ASSUME NEW r \in Instances
      PROVE  disk[r][f] = disk[h][f] /\ recs[r][f] = disk[h][f]
  <2>1. r = h \/ r \in Same(h, j)
    BY <1>5, RequiredIs DEF AllMirror, RequiredRoots
  <2> QED BY <1>4, <2>1 DEF Same
<1> QED
  BY <1>1, <1>2, <1>4, <1>6 DEF Alone

\* Where a copy, a record and a repair's record come from.
LEMMA DiskFrom ==
    ASSUME Attainable, TypeOK, Grounded, Alone, Mirrored, HandedOn, ~overlapped, [Next]_vars,
           NEW r \in Instances, NEW f \in Files
    PROVE  disk'[r][f].v = newest[f] + 1 \/ \E s \in Instances : disk'[r][f].v = disk[s][f].v
<1>1. CASE UNCHANGED disk
  BY <1>1
<1>2. ASSUME NEW w \in Workers, WriteFile(w)
      PROVE  disk'[r][f].v = newest[f] + 1 \/ disk'[r][f] = disk[r][f]
  <2>1. PICK i \in Instances, g \in Files, v \in 1 .. MaxVersion : Wrote(w, i, g, v)
    BY <1>2, WriteFileWrites
  <2> QED BY <2>1 DEF Wrote
<1>3. ASSUME NEW w \in Workers, Copy(w)
      PROVE  disk'[r][f] = disk[r][f] \/ disk'[r][f] = disk[Home[w]][f]
  <2>1. /\ job[w].pc = "copying"
        /\ \/ disk'[r][f] = disk[r][f]
           \/ f = Head(job[w].todo) /\ disk'[r][f] = job[w].held
    BY <1>3, CopyDoes
  <2> QED BY <2>1 DEF Mirrored, JobMirrors
<1>4. ASSUME NEW i \in Instances, RepairFile(i)
      PROVE  \E s \in Instances : disk'[r][f].v = disk[s][f].v
  <2>1. HandsOn(fix[i])
    BY <1>4, RepairFileDoes DEF HandedOn
  <2>2. ASSUME NEW q \in Instances, NEW g \in Files, Replaces(i, g, q)
        PROVE  disk'[q][g] = disk[fix[i].from][g]
    BY <2>1, <2>2 DEF Replaces, HandsOn
  <2>3. CASE disk' = disk
    BY <2>3
  <2>4. ASSUME NEW q \in Instances, NEW g \in Files, Replaces(i, g, q)
        PROVE  \E s \in Instances : disk'[r][f].v = disk[s][f].v
    <3>1. CASE r = q /\ f = g
      BY <2>2, <2>4, <3>1, Typed
    <3>2. CASE r # q \/ f # g
      BY <2>4, <3>2 DEF Replaces
    <3> QED BY <3>1, <3>2
  <2> QED BY <1>4, <2>3, <2>4, RepairReplaces
<1>5. ASSUME NEW s \in Instances, NEW g \in Files, Rot(s, g)
      PROVE  disk'[r][f].v = disk[r][f].v
  <2>1. /\ disk'[s][g] = [v |-> disk[s][g].v, ok |-> FALSE]
        /\ r # s \/ f # g => disk'[r][f] = disk[r][f]
    BY <1>5, RotDoes
  <2> QED BY <2>1
<1> QED
  BY <1>1, <1>2, <1>3, <1>4, <1>5, ConstantsTyped, DiskChanges

LEMMA RecsFrom ==
    ASSUME Attainable, TypeOK, Grounded, Alone, Mirrored, ~overlapped, [Next]_vars,
           NEW r \in Instances, NEW f \in Files
    PROVE  \/ \E s \in Instances : recs'[r][f] = recs[s][f]
           \/ \E s \in Instances, w \in Workers :
                 s = Home[w] /\ job[w].pc = "recording" /\ recs'[r][f] = disk[s][f]
           \/ \E i \in Instances : up[i] = "repairing" /\ recs'[r][f] = fix[i].recs[r][f]
<1>1. CASE UNCHANGED recs
  BY <1>1
<1>2. ASSUME NEW w \in Workers, WriteRecords(w)
      PROVE  \/ recs'[r][f] = recs[r][f]
             \/ job[w].pc = "recording" /\ recs'[r][f] = disk[Home[w]][f]
  <2>1. /\ job[w].pc = "recording"
        /\ \/ recs'[r][f] = recs[r][f]
           \/ r = Home[w] /\ recs'[r][f] = job[w].hashes[f]
    BY <1>2, WriteRecordsDoes
  <2>2. job[w].hashes[f] = disk[Home[w]][f] \/ job[w].hashes[f] = recs[Home[w]][f]
    BY <2>1 DEF Mirrored, JobMirrors, Committing
  <2> QED BY <2>1, <2>2
<1>3. ASSUME NEW w \in Workers, Merge(w)
      PROVE  recs'[r][f] = recs[r][f] \/ recs'[r][f] = recs[Home[w]][f]
  <2>1. PICK s \in Instances :
           /\ s = Head(job[w].left) /\ job[w].pc = "replicating" /\ job[w].todo = <<>>
           /\ \A g \in Files : recs'[s][g] = IF g \in Among(job[w].rels) THEN job[w].hashes[g]
                                                                        ELSE recs[s][g]
           /\ \A t \in Instances, g \in Files : t # s => recs'[t][g] = recs[t][g]
    BY <1>3, MergeDoes
  <2>2. recs[Home[w]][f] = job[w].hashes[f]
    BY <2>1 DEF Mirrored, JobMirrors, Replicating
  <2> QED BY <2>1, <2>2
<1>4. ASSUME NEW i \in Instances, RepairRecords(i)
      PROVE  \/ recs'[r][f] = recs[r][f]
             \/ up[i] = "repairing" /\ recs'[r][f] = fix[i].recs[r][f]
  BY <1>4, RepairRecordsDoes
<1> QED
  BY <1>1, <1>2, <1>3, <1>4, ConstantsTyped, RecsChange

LEMMA RepairsFrom ==
    ASSUME AllMirror, TypeOK, [Next]_vars, NEW i \in Instances, up'[i] = "repairing",
           NEW r \in Instances, NEW f \in Files
    PROVE  \/ fix'[i].recs[r][f] = recs[r][f]
           \/ up[i] = "repairing" /\ fix'[i].recs[r][f] = fix[i].recs[r][f]
           \/ /\ up[i] = "repairing" /\ fix[i].over # <<>> /\ f = Head(fix[i].todo)
              /\ fix'[i].recs[r][f] = fix[i].hash
<1>1. CASE fix'[i] = fix[i] /\ up'[i] = up[i]
  BY <1>1
<1>2. CASE Crash(i)
  BY <1>2, CrashDoes
<1>3. CASE Restart(i)
  BY <1>3, RestartDoes DEF AllMirror
<1>4. CASE RepairFile(i)
  <2>1. PICK g \in Files :
           /\ up[i] = "repairing" /\ g = Head(fix[i].todo)
           /\ \/ GivesUp(i, g) \/ Opens(i, g)
              \/ \E s \in GoodRoots(i, g) : TakesSource(i, g, s)
              \/ \E q \in Instances : HandsTo(i, g, q)
    BY <1>4, RepairFileDoes
  <2>2. CASE GivesUp(i, g) \/ Opens(i, g) \/ \E s \in GoodRoots(i, g) : TakesSource(i, g, s)
    BY <2>1, <2>2 DEF GivesUp, Opens, TakesSource
  <2>3. ASSUME NEW q \in Instances, HandsTo(i, g, q)
        PROVE  \/ fix'[i].recs[r][f] = fix[i].recs[r][f]
               \/ fix[i].over # <<>> /\ f = g /\ fix'[i].recs[r][f] = fix[i].hash
    BY <2>3 DEF HandsTo
  <2> QED BY <2>1, <2>2, <2>3
<1>5. CASE RepairRecords(i)
  BY <1>5, RepairRecordsDoes
<1> QED
  BY <1>1, <1>2, <1>3, <1>4, <1>5, RepairsChange

LEMMA StepHeld ==
    ASSUME Attainable, AllMirror, AllCount, TypeOK, Grounded, Alone, Mirrored, HandedOn,
           AckedHeld, [Next]_vars
    PROVE  AckedHeld'
<1> SUFFICES ASSUME ~overlapped', NEW i \in Instances, NEW r \in Instances, NEW f \in Files
             PROVE  /\ acked'[i][f] <= disk'[r][f].v /\ acked'[i][f] <= recs'[r][f].v
                    /\ \A j \in Instances : up'[j] = "repairing" =>
                                               acked'[i][f] <= fix'[j].recs[r][f].v
  BY DEF AckedHeld
<1>0. ~overlapped /\ TypeOK'
  BY Overlaps, StepTyped
<1>1. /\ \A s \in Instances : acked[i][f] <= disk[s][f].v /\ acked[i][f] <= recs[s][f].v
      /\ \A j \in Instances : up[j] = "repairing" => acked[i][f] <= fix[j].recs[r][f].v
      /\ acked[i][f] <= newest[f]
  BY <1>0 DEF AckedHeld, Grounded
<1>2. /\ acked[i][f] \in Nat /\ newest[f] \in Nat
  BY Typed, ConstantsTyped
<1>3. CASE acked'[i][f] = acked[i][f]
  <2>1. acked[i][f] <= disk'[r][f].v
    BY <1>0, <1>1, <1>2, DiskFrom
  <2>2. acked[i][f] <= recs'[r][f].v
    BY <1>0, <1>1, RecsFrom
  <2>3. ASSUME NEW j \in Instances, up'[j] = "repairing"
        PROVE  acked[i][f] <= fix'[j].recs[r][f].v
    <3>1. up[j] = "repairing" /\ fix[j].over # <<>> /\ f = Head(fix[j].todo) =>
             \E s \in Instances : fix[j].hash = disk[s][f]
      <4>1. up[j] = "repairing" => HandsOn(fix[j])
        BY <1>0, Overlaps DEF HandedOn
      <4>2. fix[j].from \in Instances
        BY Typed
      <4> QED BY <4>1, <4>2 DEF HandsOn
    <3> QED BY <1>1, <2>3, <3>1, RepairsFrom
  <2> QED BY <1>3, <2>1, <2>2, <2>3
<1>4. CASE acked'[i][f] # acked[i][f]
  <2>1. PICK w \in Workers : Answer(w)
    BY <1>4, AckedChanges
  <2>2. /\ i = Home[w] /\ job[w].reached >= MinReplicas[i] /\ job[w].wrote[f] > acked[i][f]
        /\ acked'[i][f] = job[w].wrote[f] /\ UNCHANGED <<disk, recs, up>>
    BY <1>4, <2>1, AnswerDoes
  <2>3. job[w].wrote[f] > 0
    BY <1>2, <2>2, Typed, ConstantsTyped
  <2>4. /\ job[w].wrote[f] <= disk[i][f].v
        /\ \A s \in Instances : disk[s][f] = disk[i][f] /\ recs[s][f] = disk[i][f]
        /\ \A j \in Instances : up[j] # "repairing"
    BY <1>0, <2>1, <2>2, <2>3, AnsweredIsEverywhere
  <2> QED BY <2>2, <2>4
<1> QED
  BY <1>3, <1>4

-----------------------------------------------------------------------------
(* What was acknowledged is on a quorum.                                   *)

LEMMA InitAlone ==
    Init => /\ ReachedDone /\ AckedThere /\ WrittenOnceOnly /\ Alone /\ Mirrored /\ HandedOn
            /\ AckedHeld
<1> SUFFICES ASSUME Init
             PROVE  /\ ReachedDone /\ AckedThere /\ WrittenOnceOnly /\ Alone /\ Mirrored
                    /\ HandedOn /\ AckedHeld
  OBVIOUS
<1>1. /\ Idle.pc = "idle" /\ Idle.reached = 0 /\ Missing.v = 0
      /\ \A r \in Instances, f \in Files : NoRepair.recs[r][f] = Missing
  BY DEF Idle, Missing, NoRepair
<1>2. /\ \A r \in Instances, f \in Files : /\ disk[r][f] = Missing /\ recs[r][f] = Missing
                                           /\ acked[r][f] = 0
      /\ \A f \in Files : newest[f] = 0
      /\ \A w \in Workers : job[w] = Idle
      /\ \A i \in Instances : up[i] = "up" /\ fix[i] = NoRepair
  BY DEF Init
<1>3. ReachedDone
  BY <1>1, <1>2 DEF ReachedDone, Replicating
<1>4. AckedThere
  BY <1>2 DEF AckedThere
<1>5. WrittenOnceOnly
  BY <1>1, <1>2 DEF WrittenOnceOnly
<1>6. Alone
  BY <1>1, <1>2 DEF Alone
<1>7. Mirrored
  BY <1>1, <1>2 DEF Mirrored, JobMirrors, Committing, Replicating
<1>8. AckedHeld
  BY <1>1, <1>2 DEF AckedHeld
<1>9. HandedOn
  BY <1>2 DEF HandedOn
<1> QED
  BY <1>3, <1>4, <1>5, <1>6, <1>7, <1>8, <1>9

LEMMA OnQuorumWhere ==
    ASSUME TypeOK, NEW i \in Instances, NEW f \in Files, NEW S \in SUBSET Among(Replicas[i]),
           i \notin Among(Replicas[i]), MinReplicas[i] <= Cardinality(S),
           \A r \in S \cup {i} : disk[r][f].v >= acked[i][f]
    PROVE  OnQuorum(i, f)
<1> DEFINE holders == {r \in Required(i) : disk[r][f].v >= acked[i][f]}
<1>1. i \in holders /\ S \subseteq holders \ {i} /\ IsFiniteSet(holders \ {i})
  <2>1. Required(i) = {i} \cup Among(Replicas[i]) /\ IsFiniteSet(Required(i))
    BY RequiredIs DEF RequiredRoots
  <2>2. holders \ {i} \subseteq Required(i)
    OBVIOUS
  <2> QED BY <2>1, <2>2, FS_Subset
<1> HIDE DEF holders
<1>2. /\ Cardinality(S) <= Cardinality(holders \ {i}) /\ MinReplicas[i] \in Nat
      /\ Cardinality(S) \in Nat /\ Cardinality(holders \ {i}) \in Nat
  BY <1>1, ConstantsTyped, FS_Subset, FS_CardinalityType
<1>3. Cardinality(holders \ {i}) >= MinReplicas[i]
  BY <1>2
<1> QED
  BY <1>1, <1>3 DEF OnQuorum, holders

\* A file that is written once, acknowledged or not, is where it has to be.
LEMMA WrittenOnceOnQuorum ==
    ASSUME Attainable, TypeOK, Grounded, AckedThere, WrittenOnceOnly, NEW i \in Instances,
           NEW f \in Files, f \notin Rewritten
    PROVE  OnQuorum(i, f)
<1>1. /\ i \notin Among(Replicas[i]) /\ MinReplicas[i] <= Cardinality(Among(Replicas[i]))
      /\ Among(Replicas[i]) \subseteq Instances
  BY ConstantsTyped, AmongIsFinite DEF Attainable
<1>2. acked[i][f] \in Nat /\ \A r \in Instances : disk[r][f].v \in Nat
  BY Typed, ConstantsTyped DEF Content
<1>3. CASE acked[i][f] = 0
  <2>1. \A r \in Among(Replicas[i]) \cup {i} : disk[r][f].v >= acked[i][f]
    BY <1>1, <1>2, <1>3
  <2> QED BY <1>1, <2>1, OnQuorumWhere
<1>4. CASE acked[i][f] > 0
  <2>1. acked[i][f] <= 1
    <3>1. acked[i][f] <= newest[f] /\ newest[f] <= 1 /\ newest[f] \in Nat
      BY Typed, ConstantsTyped DEF Grounded, WrittenOnceOnly
    <3> QED BY <1>2, <3>1
  <2>2. \A r \in Instances : Has(r, f) => disk[r][f].v >= 1
    <3> SUFFICES ASSUME NEW r \in Instances, Has(r, f) PROVE disk[r][f].v >= 1
      OBVIOUS
    <3>1. disk[r][f] \in Content /\ Real(disk[r][f]) /\ disk[r][f] # Missing
      BY Typed DEF Grounded, Has
    <3>2. disk[r][f].v # 0
      BY <3>1, RealIs
    <3> QED BY <1>2, <3>2
  <2>3. PICK S \in SUBSET Among(Replicas[i]) : S = {r \in Among(Replicas[i]) : Has(r, f)}
    OBVIOUS
  <2>4. Has(i, f) /\ MinReplicas[i] <= Cardinality(S)
    BY <1>4, <2>3 DEF AckedThere
  <2>5. \A r \in S \cup {i} : disk[r][f].v >= acked[i][f]
    BY <1>1, <1>2, <2>1, <2>2, <2>3, <2>4
  <2> QED BY <1>1, <2>4, <2>5, OnQuorumWhere
<1> QED
  BY <1>2, <1>3, <1>4

\* Whatever overlaps, fails or crashes, and whichever roots mirror which with
\* whatever quorum: a file that is never rewritten is, once answered 2xx for, on its
\* own root and on min_replicas others (replication_middleware).
THEOREM StoreCapturesOnQuorum ==
    ASSUME Attainable, OncePerRequest
    PROVE  Spec => [](\A i \in Instances, f \in Files \ Rewritten : OnQuorum(i, f))
<1> DEFINE Inv == TypeOK /\ Grounded /\ ReachedDone /\ AckedThere /\ WrittenOnceOnly
<1>1. Init => Inv
  BY InitTyped, InitGrounded, InitAlone
<1>2. Inv /\ [Next]_vars => Inv'
  BY StepTyped, StepGrounded, StepReached, StepAckedThere, StepOnce
<1>3. Inv => \A i \in Instances, f \in Files \ Rewritten : OnQuorum(i, f)
  BY WrittenOnceOnQuorum
<1> HIDE DEF Inv
<1> QED
  BY <1>1, <1>2, <1>3, PTL DEF Spec

\* Every file that an instance has answered 2xx for is, from then on, on its own
\* root and on min_replicas others, in that version or a newer one: a file that is
\* never rewritten always, a rewritten one as long as no two requests or startup
\* repairs have overlapped (replication_middleware, commit and repair).
THEOREM StoreAckedWhenAlone ==
    ASSUME Attainable, OncePerRequest, AllMirror, AllCount
    PROVE  Spec => []AckedWhenAlone
<1> DEFINE Inv == /\ TypeOK /\ Grounded /\ ReachedDone /\ AckedThere /\ WrittenOnceOnly
                  /\ Alone /\ Mirrored /\ HandedOn /\ AckedHeld
<1>1. Init => Inv
  BY InitTyped, InitGrounded, InitAlone
<1>2. Inv /\ [Next]_vars => Inv'
  BY StepTyped, StepGrounded, StepReached, StepAckedThere, StepOnce, StepAlone, StepMirrored,
     StepHandedOn, StepHeld
<1>3. Inv => AckedWhenAlone
  <2> SUFFICES ASSUME Inv, NEW i \in Instances, NEW f \in Files, ~overlapped \/ f \notin Rewritten
               PROVE  OnQuorum(i, f)
    BY DEF AckedWhenAlone
  <2>1. CASE ~overlapped
    <3>1. /\ i \notin Among(Replicas[i]) /\ MinReplicas[i] <= Cardinality(Among(Replicas[i]))
          /\ Among(Replicas[i]) \subseteq Instances
      BY ConstantsTyped, AmongIsFinite DEF Attainable
    <3>2. \A r \in Instances : /\ disk[r][f].v \in Nat /\ acked[i][f] \in Nat
                               /\ acked[i][f] <= disk[r][f].v
      BY <2>1, Typed, ConstantsTyped DEF Content, AckedHeld
    <3>3. \A r \in Among(Replicas[i]) \cup {i} : disk[r][f].v >= acked[i][f]
      BY <3>1, <3>2
    <3> QED BY <3>1, <3>3, OnQuorumWhere
  <2> QED BY <2>1, WrittenOnceOnQuorum
<1> HIDE DEF Inv
<1> QED
  BY <1>1, <1>2, <1>3, PTL DEF Spec

-----------------------------------------------------------------------------
(* Damage.                                                                 *)

\* Damage is counted.
LEMMA RotsChange ==
    ASSUME TypeOK, [Next]_vars
    PROVE  /\ rots \in Nat /\ rots' \in Nat
           /\ \/ rots' = rots /\ \A r \in Instances, f \in Files : ~Rot(r, f)
              \/ rots' = rots + 1 /\ rots < MaxRot /\ \E r \in Instances, f \in Files : Rot(r, f)
<1>0. rots \in Nat
  BY DEF TypeOK
<1>1. ASSUME NEW r \in Instances, NEW f \in Files, Rot(r, f)
      PROVE  rots' = rots + 1 /\ rots < MaxRot
  BY <1>1, RotDoes
<1>2. ASSUME \A r \in Instances, f \in Files : ~Rot(r, f)
      PROVE  rots' = rots
  <2>1. ASSUME NEW w \in Workers, Serve(w) PROVE rots' = rots
    BY <2>1 DEF Serve, Receive, WriteFile, StartCommit, WriteRecords, Compare, Copy, Merge,
                ReplicaFails, PrimaryFails, Answer, budgets
  <2>2. ASSUME NEW i \in Instances, Crash(i) \/ Restart(i) \/ RepairFile(i) \/ RepairRecords(i)
        PROVE  rots' = rots
    BY <2>2 DEF Crash, Restart, RepairFile, ExamineFile, PassCopy, OpenSource, ReplaceCopy,
       RepairRecords, budgets
  <2> QED BY <1>2, <2>1, <2>2 DEF Next, vars
<1> QED
  BY <1>0, <1>1, <1>2

\* Nothing that a job holds is damaged.
SoundJob(j) == j.held.ok /\ \A f \in Files : j.hashes[f].ok

LEMMA ServeSound ==
    ASSUME TypeOK, NEW w \in Workers, Serve(w), SoundJob(job[w]),
           \A r \in Instances, f \in Files : disk[r][f].ok /\ recs[r][f].ok
    PROVE  SoundJob(job[w])'
<1>0. Missing.ok /\ Idle.held = Missing /\ \A f \in Files : Idle.hashes[f] = Missing
  BY DEF Missing, Idle
<1>1. ASSUME NEW c \in Kinds, Receive(w, c) PROVE SoundJob(job[w])'
  BY <1>0, <1>1, ReceiveDoes DEF SoundJob
<1>2. CASE WriteFile(w)
  <2>1. job'[w].hashes = job[w].hashes /\ job'[w].held = job[w].held
    BY <1>2, WriteFileDoes
  <2> QED BY <2>1 DEF SoundJob
<1>3. CASE StartCommit(w)
  <2>1. /\ \A f \in Files : job'[w].hashes[f] = IF Has(Home[w], f) THEN disk[Home[w]][f]
                                                                    ELSE recs[Home[w]][f]
        /\ job'[w].held = job[w].held
    BY <1>3, StartCommitDoes
  <2> QED BY <2>1, ConstantsTyped DEF SoundJob
<1>4. CASE WriteRecords(w)
  <2>1. job'[w].hashes = job[w].hashes /\ job'[w].held = job[w].held
    BY <1>4, WriteRecordsDoes
  <2> QED BY <2>1 DEF SoundJob
<1>5. CASE Compare(w)
  <2>1. PICK i \in Instances, f \in Files :
           /\ job'[w].held = job[w].held \/ job'[w].held = disk[i][f]
           /\ job'[w].hashes = job[w].hashes
    BY <1>5, CompareDoes
  <2> QED BY <2>1 DEF SoundJob
<1>6. CASE Copy(w)
  <2>1. job'[w].hashes = job[w].hashes /\ job'[w].held = Missing
    BY <1>6, CopyDoes
  <2> QED BY <1>0, <2>1 DEF SoundJob
<1>7. CASE Merge(w) \/ ReplicaFails(w)
  <2>1. OnToNext(w)
    BY <1>7, MergeDoes, ReplicaFailsDoes
  <2> QED BY <1>0, <2>1 DEF OnToNext, SoundJob
<1>8. CASE PrimaryFails(w) \/ Answer(w)
  <2>1. job'[w] = Idle
    BY <1>8, PrimaryFailsDoes, AnswerDoes
  <2> QED BY <1>0, <2>1 DEF SoundJob
<1> QED
  BY <1>1, <1>2, <1>3, <1>4, <1>5, <1>6, <1>7, <1>8 DEF Serve

LEMMA StepSound ==
    ASSUME TypeOK, SoundUntilRot, [Next]_vars
    PROVE  SoundUntilRot'
<1> SUFFICES ASSUME rots' = 0
             PROVE  /\ \A r \in Instances, f \in Files :
                          /\ disk'[r][f].ok /\ recs'[r][f].ok
                          /\ \A i \in Instances : fix'[i].recs[r][f].ok
                    /\ \A i \in Instances : fix'[i].hash.ok /\ fix'[i].held.ok
                    /\ \A w \in Workers : SoundJob(job[w])'
  BY DEF SoundUntilRot, SoundJob
<1>0. /\ Missing.ok /\ NoRepair.hash = Missing /\ NoRepair.held = Missing
      /\ \A r \in Instances, f \in Files : NoRepair.recs[r][f] = Missing
  BY DEF Missing, NoRepair
<1>1. rots = 0 /\ \A r \in Instances, f \in Files : ~Rot(r, f)
  BY RotsChange
<1>2. /\ \A r \in Instances, f \in Files : /\ disk[r][f].ok /\ recs[r][f].ok
                                           /\ \A i \in Instances : fix[i].recs[r][f].ok
      /\ \A i \in Instances : fix[i].hash.ok /\ fix[i].held.ok
      /\ \A w \in Workers : SoundJob(job[w])
  BY <1>1 DEF SoundUntilRot, SoundJob
<1>3. ASSUME NEW i \in Instances, NEW f \in Files
      PROVE  GoodRoots(i, f) \subseteq Instances
  BY RequiredIs DEF GoodRoots
<1>4. ASSUME NEW r \in Instances, NEW f \in Files
      PROVE  disk'[r][f].ok
  <2>1. CASE UNCHANGED disk
    BY <1>2, <2>1
  <2>2. ASSUME NEW w \in Workers, WriteFile(w) PROVE disk'[r][f].ok
    <3>1. PICK i \in Instances, g \in Files, v \in 1 .. MaxVersion : Wrote(w, i, g, v)
      BY <2>2, WriteFileWrites
    <3>2. disk'[r][f] = disk[r][f] \/ disk'[r][f] = [v |-> v, ok |-> TRUE]
      BY <3>1 DEF Wrote
    <3> QED BY <1>2, <3>2
  <2>3. ASSUME NEW w \in Workers, Copy(w) PROVE disk'[r][f].ok
    <3>1. disk'[r][f] = disk[r][f] \/ disk'[r][f] = job[w].held
      BY <2>3, CopyDoes
    <3> QED BY <1>2, <3>1 DEF SoundJob
  <2>4. ASSUME NEW i \in Instances, RepairFile(i) PROVE disk'[r][f].ok
    <3>1. disk'[r][f] = disk[r][f] \/ disk'[r][f] = fix[i].held
      BY <2>4, RepairReplaces DEF Replaces
    <3> QED BY <1>2, <3>1
  <2> QED BY <1>1, <2>1, <2>2, <2>3, <2>4, DiskChanges
<1>5. ASSUME NEW r \in Instances, NEW f \in Files
      PROVE  recs'[r][f].ok
  <2>1. CASE UNCHANGED recs
    BY <1>2, <2>1
  <2>2. ASSUME NEW w \in Workers, WriteRecords(w) PROVE recs'[r][f].ok
    <3>1. recs'[r][f] = recs[r][f] \/ recs'[r][f] = job[w].hashes[f]
      BY <2>2, WriteRecordsDoes
    <3> QED BY <1>2, <3>1 DEF SoundJob
  <2>3. ASSUME NEW w \in Workers, Merge(w) PROVE recs'[r][f].ok
    <3>1. PICK s \in Instances :
           /\ s = Head(job[w].left) /\ job[w].pc = "replicating" /\ job[w].todo = <<>>
           /\ \A g \in Files : recs'[s][g] = IF g \in Among(job[w].rels) THEN job[w].hashes[g]
                                                                        ELSE recs[s][g]
           /\ \A t \in Instances, g \in Files : t # s => recs'[t][g] = recs[t][g]
      BY <2>3, MergeDoes
    <3>2. recs'[r][f] = recs[r][f] \/ recs'[r][f] = job[w].hashes[f]
      BY <3>1
    <3> QED BY <1>2, <3>2 DEF SoundJob
  <2>4. ASSUME NEW i \in Instances, RepairRecords(i) PROVE recs'[r][f].ok
    <3>1. recs'[r][f] = recs[r][f] \/ recs'[r][f] = fix[i].recs[r][f]
      BY <2>4, RepairRecordsDoes
    <3> QED BY <1>2, <3>1
  <2> QED BY <2>1, <2>2, <2>3, <2>4, RecsChange
<1>6. ASSUME NEW i \in Instances, NEW r \in Instances, NEW f \in Files
      PROVE  fix'[i].recs[r][f].ok
  <2>1. CASE fix'[i] = fix[i]
    BY <1>2, <2>1
  <2>2. CASE Crash(i)
    BY <1>0, <2>2, CrashDoes
  <2>3. CASE Restart(i)
    <3>1. fix'[i].recs[r][f] = recs[r][f] \/ fix'[i].recs[r][f] = Missing
      BY <2>3, RestartDoes
    <3> QED BY <1>0, <1>2, <3>1
  <2>4. CASE RepairFile(i)
    <3>1. fix'[i].recs[r][f] = fix[i].recs[r][f] \/ fix'[i].recs[r][f] = fix[i].hash
      BY <2>4, RepairFileDoes DEF GivesUp, Opens, TakesSource, HandsTo
    <3> QED BY <1>2, <3>1
  <2>5. CASE RepairRecords(i)
    <3>1. fix'[i].recs = fix[i].recs \/ fix'[i] = NoRepair
      BY <2>5, RepairRecordsDoes
    <3> QED BY <1>0, <1>2, <3>1
  <2> QED BY <2>1, <2>2, <2>3, <2>4, <2>5, RepairsChange
<1>7. ASSUME NEW i \in Instances
      PROVE  fix'[i].hash.ok /\ fix'[i].held.ok
  <2>1. CASE fix'[i] = fix[i]
    BY <1>2, <2>1
  <2>2. CASE Crash(i) \/ Restart(i)
    BY <1>0, <2>2, CrashDoes, RestartDoes
  <2>3. CASE RepairFile(i)
    <3>1. PICK f \in Files :
             \/ GivesUp(i, f) \/ Opens(i, f)
             \/ \E s \in GoodRoots(i, f) : TakesSource(i, f, s)
             \/ \E r \in Instances : HandsTo(i, f, r)
      BY <2>3, RepairFileDoes
    <3>2. CASE GivesUp(i, f)
      BY <1>2, <3>2 DEF GivesUp
    <3>3. CASE Opens(i, f)
      BY <1>2, <3>3, Typed DEF Opens, SameFile
    <3>4. ASSUME NEW s \in GoodRoots(i, f), TakesSource(i, f, s)
          PROVE  fix'[i].hash.ok /\ fix'[i].held.ok
      BY <1>2, <1>3, <3>4 DEF TakesSource
    <3>5. ASSUME NEW r \in Instances, HandsTo(i, f, r)
          PROVE  fix'[i].hash.ok /\ fix'[i].held.ok
      BY <1>0, <1>2, <3>5 DEF HandsTo, SameFile
    <3> QED BY <3>1, <3>2, <3>3, <3>4, <3>5
  <2>4. CASE RepairRecords(i)
    <3>1. \/ fix'[i] = NoRepair
          \/ fix'[i].hash = fix[i].hash /\ fix'[i].held = fix[i].held
      BY <2>4, RepairRecordsKeeps
    <3> QED BY <1>0, <1>2, <3>1
  <2> QED BY <2>1, <2>2, <2>3, <2>4, RepairsChange
<1>8. ASSUME NEW w \in Workers
      PROVE  SoundJob(job[w])'
  <2>1. CASE Serve(w)
    BY <1>2, <2>1, ServeSound
  <2>2. CASE job'[w] = job[w]
    BY <1>2, <2>2 DEF SoundJob
  <2>3. CASE job'[w] = Idle
    BY <1>0, <2>3 DEF SoundJob, Idle
  <2> QED BY <2>1, <2>2, <2>3, JobsChange
<1> QED
  BY <1>4, <1>5, <1>6, <1>7, <1>8

\* Of a known file there is one content, and it is everywhere; a copy that the
\* medium left alone is the whole of it.
LEMMA KnownIs ==
    ASSUME TypeOK, Grounded, WrittenOnceOnly, AckedHeld, ~overlapped, NEW f \in Files, Known(f)
    PROVE  /\ f \notin Rewritten /\ newest[f] = 1
           /\ \A r \in Instances : disk[r][f].v = 1 /\ (disk[r][f].ok => disk[r][f] = Whole)
<1>1. PICK i \in Instances : acked[i][f] > 0
  BY DEF Known
<1>2. acked[i][f] \in Nat /\ newest[f] \in Nat
  BY Typed, ConstantsTyped
<1>3. newest[f] = 1 /\ acked[i][f] = 1
  BY <1>1, <1>2 DEF Known, WrittenOnceOnly, Grounded
<1>4. ASSUME NEW r \in Instances
      PROVE  disk[r][f].v = 1 /\ (disk[r][f].ok => disk[r][f] = Whole)
  <2>1. PICK c \in Content : c = disk[r][f]
    BY Typed
  <2>2. acked[i][f] <= c.v /\ c.v <= newest[f] /\ c.v \in Nat
    BY <2>1, ConstantsTyped DEF AckedHeld, Grounded, Content
  <2>3. c.v = 1
    BY <1>3, <2>2
  <2>4. c.ok => c = Whole
    BY <2>3 DEF Content, Whole
  <2> QED BY <2>1, <2>3, <2>4
<1> QED
  BY <1>3, <1>4 DEF Known

\* Nobody writes a known file again.
LEMMA KnownIsWritten ==
    ASSUME TypeOK, Grounded, WrittenOnceOnly, NEW f \in Files, f \notin Rewritten,
           newest[f] = 1, NEW w \in Workers, WriteFile(w), NEW r \in Instances
    PROVE  disk'[r][f] = disk[r][f]
<1>1. PICK i \in Instances, g \in Files, v \in 1 .. MaxVersion : Wrote(w, i, g, v)
  BY WriteFileWrites
<1>2. job[w].pc = "writing" /\ g \in Among(job[w].todo)
  BY <1>1, Typed, TakeHead DEF Wrote
<1>3. g # f
  BY <1>2 DEF WrittenOnceOnly
<1> QED
  BY <1>1, <1>3 DEF Wrote

\* The copies repair trusts are those that were not damaged.
LEMMA GoodAreWhole ==
    ASSUME AllMirror, TypeOK, Grounded, WrittenOnceOnly, AckedHeld, ~overlapped,
           NEW f \in Files, Known(f), NEW i \in Instances,
           \A r \in Instances : fix[i].recs[r][f] = Whole
    PROVE  GoodRoots(i, f) = {r \in Instances : disk[r][f] = Whole}
<1>1. Required(i) = Instances /\ Whole # Missing
  BY DEF AllMirror, Whole, Missing
<1> QED
  BY <1>1 DEF GoodRoots, Contradicted, Has

\* There is one, then.
LEMMA GoodIsThere ==
    ASSUME AllMirror, OneDamage, TypeOK, Grounded, WrittenOnceOnly, AckedHeld, ~overlapped,
           NEW f \in Files, Known(f), KeptFile(f), NEW i \in Instances, up[i] = "repairing"
    PROVE  GoodRoots(i, f) # {}
<1>1. PICK j \in Instances : j # i
  BY DEF OneDamage
<1>2. disk[i][f].ok \/ disk[j][f].ok
  BY <1>1 DEF KeptFile
<1>3. disk[i][f] = Whole \/ disk[j][f] = Whole
  BY <1>2, KnownIs
<1> QED
  BY <1>3, GoodAreWhole DEF KeptFile

\* What one step does to the copies of a known file: at most it damages one, the
\* first, on a root that is down while nobody repairs.
LEMMA KnownCopies ==
    ASSUME Attainable, AllMirror, OneDamage, TypeOK, Grounded, WrittenOnceOnly, Alone, Mirrored,
           HandedOn, AckedHeld, SoundUntilRot, ~overlapped, [Next]_vars,
           NEW f \in Files, Known(f), KeptFile(f)
    PROVE  \/ \A r \in Instances : disk'[r][f].ok = TRUE \/ disk'[r][f] = disk[r][f]
           \/ \E s \in Instances :
                 /\ \A r \in Instances : r # s => disk'[r][f].ok = TRUE
                 /\ up[s] = "down" /\ up' = up /\ \A i \in Instances : up[i] # "repairing"
<1> DEFINE Mended == \A r \in Instances : disk'[r][f].ok = TRUE \/ disk'[r][f] = disk[r][f]
<1>0. /\ Whole.ok = TRUE /\ f \notin Rewritten /\ newest[f] = 1
      /\ \A r \in Instances : disk[r][f].v = 1 /\ (disk[r][f].ok => disk[r][f] = Whole)
  BY KnownIs DEF Whole
<1>2. ASSUME UNCHANGED disk PROVE Mended
  BY <1>2
<1>3. ASSUME NEW w \in Workers, WriteFile(w) PROVE Mended
  BY <1>0, <1>3, KnownIsWritten
<1>4. ASSUME NEW w \in Workers, Copy(w) PROVE Mended
  <2>1. PICK h \in Instances : h = Home[w]
    BY ConstantsTyped
  <2>2. /\ job[w].pc = "copying"
        /\ \A r \in Instances :
             \/ disk'[r][f] = disk[r][f]
             \/ f = Head(job[w].todo) /\ disk'[r][f] = job[w].held
    BY <1>4, CopyDoes
  <2>3. up[h] = "up"
    BY <2>1, <2>2, Typed
  <2>4. disk[h][f] = Whole
    BY <1>0, <2>3 DEF KeptFile
  <2>5. f = Head(job[w].todo) => job[w].held = disk[h][f]
    BY <2>1, <2>2 DEF Mirrored, JobMirrors
  <2> QED BY <1>0, <2>2, <2>4, <2>5
<1>5. ASSUME NEW i \in Instances, RepairFile(i) PROVE Mended
  <2>1. up[i] = "repairing" /\ HandsOn(fix[i])
    BY <1>5, RepairReplaces DEF HandedOn
  <2>2. ASSUME NEW q \in Instances, Replaces(i, f, q)
        PROVE  disk'[q][f] = Whole
    <3>1. fix[i].over # <<>> /\ f = Head(fix[i].todo) /\ fix[i].held # Missing
          /\ disk'[q][f] = fix[i].held
      BY <2>2 DEF Replaces
    <3>2. fix[i].held = fix[i].hash
      BY <2>1, <3>1 DEF HandsOn
    <3> QED BY <2>1, <3>1, <3>2 DEF KeptFile
  <2>3. ASSUME NEW q \in Instances, NEW g \in Files, Replaces(i, g, q) PROVE Mended
    <3>1. \A r \in Instances : r # q \/ g # f => disk'[r][f] = disk[r][f]
      BY <2>3 DEF Replaces
    <3> QED BY <1>0, <2>2, <2>3, <3>1
  <2> QED BY <1>2, <1>5, <2>3, RepairReplaces
<1>6. ASSUME NEW s \in Instances, NEW g \in Files, Rot(s, g)
      PROVE  \/ Mended
             \/ /\ \A r \in Instances : r # s => disk'[r][f].ok = TRUE
                /\ up[s] = "down" /\ up' = up /\ \A i \in Instances : up[i] # "repairing"
  <2>1. /\ rots < MaxRot /\ ~Busy
        /\ up[s] = "down" \/ "rot_live" \in Allowed
        /\ \A r \in Instances, x \in Files : r # s \/ x # g => disk'[r][x] = disk[r][x]
        /\ up' = up
    BY <1>6, RotDoes
  <2>2. rots = 0 /\ up[s] = "down"
    BY <2>1, RotsChange, ReplicatedStoreAssumption DEF OneDamage
  <2>3. \A r \in Instances : disk[r][f] = Whole
    BY <1>0, <2>2 DEF SoundUntilRot
  <2>4. \A r \in Instances : r # s => disk'[r][f].ok = TRUE
    BY <1>0, <2>1, <2>3
  <2>5. \A i \in Instances : up[i] # "repairing"
    BY <2>1 DEF Busy
  <2> QED BY <2>1, <2>2, <2>4, <2>5
<1> DEFINE Hit == \E s \in Instances :
                     /\ \A r \in Instances : r # s => disk'[r][f].ok = TRUE
                     /\ up[s] = "down" /\ up' = up /\ \A i \in Instances : up[i] # "repairing"
<1>7. ASSUME NEW s \in Instances, NEW g \in Files, Rot(s, g) PROVE Mended \/ Hit
  BY <1>6, <1>7
<1> HIDE DEF Mended, Hit
<1>8. Mended \/ Hit
  BY <1>2, <1>3, <1>4, <1>5, <1>7, DiskChanges
<1> QED
  BY <1>8 DEF Mended, Hit

\* An instance serves again after its repair.
LEMMA UpComes ==
    ASSUME TypeOK, [Next]_vars, NEW i \in Instances, up'[i] = "up", up[i] # "up"
    PROVE  up[i] = "repairing" /\ RepairRecords(i)
<1>1. up'[i] # up[i]
  OBVIOUS
<1>2. Crash(i) \/ Restart(i) \/ RepairFile(i) \/ RepairRecords(i)
  BY <1>1, RepairsChange
<1>3. ~Crash(i) /\ ~Restart(i)
  BY CrashDoes, RestartDoes
<1>4. ~RepairFile(i)
  BY <1>1 DEF RepairFile, ExamineFile, PassCopy, OpenSource, ReplaceCopy
<1> QED
  BY <1>2, <1>3, <1>4 DEF RepairRecords

\* A repair comes to a known file before it is through.
LEMMA StillToRepair ==
    ASSUME Attainable, AllMirror, OneDamage, TypeOK, Grounded, WrittenOnceOnly, Alone, Mirrored,
           HandedOn, AckedHeld, SoundUntilRot, ~overlapped, [Next]_vars,
           NEW f \in Files, Known(f), KeptFile(f), NEW i \in Instances, up'[i] = "repairing",
           f \notin Among(fix'[i].todo)
    PROVE  \A r \in Instances : disk'[r][f].ok = TRUE
<1>1. ASSUME up[i] = "repairing", f \notin Among(fix[i].todo)
      PROVE  \A r \in Instances : disk'[r][f].ok = TRUE
  <2>1. \A r \in Instances : disk[r][f].ok = TRUE
    <3>1. \A r \in Instances : disk[r][f].ok /\ disk[r][f].ok \in BOOLEAN
      BY <1>1, Typed DEF KeptFile, Content
    <3> QED BY <3>1
  <2>2. \A r \in Instances : disk'[r][f].ok = TRUE \/ disk'[r][f] = disk[r][f]
    BY <1>1, KnownCopies
  <2> QED BY <2>1, <2>2
<1>2. CASE fix'[i] = fix[i] /\ up'[i] = up[i]
  BY <1>1, <1>2
<1>3. CASE Crash(i)
  BY <1>3, CrashDoes
<1>4. CASE Restart(i)
  <2>1. Among(fix'[i].todo) = {g \in Files : \E r \in Required(i) : Has(r, g)}
    BY <1>4, RestartDoes
  <2>2. i \in Required(i) /\ disk[i][f].v = 1
    BY KnownIs, RequiredIs
  <2>3. Has(i, f)
    BY <2>2 DEF Has, Missing
  <2> QED BY <2>1, <2>2, <2>3
<1>5. CASE RepairFile(i)
  <2>1. PICK g \in Files :
           /\ up[i] = "repairing" /\ fix[i].todo # <<>> /\ g = Head(fix[i].todo)
           /\ \/ GivesUp(i, g) \/ Opens(i, g)
              \/ \E s \in GoodRoots(i, g) : TakesSource(i, g, s)
              \/ \E r \in Instances : HandsTo(i, g, r)
    BY <1>5, RepairFileDoes
  <2>2. Among(fix[i].todo) = {g} \cup Among(Tail(fix[i].todo))
    BY <2>1, Typed, TakeHead
  <2>3. CASE f \notin Among(fix[i].todo)
    BY <1>1, <2>1, <2>3
  <2>4. CASE f \in Among(fix[i].todo)
    <3>1. ~GivesUp(i, g)
      <4>1. ASSUME GivesUp(i, g) PROVE f = g /\ GoodRoots(i, g) = {}
        BY <2>2, <2>4, <4>1 DEF GivesUp
      <4> QED BY <2>1, <4>1, GoodIsThere
    <3>2. PICK r \in Instances : HandsTo(i, g, r)
      BY <2>1, <2>4, <3>1 DEF Opens, TakesSource
    <3>3. f = g /\ fix[i].over # <<>> /\ fix'[i].over = <<>>
      BY <2>2, <2>4, <3>2 DEF HandsTo
    <3>4. /\ Among(fix[i].over) = {r} /\ \A q \in Instances : q # r => disk'[q][f] = disk[q][f]
      <4>1. HandsOn(fix[i]) /\ HandsTo(i, f, r) /\ f = Head(fix[i].todo)
        BY <2>1, <3>2, <3>3 DEF HandedOn
      <4>2. /\ Among(fix[i].over) = {r} \cup Among(fix'[i].over)
            /\ \A q \in Instances : q # r => disk'[q][f] = disk[q][f]
        BY <4>1, HandedHandsOn
      <4> QED BY <3>3, <4>2, EmptyHasNone
    <3>5. /\ fix[i].hash = Whole /\ fix[i].held \in {Missing, Whole}
          /\ \A q \in Instances : ~disk[q][f].ok => q = r /\ r \in fix[i].bad
      <4>1. HandsOn(fix[i]) /\ f = Head(fix[i].todo)
        BY <2>1, <3>3 DEF HandedOn
      <4>2. fix[i].held \in {Missing, fix[i].hash}
        BY <3>3, <4>1 DEF HandsOn
      <4>3. /\ fix[i].hash = Whole
            /\ \A q \in Instances :
                  ~disk[q][f].ok => q \in Among(fix[i].over) /\ q \in fix[i].bad
        BY <2>1, <3>3, <4>1 DEF KeptFile
      <4> QED BY <3>4, <4>2, <4>3
    <3>6. \A q \in Instances : disk[q][f].ok \in BOOLEAN
      BY Typed DEF Content
    <3>7. CASE disk' = disk /\ r \notin fix[i].bad
      BY <3>5, <3>6, <3>7
    <3>8. CASE fix[i].held # Missing /\ disk'[r][f] = fix[i].held
      <4>1. disk'[r][f].ok = TRUE
        BY <3>5, <3>8 DEF Whole
      <4> QED BY <3>4, <3>5, <3>6, <4>1
    <3> QED BY <3>2, <3>3, <3>7, <3>8 DEF HandsTo
  <2> QED BY <2>3, <2>4
<1>6. CASE RepairRecords(i)
  <2>1. up[i] = "repairing" /\ fix[i].todo = <<>>
    BY <1>6 DEF RepairRecords
  <2> QED BY <1>1, <2>1, EmptyHasNone
<1> QED
  BY <1>2, <1>3, <1>4, <1>5, <1>6, RepairsChange

LEMMA FileStaysKept ==
    ASSUME Attainable, AllMirror, OneDamage, TypeOK, Grounded, WrittenOnceOnly, Alone, Mirrored,
           HandedOn, AckedHeld, SoundUntilRot, ~overlapped', [Next]_vars,
           NEW f \in Files, Known(f), KeptFile(f)
    PROVE  KeptFile(f)'
<1>0. /\ ~overlapped
      /\ \A r \in Instances : disk[r][f].v = 1 /\ (disk[r][f].ok => disk[r][f] = Whole)
      /\ \A r \in Instances : recs[r][f] = Whole
      /\ \A i, r \in Instances : up[i] = "repairing" => fix[i].recs[r][f] = Whole
  BY Overlaps, KnownIs DEF KeptFile
<1>1. ASSUME NEW r \in Instances
      PROVE  recs'[r][f] = Whole
  <2>1. ASSUME NEW w \in Workers, job[w].pc = "recording" PROVE disk[Home[w]][f] = Whole
    <3>1. PICK h \in Instances : h = Home[w] /\ up[h] = "up"
      BY <2>1, Typed, ConstantsTyped
    <3>2. disk[h][f].ok
      BY <3>1 DEF KeptFile
    <3> QED BY <1>0, <3>1, <3>2
  <2> QED BY <1>0, <2>1, RecsFrom
<1>2. ASSUME NEW r \in Instances, ~disk'[r][f].ok
      PROVE  /\ up'[r] # "up"
             /\ \A s \in Instances : ~disk'[s][f].ok => r = s
  <2>1. CASE \A s \in Instances : disk'[s][f].ok = TRUE \/ disk'[s][f] = disk[s][f]
    <3>1. /\ ~disk[r][f].ok /\ disk'[r][f] = disk[r][f]
          /\ \A s \in Instances : ~disk'[s][f].ok => ~disk[s][f].ok
      BY <1>2, <2>1
    <3>2. up[r] # "up" /\ \A s \in Instances : ~disk[s][f].ok => r = s
      BY <3>1 DEF KeptFile
    <3>3. ASSUME up'[r] = "up" PROVE FALSE
      <4>1. up[r] = "repairing" /\ RepairRecords(r)
        BY <3>2, <3>3, UpComes
      <4>2. f \notin Among(fix[r].todo)
        BY <4>1, EmptyHasNone DEF RepairRecords
      <4> QED BY <3>1, <4>1, <4>2 DEF KeptFile
    <3> QED BY <3>1, <3>2, <3>3
  <2>2. ASSUME NEW t \in Instances, \A s \in Instances : s # t => disk'[s][f].ok = TRUE,
               up[t] = "down", up' = up
        PROVE  up'[r] # "up" /\ \A s \in Instances : ~disk'[s][f].ok => r = s
    BY <1>2, <2>2
  <2> QED BY <1>0, <2>1, <2>2, KnownCopies
<1>3. ASSUME NEW i \in Instances, up'[i] = "repairing", NEW r \in Instances
      PROVE  fix'[i].recs[r][f] = Whole
  BY <1>0, <1>3, RepairsFrom DEF KeptFile
<1>4. ASSUME NEW i \in Instances, up'[i] = "repairing", f \notin Among(fix'[i].todo)
      PROVE  \A r \in Instances : disk'[r][f].ok
  BY <1>0, <1>4, StillToRepair
<1>5. ASSUME NEW i \in Instances, up'[i] = "repairing", fix'[i].over # <<>>,
             f = Head(fix'[i].todo)
      PROVE  /\ fix'[i].hash = Whole
             /\ \A r \in Instances :
                   ~disk'[r][f].ok => r \in Among(fix'[i].over) /\ r \in fix'[i].bad
  <2>1. ASSUME up[i] = "repairing", fix[i].over # <<>>, f = Head(fix[i].todo)
        PROVE  /\ fix[i].hash = Whole /\ HandsOn(fix[i])
               /\ \A r \in Instances :
                     ~disk[r][f].ok => r \in Among(fix[i].over) /\ r \in fix[i].bad
    BY <1>0, <2>1 DEF KeptFile, HandedOn
  <2>2. CASE Restart(i)
    BY <1>5, <2>2, RestartDoes
  <2>3. CASE up[i] = "repairing" /\ fix'[i] = fix[i] /\ UNCHANGED <<disk, recs>>
    BY <1>5, <2>1, <2>3
  <2>4. CASE up[i] = "repairing" /\ RepairRecords(i)
    <3>1. fix[i].todo = <<>>
      BY <2>4 DEF RepairRecords
    <3>2. fix[i].over = <<>>
      BY <3>1 DEF Grounded, FixGrounded
    <3> QED BY <1>5, <2>4, <3>2, RepairRecordsKeeps, NoRepairTyped
  <2>5. CASE up[i] = "repairing" /\ RepairFile(i)
    <3>1. PICK g \in Files :
             /\ g = Head(fix[i].todo)
             /\ \/ GivesUp(i, g) \/ Opens(i, g)
                \/ \E s \in GoodRoots(i, g) : TakesSource(i, g, s)
                \/ \E r \in Instances : HandsTo(i, g, r)
      BY <2>5, RepairFileDoes
    <3>2. ~GivesUp(i, g)
      BY <1>5 DEF GivesUp
    <3>3. CASE Opens(i, g)
      <4>1. /\ fix[i].over # <<>> /\ fix'[i].over = fix[i].over /\ fix'[i].todo = fix[i].todo
            /\ fix'[i].hash = fix[i].hash /\ fix'[i].bad = fix[i].bad /\ disk' = disk
        BY <3>3 DEF Opens, SameFile
      <4> QED BY <1>5, <2>1, <2>5, <4>1
    <3>4. ASSUME NEW s \in GoodRoots(i, g), TakesSource(i, g, s)
          PROVE  /\ fix'[i].hash = Whole
                 /\ \A r \in Instances :
                       ~disk'[r][f].ok => r \in Among(fix'[i].over) /\ r \in fix'[i].bad
      <4>1. /\ g = f /\ disk' = disk /\ fix'[i].hash = disk[s][f]
            /\ Required(i) = Instances /\ Among(fix'[i].over) = Instances
            /\ fix'[i].bad = {r \in Instances : Has(r, f) /\ Contradicted(r, f, fix[i].recs)}
        BY <1>5, <3>1, <3>4, RequiredIs DEF TakesSource, AllMirror
      <4>2. disk[s][f] = Whole
        BY <1>0, <2>5, <3>4, <4>1, GoodAreWhole
      <4>3. ASSUME NEW r \in Instances, ~disk[r][f].ok PROVE r \in fix'[i].bad
        <5>1. disk[r][f] # Whole /\ fix[i].recs[r][f] = Whole
          BY <1>0, <2>5, <4>3 DEF Whole
        <5>2. disk[r][f].v = 1
          BY <1>0
        <5> QED BY <4>1, <5>1, <5>2 DEF Has, Contradicted, Whole, Missing
      <4> QED BY <4>1, <4>2, <4>3
    <3>5. ASSUME NEW r \in Instances, HandsTo(i, g, r)
          PROVE  /\ fix'[i].hash = Whole
                 /\ \A q \in Instances :
                       ~disk'[q][f].ok => q \in Among(fix'[i].over) /\ q \in fix'[i].bad
      <4>1. /\ fix[i].over # <<>> /\ g = f /\ fix'[i].hash = fix[i].hash
            /\ fix'[i].bad = fix[i].bad
            /\ (disk' = disk /\ r \notin fix[i].bad)
               \/ (fix[i].held # Missing /\ disk'[r][f] = fix[i].held)
        BY <1>5, <3>1, <3>5 DEF HandsTo, SameFile
      <4>2. /\ fix[i].hash = Whole /\ HandsOn(fix[i]) /\ f = Head(fix[i].todo)
            /\ \A q \in Instances :
                  ~disk[q][f].ok => q \in Among(fix[i].over) /\ q \in fix[i].bad
        BY <2>1, <2>5, <3>1, <4>1
      <4>3. /\ Among(fix[i].over) = {r} \cup Among(fix'[i].over)
            /\ \A q \in Instances : q # r => disk'[q][f] = disk[q][f]
        BY <3>5, <4>1, <4>2, HandedHandsOn
      <4>4. fix[i].held \in {Missing, Whole}
        BY <4>1, <4>2 DEF HandsOn
      <4>5. disk'[r][f].ok
        <5>1. CASE disk' = disk /\ r \notin fix[i].bad
          BY <4>2, <5>1
        <5>2. CASE fix[i].held # Missing /\ disk'[r][f] = fix[i].held
          BY <4>4, <5>2 DEF Whole
        <5> QED BY <4>1, <5>1, <5>2
      <4> QED BY <4>1, <4>2, <4>3, <4>5
    <3> QED BY <3>1, <3>2, <3>3, <3>4, <3>5
  <2> QED BY <1>5, <2>2, <2>3, <2>4, <2>5, RepairStep
<1> QED
  BY <1>1, <1>2, <1>3, <1>4, <1>5 DEF KeptFile

LEMMA StepKept ==
    ASSUME Attainable, AllMirror, AllCount, OneDamage, TypeOK, Grounded, WrittenOnceOnly, Alone,
           Mirrored, HandedOn, AckedHeld, SoundUntilRot, Kept, [Next]_vars
    PROVE  Kept'
<1> SUFFICES ASSUME ~overlapped', NEW f \in Files, Known(f)' PROVE KeptFile(f)'
  BY DEF Kept
<1>0. ~overlapped
  BY Overlaps
<1>1. CASE Known(f)
  BY <1>0, <1>1, FileStaysKept DEF Kept
<1>2. CASE ~Known(f)
  <2>1. PICK i \in Instances : f \notin Rewritten /\ acked'[i][f] > 0 /\ ~(acked[i][f] > 0)
    BY <1>2 DEF Known
  <2>2. PICK w \in Workers : Answer(w)
    BY <2>1, AckedChanges
  <2>3. /\ i = Home[w] /\ job[w].reached >= MinReplicas[i] /\ job[w].wrote[f] > acked[i][f]
        /\ UNCHANGED <<disk, recs, up, fix>>
    BY <2>1, <2>2, AnswerDoes
  <2>4. job[w].wrote[f] > 0 /\ job[w].wrote[f] \in Nat
    BY <2>3, Typed, ConstantsTyped
  <2>5. /\ disk[i][f].ok /\ job[w].wrote[f] <= disk[i][f].v
        /\ \A r \in Instances : disk[r][f] = disk[i][f] /\ recs[r][f] = disk[i][f]
        /\ \A j \in Instances : up[j] # "repairing"
    BY <1>0, <2>2, <2>3, <2>4, AnsweredIsEverywhere
  <2>6. disk[i][f] = Whole
    <3>1. PICK c \in Content : c = disk[i][f]
      BY Typed
    <3>2. c.v <= newest[f] /\ newest[f] <= 1 /\ newest[f] \in Nat /\ c.v \in Nat
      BY <2>1, <3>1, Typed, ConstantsTyped DEF Grounded, WrittenOnceOnly, Content
    <3>3. c.v = 1 /\ c.ok
      BY <2>4, <2>5, <3>1, <3>2
    <3> QED BY <3>1, <3>3 DEF Content, Whole
  <2>7. \A r \in Instances : disk'[r][f] = Whole /\ recs'[r][f] = Whole /\ up'[r] # "repairing"
    BY <2>3, <2>5, <2>6
  <2> QED BY <2>7 DEF KeptFile, Whole
<1> QED
  BY <1>1, <1>2

LEMMA StepHealing ==
    ASSUME AllMirror, TypeOK, Grounded, Alone, HandedOn, SoundUntilRot, Healing, [Next]_vars
    PROVE  Healing'
<1> SUFFICES ASSUME ~overlapped', NEW i \in Instances, up'[i] = "repairing"
             PROVE  Heals(fix[i])'
  BY DEF Healing
<1>0. ~overlapped /\ TypeOK' /\ SoundUntilRot' /\ (rots' = 0 => rots = 0)
  BY Overlaps, StepTyped, StepSound, RotsChange
<1> DEFINE x == fix'[i]
           Level == \A f \in Files \ (Among(x.todo) \cup x.lost) : \A r, s \in Instances :
                       /\ disk'[r][f].v = disk'[s][f].v
                       /\ rots' = 0 => x.recs[r][f] \in {Missing, disk'[r][f]}
           Back == \A r \in Instances \ Among(x.left) : \A f \in Files : recs'[r][f] = x.recs[r][f]
           NotYet == x.todo # <<>> => Among(x.left) = Instances
<1>1. CASE up[i] = "repairing" /\ fix'[i] = fix[i] /\ UNCHANGED <<disk, recs>>
  <2>1. Heals(fix[i])
    BY <1>0, <1>1 DEF Healing
  <2> QED BY <1>0, <1>1, <2>1 DEF Heals
<1>2. CASE Restart(i)
  <2>1. /\ Among(x.todo) = {f \in Files : \E r \in Required(i) : Has(r, f)}
        /\ \A r \in Instances, f \in Files :
              x.recs[r][f] = IF r \in Required(i) THEN recs[r][f] ELSE Missing
        /\ x.left = RootsOf(i) /\ disk' = disk
    BY <1>2, RestartDoes
  <2>2. Among(x.left) = Instances /\ Required(i) = Instances
    BY <2>1, RequiredIs DEF AllMirror
  <2>3. Level
    <3> SUFFICES ASSUME NEW f \in Files, f \notin Among(x.todo), NEW r \in Instances
                 PROVE  disk'[r][f] = Missing /\ x.recs[r][f] = Missing
      OBVIOUS
    <3>1. ~Has(r, f)
      BY <2>1, <2>2
    <3>2. disk[r][f] = Missing /\ recs[r][f] = Missing
      BY <3>1 DEF Has, Grounded
    <3> QED BY <2>1, <2>2, <3>2
  <2>4. Back /\ NotYet
    BY <2>2
  <2> HIDE DEF x
  <2> QED BY <2>3, <2>4 DEF Heals, x
<1>3. CASE up[i] = "repairing" /\ RepairFile(i)
  <2>1. /\ Heals(fix[i]) /\ HandsOn(fix[i]) /\ fix[i].todo # <<>> /\ x.left = fix[i].left
    BY <1>0, <1>3, RepairFileDoes DEF Healing, HandedOn
  <2>2. PICK f \in Files :
          /\ f = Head(fix[i].todo)
          /\ \/ GivesUp(i, f) \/ Opens(i, f)
             \/ \E s \in GoodRoots(i, f) : TakesSource(i, f, s)
             \/ \E r \in Instances : HandsTo(i, f, r)
    BY <1>3, RepairFileDoes
  <2>3. Among(fix[i].todo) = {f} \cup Among(Tail(fix[i].todo)) /\ Among(x.left) = Instances
    BY <2>1, <2>2, Typed, TakeHead DEF Heals
  <2>4. /\ fix[i].lost \subseteq x.lost
        /\ x.todo = fix[i].todo \/ x.todo = Tail(fix[i].todo)
        /\ \A g \in Files, r \in Instances : g # f =>
              disk'[r][g] = disk[r][g] /\ x.recs[r][g] = fix[i].recs[r][g]
    BY <2>2 DEF GivesUp, Opens, TakesSource, HandsTo, SameFile
  <2>5. ASSUME f \notin Among(x.todo) \cup x.lost, NEW r \in Instances, NEW s \in Instances
        PROVE  /\ disk'[r][f].v = disk'[s][f].v
               /\ rots' = 0 => x.recs[r][f] = disk'[r][f]
    <3>1. PICK t \in Instances : HandsTo(i, f, t)
      BY <2>2, <2>3, <2>5 DEF GivesUp, Opens, TakesSource
    <3>2. fix[i].over # <<>> /\ x.over = <<>> /\ x.recs[t][f] = fix[i].hash
          /\ \A q \in Instances : q # t => x.recs[q][f] = fix[i].recs[q][f]
      BY <2>3, <2>5, <3>1 DEF HandsTo
    <3>3. /\ disk'[t][f].v = fix[i].hash.v /\ Among(fix[i].over) = {t}
          /\ \A q \in Instances : q # t => disk'[q][f] = disk[q][f]
      <4>1. HandsOn(fix[i]) /\ f = Head(fix[i].todo)
        BY <2>1, <2>2
      <4>2. /\ disk'[t][f].v = fix[i].hash.v
            /\ Among(fix[i].over) = {t} \cup Among(fix'[i].over)
            /\ \A q \in Instances : q # t => disk'[q][f] = disk[q][f]
        BY <3>1, <4>1, HandedHandsOn
      <4> QED BY <3>2, <4>2, EmptyHasNone
    <3>4. \A q \in Instances : q # t =>
             disk[q][f].v = fix[i].hash.v /\ fix[i].recs[q][f] = fix[i].hash
      BY <2>1, <2>2, <3>2, <3>3 DEF HandsOn
    <3>5. \A q \in Instances : disk'[q][f].v = fix[i].hash.v /\ x.recs[q][f] = fix[i].hash
      BY <3>2, <3>3, <3>4
    <3>6. ASSUME rots' = 0 PROVE fix[i].hash = disk'[r][f]
      <4>1. fix[i].hash.ok /\ disk'[r][f].ok
        BY <1>0, <3>6 DEF SoundUntilRot
      <4>2. fix[i].hash \in Content /\ disk'[r][f] \in Content
        BY <1>0, Typed, TypedAfter
      <4> QED BY <3>5, <4>1, <4>2 DEF Content
    <3> QED BY <3>5, <3>6
  <2>6. Level
    <3> SUFFICES ASSUME NEW g \in Files \ (Among(x.todo) \cup x.lost), NEW r \in Instances,
                        NEW s \in Instances
                 PROVE  /\ disk'[r][g].v = disk'[s][g].v
                        /\ rots' = 0 => x.recs[r][g] \in {Missing, disk'[r][g]}
      OBVIOUS
    <3>1. CASE g = f
      BY <2>5, <3>1
    <3>2. CASE g # f
      <4>1. g \in Files \ (Among(fix[i].todo) \cup fix[i].lost)
        BY <2>3, <2>4, <3>2
      <4>2. /\ disk[r][g].v = disk[s][g].v
            /\ rots = 0 => fix[i].recs[r][g] \in {Missing, disk[r][g]}
        BY <2>1, <4>1 DEF Heals
      <4>3. /\ disk'[r][g] = disk[r][g] /\ disk'[s][g] = disk[s][g]
            /\ x.recs[r][g] = fix[i].recs[r][g]
        BY <2>4, <3>2
      <4> QED BY <1>0, <4>2, <4>3
    <3> QED BY <3>1, <3>2
  <2>7. Back /\ NotYet
    BY <2>3
  <2> HIDE DEF x
  <2> QED BY <2>6, <2>7 DEF Heals, x
<1>4. CASE up[i] = "repairing" /\ RepairRecords(i)
  <2>1. PICK r \in Instances :
           /\ up[i] = "repairing" /\ fix[i].todo = <<>> /\ fix[i].left # <<>>
           /\ r = Head(fix[i].left)
           /\ \A f \in Files : recs'[r][f] = fix[i].recs[r][f]
           /\ \A s \in Instances, f \in Files : s # r => recs'[s][f] = recs[s][f]
           /\ recs' \in [Instances -> [Files -> Content]]
           /\ \A j \in Instances : j # i => fix'[j] = fix[j] /\ up'[j] = up[j]
           /\ \/ /\ Tail(fix[i].left) # <<>> /\ fix'[i].left = Tail(fix[i].left)
                 /\ fix'[i].todo = <<>> /\ fix'[i].recs = fix[i].recs
                 /\ fix'[i].lost = fix[i].lost /\ up'[i] = "repairing"
              \/ Among(fix[i].left) = {r} /\ fix'[i] = NoRepair /\ up'[i] = "up"
           /\ UNCHANGED <<disk, job, newest, acked, overlapped, budgets>>
    BY <1>4, RepairRecordsDoes
  <2>2. /\ x.left = Tail(fix[i].left) /\ x.todo = <<>> /\ fix[i].todo = <<>>
        /\ x.recs = fix[i].recs /\ x.lost = fix[i].lost /\ disk' = disk
    BY <2>1
  <2>3. Heals(fix[i]) /\ Among(fix[i].left) = {r} \cup Among(x.left)
    BY <1>0, <2>1, <2>2, Typed, TakeHead DEF Healing
  <2>4. Level
    BY <1>0, <2>2, <2>3 DEF Heals
  <2>5. Back
    <3> SUFFICES ASSUME NEW s \in Instances \ Among(x.left), NEW f \in Files
                 PROVE  recs'[s][f] = x.recs[s][f]
      OBVIOUS
    <3>1. CASE s = r
      BY <2>1, <2>2, <3>1
    <3>2. CASE s # r
      BY <2>1, <2>2, <2>3, <3>2 DEF Heals
    <3> QED BY <3>1, <3>2
  <2>6. NotYet
    BY <2>2
  <2> HIDE DEF x
  <2> QED BY <2>4, <2>5, <2>6 DEF Heals, x
<1> QED
  BY <1>1, <1>2, <1>3, <1>4, RepairStep

-----------------------------------------------------------------------------
(* What verify, repair and the medium's one damage come to.                *)

LEMMA InitKept == Init => SoundUntilRot /\ Kept /\ Healing
<1> SUFFICES ASSUME Init PROVE SoundUntilRot /\ Kept /\ Healing
  OBVIOUS
<1>1. /\ Missing.ok /\ Idle.held = Missing
      /\ \A f \in Files : Idle.hashes[f] = Missing
      /\ \A r \in Instances, f \in Files : NoRepair.recs[r][f] = Missing
      /\ NoRepair.hash = Missing /\ NoRepair.held = Missing
  BY DEF Missing, Idle, NoRepair
<1>2. /\ \A r \in Instances, f \in Files : /\ disk[r][f] = Missing /\ recs[r][f] = Missing
                                           /\ acked[r][f] = 0
      /\ \A w \in Workers : job[w] = Idle
      /\ \A i \in Instances : up[i] = "up" /\ fix[i] = NoRepair
  BY DEF Init
<1>3. SoundUntilRot
  BY <1>1, <1>2 DEF SoundUntilRot
<1>4. Kept
  BY <1>2 DEF Kept, Known
<1>5. Healing
  BY <1>2 DEF Healing
<1> QED
  BY <1>3, <1>4, <1>5

\* All that is needed of the files that are never rewritten and of repairs.
KeptInv == /\ TypeOK /\ Grounded /\ ReachedDone /\ WrittenOnceOnly /\ Alone /\ Mirrored
           /\ HandedOn /\ AckedHeld /\ SoundUntilRot /\ Kept /\ Healing

LEMMA StoreKept ==
    ASSUME Attainable, OncePerRequest, AllMirror, AllCount, OneDamage
    PROVE  (Init => KeptInv) /\ (KeptInv /\ [Next]_vars => KeptInv')
<1>1. Init => KeptInv
  BY InitTyped, InitGrounded, InitAlone, InitKept DEF KeptInv
<1>2. ASSUME KeptInv, [Next]_vars PROVE KeptInv'
  <2>1. /\ TypeOK /\ Grounded /\ ReachedDone /\ WrittenOnceOnly /\ Alone /\ Mirrored
        /\ HandedOn /\ AckedHeld /\ SoundUntilRot /\ Kept /\ Healing
    BY <1>2 DEF KeptInv
  <2>2. TypeOK' /\ Grounded' /\ ReachedDone' /\ WrittenOnceOnly' /\ Alone'
    BY <1>2, <2>1, StepTyped, StepGrounded, StepReached, StepOnce, StepAlone
  <2>3. Mirrored' /\ HandedOn' /\ AckedHeld'
    BY <1>2, <2>1, StepMirrored, StepHandedOn, StepHeld
  <2>4. SoundUntilRot' /\ Kept' /\ Healing'
    BY <1>2, <2>1, StepSound, StepKept, StepHealing
  <2> QED BY <2>2, <2>3, <2>4 DEF KeptInv
<1> QED
  BY <1>1, <1>2

\* One damaged copy costs nothing: of every file that is never rewritten and was
\* acknowledged some root holds an undamaged copy, as new as acknowledged, when the
\* damage comes while its instance is down and nothing overlaps (commit, repair).
THEOREM StoreCapturesSurvive ==
    ASSUME Attainable, OncePerRequest, AllMirror, AllCount, OneDamage
    PROVE  Spec => []CapturesSurvive
<1>1. KeptInv => CapturesSurvive
  <2> SUFFICES ASSUME KeptInv, ~overlapped, NEW i \in Instances, NEW f \in Files \ Rewritten,
                      acked[i][f] > 0
               PROVE  \E r \in Required(i) : disk[r][f].ok /\ disk[r][f].v >= acked[i][f]
    BY DEF CapturesSurvive, Survives
  <2>1. PICK j \in Instances : j # i
    BY DEF OneDamage
  <2>2. KeptFile(f)
    BY DEF KeptInv, Kept, Known
  <2>3. disk[i][f].ok \/ disk[j][f].ok
    BY <2>1, <2>2 DEF KeptFile
  <2>4. \A r \in Instances : disk[r][f].v >= acked[i][f]
    <3>1. \A r \in Instances : disk[r][f].v \in Nat /\ acked[i][f] \in Nat
      BY Typed, ConstantsTyped DEF KeptInv, Content
    <3>2. \A r \in Instances : acked[i][f] <= disk[r][f].v
      BY DEF KeptInv, AckedHeld
    <3> QED BY <3>1, <3>2
  <2> QED BY <2>1, <2>3, <2>4 DEF AllMirror
<1> QED
  BY <1>1, StoreKept, PTL DEF Spec

\* verify tells damage from good copies: the damaged copy of an acknowledged file
\* that is never rewritten disagrees with its root's record, and an undamaged one
\* as old as an acknowledged write disagrees only with the record of a newer write
\* that was not acknowledged.
THEOREM StoreVerifyIsExact ==
    ASSUME Attainable, OncePerRequest, AllMirror, AllCount, OneDamage
    PROVE  Spec => []VerifyIsExact
<1>1. KeptInv => RotIsTold
  <2> SUFFICES ASSUME KeptInv, ~overlapped, NEW r \in Instances, NEW i \in Instances,
                      NEW f \in Files \ Rewritten, acked[i][f] > 0, ~disk[r][f].ok
               PROVE  Contradicted(r, f, recs)
    BY DEF RotIsTold
  <2>1. recs[r][f] = Whole
    BY DEF KeptInv, Kept, Known, KeptFile
  <2> QED BY <2>1 DEF Contradicted, Whole, Missing
<1>2. ASSUME KeptInv PROVE VerifyIsSound
  <2>0. /\ TypeOK /\ Grounded /\ WrittenOnceOnly /\ AckedHeld /\ SoundUntilRot /\ Kept
        /\ overlapped \in BOOLEAN
    BY <1>2 DEF KeptInv, TypeOK
  <2> DEFINE Told(r, i, f) == /\ rots = 0 \/ f \notin Rewritten
                              /\ Contradicted(r, f, recs) /\ disk[r][f].ok
                              /\ disk[r][f].v <= acked[i][f]
  <2>1. ASSUME ~overlapped, NEW r \in Instances, NEW i \in Instances, NEW f \in Files,
               Told(r, i, f), NEW j \in Instances
        PROVE  acked[j][f] < recs[r][f].v
    <3>1. PICK c \in Content, d \in Content : c = recs[r][f] /\ d = disk[r][f]
      BY <2>0, Typed
    <3>2. PICK a \in Nat, b \in Nat : a = acked[i][f] /\ b = acked[j][f]
      BY <2>0, Typed, ConstantsTyped
    <3>3. c.v \in Nat /\ d.v \in Nat /\ a <= c.v /\ a <= d.v /\ b <= c.v /\ b <= d.v /\ d.v <= a
      BY <2>0, <2>1, <3>1, <3>2, ConstantsTyped DEF AckedHeld, Content
    <3>4. ASSUME ~(b < c.v) PROVE FALSE
      <4>1. c.v = d.v /\ a = c.v
        BY <3>2, <3>3, <3>4
      <4>2. c # Missing /\ c # d /\ d.ok
        BY <2>1, <3>1 DEF Contradicted
      <4>3. ~c.ok
        BY <3>1, <4>1, <4>2 DEF Content
      <4>4. f \notin Rewritten
        BY <2>0, <2>1, <3>1, <4>3 DEF SoundUntilRot
      <4>5. CASE a = 0
        BY <2>0, <3>1, <4>1, <4>3, <4>5 DEF Grounded, Real
      <4>6. CASE a > 0
        <5>1. KeptFile(f)
          BY <2>0, <2>1, <3>2, <4>4, <4>6 DEF Kept, Known
        <5> QED BY <3>1, <4>3, <5>1 DEF KeptFile, Whole
      <4> QED BY <3>2, <4>5, <4>6
    <3> QED BY <3>1, <3>2, <3>3, <3>4
  <2>2. ~overlapped => \A r, i \in Instances, f \in Files :
                          Told(r, i, f) => \A j \in Instances : acked[j][f] < recs[r][f].v
    <3> HIDE DEF Told
    <3> QED BY <2>1
  <2> QED BY <2>2 DEF VerifyIsSound
<1>3. KeptInv => VerifyIsExact
  BY <1>1, <1>2 DEF VerifyIsExact
<1> QED
  BY <1>3, StoreKept, PTL DEF Spec

\* A startup repair that ran alone leaves every root with the same version of every
\* file it does not report as lost, and with a record that agrees: of all files as
\* long as nothing was damaged, then of the acknowledged ones that are never
\* rewritten (repair and _repair_on_startup).
THEOREM StoreRepairHeals ==
    ASSUME Attainable, OncePerRequest, AllMirror, AllCount, OneDamage
    PROVE  Spec => RepairHeals
<1> DEFINE Healed(i) ==
      \A f \in Files \ fix[i].lost, r \in Required(i) :
         /\ disk[r][f].v = disk[i][f].v
         /\ rots = 0 \/ (f \notin Rewritten /\ \E j \in Instances : acked[j][f] > 0)
               => disk[r][f].ok /\ ~Contradicted(r, f, recs)'
<1>1. ASSUME KeptInv, [Next]_vars, NEW i \in Instances, up[i] = "repairing", up'[i] = "up",
             ~overlapped
      PROVE  Healed(i)
  <2>0. TypeOK /\ Grounded /\ WrittenOnceOnly /\ AckedHeld /\ SoundUntilRot /\ Kept /\ Healing
    BY <1>1 DEF KeptInv
  <2>1. RepairRecords(i)
    BY <1>1, <2>0, UpComes
  <2>2. PICK r \in Instances :
           /\ up[i] = "repairing" /\ fix[i].todo = <<>> /\ fix[i].left # <<>>
           /\ r = Head(fix[i].left)
           /\ \A f \in Files : recs'[r][f] = fix[i].recs[r][f]
           /\ \A s \in Instances, f \in Files : s # r => recs'[s][f] = recs[s][f]
           /\ recs' \in [Instances -> [Files -> Content]]
           /\ \A j \in Instances : j # i => fix'[j] = fix[j] /\ up'[j] = up[j]
           /\ \/ /\ Tail(fix[i].left) # <<>> /\ fix'[i].left = Tail(fix[i].left)
                 /\ fix'[i].todo = <<>> /\ fix'[i].recs = fix[i].recs
                 /\ fix'[i].lost = fix[i].lost /\ up'[i] = "repairing"
              \/ Among(fix[i].left) = {r} /\ fix'[i] = NoRepair /\ up'[i] = "up"
           /\ UNCHANGED <<disk, job, newest, acked, overlapped, budgets>>
    BY <2>0, <2>1, RepairRecordsDoes
  <2>3. Heals(fix[i]) /\ Among(fix[i].left) = {r} /\ Among(fix[i].todo) = {} /\ disk' = disk
    BY <1>1, <2>0, <2>2, EmptyHasNone DEF Healing
  <2>4. \A s \in Instances, f \in Files : recs'[s][f] = fix[i].recs[s][f]
    <3> SUFFICES ASSUME NEW s \in Instances, NEW f \in Files
                 PROVE  recs'[s][f] = fix[i].recs[s][f]
      OBVIOUS
    <3>1. CASE s = r
      BY <2>2, <3>1
    <3>2. CASE s # r
      BY <2>2, <2>3, <3>2 DEF Heals
    <3> QED BY <3>1, <3>2
  <2>5. ASSUME NEW f \in Files \ fix[i].lost, NEW s \in Instances
        PROVE  /\ disk[s][f].v = disk[i][f].v
               /\ rots = 0 \/ Known(f) =>
                     disk[s][f].ok /\ (recs'[s][f] = Missing \/ disk'[s][f] = recs'[s][f])
    <3>1. disk[s][f].v = disk[i][f].v
      BY <2>3 DEF Heals
    <3>2. CASE rots = 0
      <4>1. fix[i].recs[s][f] \in {Missing, disk[s][f]} /\ disk[s][f].ok
        BY <2>0, <2>3, <3>2 DEF Heals, SoundUntilRot
      <4> QED BY <2>3, <2>4, <3>1, <4>1
    <3>3. CASE Known(f)
      <4>1. disk[s][f].ok /\ fix[i].recs[s][f] = Whole
        BY <1>1, <2>0, <2>3, <3>3 DEF Kept, KeptFile
      <4>2. disk[s][f] = Whole
        BY <1>1, <2>0, <3>3, <4>1, KnownIs
      <4> QED BY <2>3, <2>4, <3>1, <4>1, <4>2
    <3> QED BY <3>1, <3>2, <3>3
  <2>6. Required(i) = Instances
    BY DEF AllMirror
  <2>7. \A s \in Instances, f \in Files :
          recs'[s][f] = Missing \/ disk'[s][f] = recs'[s][f] => ~Contradicted(s, f, recs)'
    BY DEF Contradicted
  <2> QED BY <2>5, <2>6, <2>7 DEF Known
<1>2. KeptInv /\ [Next]_vars => [\A i \in Instances :
         up[i] = "repairing" /\ up'[i] = "up" /\ ~overlapped => Healed(i)]_vars
  BY <1>1
<1>3. KeptInv /\ [Next]_vars => [\A i \in Instances :
          up[i] = "repairing" /\ up'[i] = "up" /\ ~overlapped =>
             \A f \in Files \ fix[i].lost, r \in Required(i) :
                /\ disk[r][f].v = disk[i][f].v
                /\ rots = 0 \/ (f \notin Rewritten /\ \E j \in Instances : acked[j][f] > 0)
                      => disk[r][f].ok /\ ~Contradicted(r, f, recs)']_vars
  BY <1>2
<1> QED
  BY <1>3, StoreKept, PTL DEF Spec, RepairHeals
=============================================================================
