-------------------------- MODULE ReplicatedStore --------------------------
(***************************************************************************)
(* backend/app/storage/replicated.py with the middleware and the startup   *)
(* hook of backend/app/main.py that drive it: every instance writes to the *)
(* root it owns and mirrors that root into its replicas, which are other   *)
(* instances' roots (docker-compose.ha.yml pairs two).  A root is named    *)
(* after the instance that owns it.                                        *)
(*                                                                         *)
(* A content is the number of the write that produced it and whether the   *)
(* medium has damaged it since; it stands for its own SHA-256, and its     *)
(* number for its modification time, which every copy preserves            *)
(* (copystat).  Number 0 is a missing file, or a missing record.           *)
(*                                                                         *)
(* One step is what nothing inside the store can split: a rename, or the   *)
(* reads made before one.  commit reads all it will hash in one step;      *)
(* repair compares all copies of a file in one step, then goes over the    *)
(* roots one by one.                                                       *)
(***************************************************************************)
EXTENDS Naturals, Sequences, FiniteSets

CONSTANTS Instances,     \* the backend processes, and their roots
          Replicas,        \* Replicas[i]: the roots i mirrors to (NETSCOPE_REPLICA_ROOTS)
          MinReplicas,   \* min_replicas, after 0 was replaced by the number of replicas
          Workers,       \* the threads that serve write requests
          Home,          \* Home[w]: the instance w belongs to
          FileOrder,     \* every file of a scope, in path order
          Vouches,       \* Vouches[m]: the files a commit marker m vouches for
          Writes,        \* Writes[k]: the files a request of kind k writes, in order
          Needs,         \* Needs[k]: the files it finds in place, or is answered 404
          Serves,        \* Serves[k]: the instances that clients send such requests to
          Rewritten,     \* the files that a later request writes again
          Allowed,       \* what may happen: "overlap", "fail", "crash", "rot", "rot_live"
          MaxVersion, MaxRequests, MaxCrashes, MaxRot,    \* bounds of the model
          MaxTogether    \* and of the requests in a behaviour where some overlap

Files == {FileOrder[n] : n \in DOMAIN FileOrder}
Markers == DOMAIN Vouches
Kinds == DOMAIN Writes

ASSUME ReplicatedStoreAssumption ==
    /\ FileOrder \in Seq(Files) /\ Markers \subseteq Files
    /\ Replicas \in [Instances -> Seq(Instances)]
    /\ MinReplicas \in [Instances -> Nat]
    /\ Home \in [Workers -> Instances]
    /\ Writes \in [Kinds -> Seq(Files)] /\ Needs \in [Kinds -> SUBSET Files]
    /\ Serves \in [Kinds -> SUBSET Instances] /\ Rewritten \subseteq Files
    /\ MaxVersion \in Nat /\ MaxRequests \in Nat /\ MaxCrashes \in Nat /\ MaxRot \in Nat
    /\ MaxTogether \in Nat

VARIABLES disk,        \* disk[r][f]: the content of file f under root r
          recs,        \* recs[r]: _replication/hashes.json of root r
          up,          \* up[i]: "up", "repairing" or "down"
          job,         \* job[w]: the request that w serves
          fix,         \* fix[i]: the startup repair of i
          newest,      \* newest[f]: how many times f was written
          acked,       \* acked[i][f]: the newest write of f that i has answered 2xx
          overlapped,  \* two requests or repairs have been under way at once
          halfway,     \* the files that a repair, killed since or not, has begun to
                       \* hand around and that none has handed to all roots after it
          requests, crashes, rots

vars == <<disk, recs, up, job, fix, newest, acked, overlapped, halfway,
          requests, crashes, rots>>
budgets == <<requests, crashes, rots>>

Content == [v : 0..MaxVersion, ok : BOOLEAN]
Missing == [v |-> 0, ok |-> TRUE]
Idle == [pc |-> "idle", todo |-> <<>>, wrote |-> [f \in Files |-> 0], rels |-> <<>>,
         hashes |-> [f \in Files |-> Missing], left |-> <<>>, held |-> Missing, reached |-> 0]
NoRepair == [todo |-> <<>>, recs |-> [r \in Instances |-> [f \in Files |-> Missing]],
             left |-> <<>>, lost |-> {}, over |-> <<>>, bad |-> {},
             from |-> CHOOSE r \in Instances : TRUE, hash |-> Missing, held |-> Missing]

Has(r, f) == disk[r][f] # Missing
InPathOrder(S) ==
    LET upto[n \in 0..Len(FileOrder)] ==
            IF n = 0 THEN <<>>
            ELSE IF FileOrder[n] \in S THEN Append(upto[n - 1], FileOrder[n])
            ELSE upto[n - 1]
    IN  upto[Len(FileOrder)]
FilesUnder(r) == {f \in Files : Has(r, f)}
Required(i) == {i} \cup {Replicas[i][n] : n \in DOMAIN Replicas[i]}
RootsOf(i) == <<i>> \o Replicas[i]

\* Mistaken form of CommitOrder: plain path order.
CommitOrderPlain(S) == InPathOrder(S)
\* Data files first, then the commit markers.
CommitOrder(S) == InPathOrder(S \ Markers) \o InPathOrder(S \cap Markers)

Init ==
    /\ disk = [r \in Instances |-> [f \in Files |-> Missing]]
    /\ recs = [r \in Instances |-> [f \in Files |-> Missing]]
    /\ up = [i \in Instances |-> "up"]
    /\ job = [w \in Workers |-> Idle]
    /\ fix = [i \in Instances |-> NoRepair]
    /\ newest = [f \in Files |-> 0]
    /\ acked = [i \in Instances |-> [f \in Files |-> 0]]
    /\ overlapped = FALSE /\ halfway = {}
    /\ requests = 0 /\ crashes = 0 /\ rots = 0

\* Something is under way on some instance.
Busy == \/ \E w \in Workers : job[w].pc # "idle"
        \/ \E i \in Instances : up[i] = "repairing"
\* A request or a repair sets out; side by side with another one only where allowed.
SetsOut == /\ Busy => "overlap" \in Allowed
           /\ overlapped' = (overlapped \/ Busy)

-----------------------------------------------------------------------------
(* A write request: the handler, then the replication middleware. *)

\* A file that is not Rewritten has a fresh name: no request writes it twice.
Unused(f) == newest[f] = 0 /\ \A x \in Workers : \A n \in DOMAIN job[x].todo : job[x].todo[n] # f

Receive(w, k) ==
    LET i == Home[w] IN
    /\ up[i] = "up" /\ job[w].pc = "idle" /\ i \in Serves[k]
    /\ requests < IF overlapped \/ Busy THEN MaxTogether ELSE MaxRequests
    /\ \A f \in Needs[k] : Has(i, f)
    /\ \A n \in DOMAIN Writes[k] :
          IF Writes[k][n] \in Rewritten THEN newest[Writes[k][n]] < MaxVersion
                                        ELSE Unused(Writes[k][n])
    /\ SetsOut
    /\ requests' = requests + 1
    /\ job' = [job EXCEPT ![w] = [Idle EXCEPT !.pc = "writing", !.todo = Writes[k]]]
    /\ UNCHANGED <<disk, recs, up, fix, newest, acked, halfway, crashes, rots>>

\* atomic_write_bytes: temp file, fsync, rename.
WriteFile(w) ==
    LET i == Home[w]
        f == Head(job[w].todo)
        v == newest[f] + 1 IN
    /\ job[w].pc = "writing" /\ job[w].todo # <<>> /\ v <= MaxVersion
    /\ newest' = [newest EXCEPT ![f] = v]
    /\ disk' = [disk EXCEPT ![i][f] = [v |-> v, ok |-> TRUE]]
    /\ job' = [job EXCEPT ![w].todo = Tail(@), ![w].wrote[f] = v]
    /\ UNCHANGED <<recs, up, fix, acked, overlapped, halfway, budgets>>

\* The handler is done, answers below 400, and commit(scope_root) begins: it
\* lists and hashes all the files of the scope, not only those of the request.
StartCommit(w) ==
    LET i == Home[w]
        here == FilesUnder(i) IN
    /\ job[w].pc = "writing" /\ job[w].todo = <<>>
    /\ job' = [job EXCEPT ![w].pc = "recording", ![w].rels = CommitOrder(here),
                          ![w].hashes = [f \in Files |-> IF f \in here THEN disk[i][f]
                                                                      ELSE recs[i][f]]]
    /\ UNCHANGED <<disk, recs, up, fix, newest, acked, overlapped, halfway, budgets>>

\* Mistaken form of WriteRecords: only the replicas' records are written.
WriteRecordsSkipped(w) ==
    /\ job[w].pc = "recording"
    /\ job' = [job EXCEPT ![w].pc = "replicating", ![w].left = Replicas[Home[w]],
                          ![w].todo = job[w].rels]
    /\ UNCHANGED <<disk, recs, up, fix, newest, acked, overlapped, halfway, budgets>>

\* The records of the primary are written before any replica is touched.
WriteRecords(w) ==
    /\ job[w].pc = "recording"
    /\ recs' = [recs EXCEPT ![Home[w]] = job[w].hashes]
    /\ job' = [job EXCEPT ![w].pc = "replicating", ![w].left = Replicas[Home[w]],
                          ![w].todo = job[w].rels]
    /\ UNCHANGED <<disk, up, fix, newest, acked, overlapped, halfway, budgets>>

\* A replica that has the content already is left alone; else the source is
\* opened, as it is now.  If it was rewritten since it was hashed, the two files
\* may differ in size, and the copy is made whatever the hash says.
Compare(w) ==
    LET f == Head(job[w].todo)
        r == Head(job[w].left)
        src == disk[Home[w]][f]
        dst == disk[r][f] IN
    /\ job[w].pc = "replicating" /\ job[w].left # <<>> /\ job[w].todo # <<>>
    /\ \/ /\ dst = job[w].hashes[f]
          /\ job' = [job EXCEPT ![w].todo = Tail(@)]
       \/ /\ dst # job[w].hashes[f] \/ dst.v # src.v
          /\ job' = [job EXCEPT ![w].pc = "copying", ![w].held = src]
    /\ UNCHANGED <<disk, recs, up, fix, newest, acked, overlapped, halfway, budgets>>

\* The rename that ends _copy_atomic.
Copy(w) ==
    LET f == Head(job[w].todo)
        r == Head(job[w].left) IN
    /\ job[w].pc = "copying"
    /\ disk' = [disk EXCEPT ![r][f] = job[w].held]
    /\ job' = [job EXCEPT ![w].pc = "replicating", ![w].todo = Tail(@), ![w].held = Missing]
    /\ UNCHANGED <<recs, up, fix, newest, acked, overlapped, halfway, budgets>>

\* On to the next replica, which gets every file again.
NextReplica(j) == [j EXCEPT !.pc = "replicating", !.left = Tail(@), !.held = Missing,
                            !.todo = IF Len(j.left) > 1 THEN j.rels ELSE <<>>]

\* Mistaken form of Merge: the replica's records are left as they were.
MergeNothing(w) ==
    /\ job[w].pc = "replicating" /\ job[w].left # <<>> /\ job[w].todo = <<>>
    /\ job' = [job EXCEPT ![w] = [NextReplica(job[w]) EXCEPT !.reached = @ + 1]]
    /\ UNCHANGED <<disk, recs, up, fix, newest, acked, overlapped, halfway, budgets>>

\* The hashes of the files just copied go into the replica's own records.
Merge(w) ==
    LET r == Head(job[w].left)
        copied == {job[w].rels[n] : n \in DOMAIN job[w].rels} IN
    /\ job[w].pc = "replicating" /\ job[w].left # <<>> /\ job[w].todo = <<>>
    /\ recs' = [recs EXCEPT ![r] = [f \in Files |-> IF f \in copied THEN job[w].hashes[f]
                                                                    ELSE @[f]]]
    /\ job' = [job EXCEPT ![w] = [NextReplica(job[w]) EXCEPT !.reached = @ + 1]]
    /\ UNCHANGED <<disk, up, fix, newest, acked, overlapped, halfway, budgets>>

\* Mistaken form of ReplicaFails: the replica is counted all the same.
ReplicaFailsCounted(w) ==
    /\ "fail" \in Allowed
    /\ job[w].pc \in {"replicating", "copying"} /\ job[w].left # <<>>
    /\ job' = [job EXCEPT ![w] = [NextReplica(job[w]) EXCEPT !.reached = @ + 1]]
    /\ UNCHANGED <<disk, recs, up, fix, newest, acked, overlapped, halfway, budgets>>

\* OSError on a replica: it is given up where it stands.
ReplicaFails(w) ==
    /\ "fail" \in Allowed
    /\ job[w].pc \in {"replicating", "copying"} /\ job[w].left # <<>>
    /\ job' = [job EXCEPT ![w] = NextReplica(job[w])]
    /\ UNCHANGED <<disk, recs, up, fix, newest, acked, overlapped, halfway, budgets>>

\* OSError on the primary: the handler answers 500, or the middleware 503.
PrimaryFails(w) ==
    /\ "fail" \in Allowed
    /\ job[w].pc \in {"writing", "recording"}
    /\ job' = [job EXCEPT ![w] = Idle]
    /\ UNCHANGED <<disk, recs, up, fix, newest, acked, overlapped, halfway, budgets>>

\* 2xx when enough replicas were reached; else QuorumError and a 503.
Answer(w) ==
    LET i == Home[w] IN
    /\ job[w].pc = "replicating" /\ job[w].left = <<>>
    /\ acked' = IF job[w].reached >= MinReplicas[i]
                THEN [acked EXCEPT ![i] = [f \in Files |-> IF job[w].wrote[f] > @[f]
                                                           THEN job[w].wrote[f] ELSE @[f]]]
                ELSE acked
    /\ job' = [job EXCEPT ![w] = Idle]
    /\ UNCHANGED <<disk, recs, up, fix, newest, overlapped, halfway, budgets>>

Serve(w) == \/ \E k \in Kinds : Receive(w, k)
            \/ WriteFile(w) \/ StartCommit(w) \/ WriteRecords(w) \/ Compare(w)
            \/ Copy(w) \/ Merge(w) \/ ReplicaFails(w) \/ PrimaryFails(w) \/ Answer(w)

-----------------------------------------------------------------------------
(* Crash, restart with repair(), and decay of the medium. *)

\* The process is killed; what was renamed stays, the rest is gone.
Crash(i) ==
    /\ "crash" \in Allowed /\ crashes < MaxCrashes
    /\ up[i] # "down"
    /\ up' = [up EXCEPT ![i] = "down"]
    /\ job' = [w \in Workers |-> IF Home[w] = i THEN Idle ELSE job[w]]
    /\ fix' = [fix EXCEPT ![i] = NoRepair]
    /\ crashes' = crashes + 1
    /\ UNCHANGED <<disk, recs, newest, acked, overlapped, halfway, requests, rots>>

\* _repair_on_startup: repair reads the records of all roots and lists their files.
Restart(i) ==
    /\ up[i] = "down"
    /\ SetsOut
    /\ up' = [up EXCEPT ![i] = "repairing"]
    /\ fix' = [fix EXCEPT ![i] =
          [NoRepair EXCEPT !.recs = [r \in Instances |-> IF r \in Required(i) THEN recs[r]
                                                                             ELSE @[r]],
                           !.todo = InPathOrder(UNION {FilesUnder(r) : r \in Required(i)}),
                           !.left = RootsOf(i)]]
    /\ UNCHANGED <<disk, recs, job, newest, acked, halfway, budgets>>

\* A copy that disagrees with its own root's record; without one it counts as good.
Contradicted(r, f, rec) == rec[r][f] # Missing /\ disk[r][f] # rec[r][f]
\* Mistaken form of GoodRoots: what the records say is not asked.
GoodRootsAny(i, f) == {r \in Required(i) : Has(r, f)}
\* The copies that repair trusts.
GoodRoots(i, f) == {r \in Required(i) : Has(r, f) /\ ~Contradicted(r, f, fix[i].recs)}

\* Mistaken form of SourceRoot: the first good copy, whatever its age.
SourceRootFirst(i, f) ==
    LET roots == RootsOf(i) IN
    roots[CHOOSE n \in DOMAIN roots :
            /\ roots[n] \in GoodRoots(i, f)
            /\ \A m \in 1..n - 1 : roots[m] \notin GoodRoots(i, f)]

\* The newest good copy, the first in the list of roots among equals.
SourceRoot(i, f) ==
    LET good == GoodRoots(i, f)
        roots == RootsOf(i) IN
    roots[CHOOSE n \in DOMAIN roots :
            /\ roots[n] \in good
            /\ \A r \in good : disk[r][f].v <= disk[roots[n]][f].v
            /\ \A m \in 1..n - 1 : roots[m] \in good =>
                                   disk[roots[m]][f].v < disk[roots[n]][f].v]

\* repair looks at all copies of the next file.  A file with no good copy is
\* reported; else the newest good copy is to be handed to the roots.
ExamineFile(i) ==
    LET f == Head(fix[i].todo)
        from == SourceRoot(i, f) IN
    /\ up[i] = "repairing" /\ fix[i].todo # <<>> /\ fix[i].over = <<>>
    /\ IF GoodRoots(i, f) = {}
       THEN /\ fix' = [fix EXCEPT ![i].todo = Tail(@), ![i].lost = @ \cup {f}]
            /\ UNCHANGED halfway
       ELSE /\ fix' = [fix EXCEPT ![i].over = RootsOf(i), ![i].from = from,
                                  ![i].hash = disk[from][f],
                                  ![i].bad = {r \in Required(i) :
                                        Has(r, f) /\ Contradicted(r, f, fix[i].recs)}]
            /\ halfway' = halfway \cup {f}
    /\ UNCHANGED <<disk, recs, up, job, newest, acked, overlapped, budgets>>

\* It goes over the roots with that file.
Handing(i) == up[i] = "repairing" /\ fix[i].todo # <<>> /\ fix[i].over # <<>>
\* The copy of the root whose turn it is was bad, is missing, or is older than the source.
Stale(i) ==
    LET f == Head(fix[i].todo)
        r == Head(fix[i].over) IN
    \/ r \in fix[i].bad \/ ~Has(r, f)
    \/ disk[r][f] # fix[i].hash /\ disk[r][f].v < disk[fix[i].from][f].v

\* That root is done: its record is noted, and after the last one the file is done.
RootDone(i) ==
    LET f == Head(fix[i].todo)
        r == Head(fix[i].over)
        last == Len(fix[i].over) = 1 IN
    /\ fix' = [fix EXCEPT ![i].recs[r][f] = fix[i].hash, ![i].held = Missing,
                          ![i].over = Tail(@), ![i].todo = IF last THEN Tail(@) ELSE @]
    /\ halfway' = IF last THEN halfway \ {f} ELSE halfway

PassCopy(i) ==
    /\ Handing(i) /\ fix[i].held = Missing /\ ~Stale(i)
    /\ RootDone(i)
    /\ UNCHANGED <<disk, recs, up, job, newest, acked, overlapped, budgets>>

\* _copy_atomic opens the source, as it is now.
OpenSource(i) ==
    /\ Handing(i) /\ fix[i].held = Missing /\ Stale(i)
    /\ fix' = [fix EXCEPT ![i].held = disk[fix[i].from][Head(fix[i].todo)]]
    /\ UNCHANGED <<disk, recs, up, job, newest, acked, overlapped, halfway, budgets>>

\* The rename that ends _copy_atomic.
ReplaceCopy(i) ==
    /\ Handing(i) /\ fix[i].held # Missing
    /\ disk' = [disk EXCEPT ![Head(fix[i].over)][Head(fix[i].todo)] = fix[i].held]
    /\ RootDone(i)
    /\ UNCHANGED <<recs, up, job, newest, acked, overlapped, budgets>>

RepairFile(i) == ExamineFile(i) \/ PassCopy(i) \/ OpenSource(i) \/ ReplaceCopy(i)

\* Mistaken form of RepairRecords: the instance serves after the first one.
RepairRecordsFirst(i) ==
    LET r == Head(fix[i].left) IN
    /\ up[i] = "repairing" /\ fix[i].todo = <<>>
    /\ recs' = [recs EXCEPT ![r] = fix[i].recs[r]]
    /\ fix' = [fix EXCEPT ![i].left = Tail(@)]
    /\ up' = [up EXCEPT ![i] = "up"]
    /\ UNCHANGED <<disk, job, newest, acked, overlapped, halfway, budgets>>

\* The records are written back root by root; after the last one the instance serves.
RepairRecords(i) ==
    LET r == Head(fix[i].left) IN
    /\ up[i] = "repairing" /\ fix[i].todo = <<>>
    /\ recs' = [recs EXCEPT ![r] = fix[i].recs[r]]
    /\ IF Len(fix[i].left) > 1
       THEN /\ fix' = [fix EXCEPT ![i].left = Tail(@)]
            /\ UNCHANGED up
       ELSE /\ fix' = [fix EXCEPT ![i] = NoRepair]
            /\ up' = [up EXCEPT ![i] = "up"]
    /\ UNCHANGED <<disk, job, newest, acked, overlapped, halfway, budgets>>

\* One copy is damaged in place while nothing else happens: on the root of an
\* instance that is down or, with "rot_live", of one that serves.
Rot(r, f) ==
    /\ rots < MaxRot /\ Has(r, f) /\ disk[r][f].ok
    /\ "rot" \in Allowed /\ ~Busy
    /\ up[r] = "down" \/ "rot_live" \in Allowed
    /\ disk' = [disk EXCEPT ![r][f] = [v |-> disk[r][f].v, ok |-> FALSE]]
    /\ rots' = rots + 1
    /\ UNCHANGED <<recs, up, job, fix, newest, acked, overlapped, halfway, requests, crashes>>

Next == \/ \E w \in Workers : Serve(w)
        \/ \E i \in Instances : Crash(i) \/ Restart(i) \/ RepairFile(i) \/ RepairRecords(i)
        \/ \E r \in Instances, f \in Files : Rot(r, f)

Spec == Init /\ [][Next]_vars

-----------------------------------------------------------------------------
TypeOK ==
    /\ disk \in [Instances -> [Files -> Content]]
    /\ recs \in [Instances -> [Files -> Content]]
    /\ up \in [Instances -> {"up", "repairing", "down"}]
    /\ job \in [Workers ->
          [pc : {"idle", "writing", "recording", "replicating", "copying"},
           todo : Seq(Files), wrote : [Files -> 0..MaxVersion], rels : Seq(Files),
           hashes : [Files -> Content], left : Seq(Instances), held : Content, reached : Nat]]
    /\ fix \in [Instances ->
          [todo : Seq(Files), recs : [Instances -> [Files -> Content]],
           left : Seq(Instances), lost : SUBSET Files, over : Seq(Instances),
           bad : SUBSET Instances, from : Instances, hash : Content, held : Content]]
    /\ newest \in [Files -> 0..MaxVersion]
    /\ acked \in [Instances -> [Files -> 0..MaxVersion]]
    /\ overlapped \in BOOLEAN /\ halfway \in SUBSET Files
    /\ \A w \in Workers : /\ job[w].pc # "idle" => up[Home[w]] = "up"
                          /\ job[w].pc = "copying" => job[w].todo # <<>> /\ job[w].left # <<>>
    /\ \A i \in Instances : up[i] = "repairing" <=> fix[i].left # <<>>
    /\ requests \in Nat /\ crashes \in 0..MaxCrashes /\ rots \in 0..MaxRot

OnQuorum(i, f) ==
    LET holders == {r \in Required(i) : disk[r][f].v >= acked[i][f]} IN
    i \in holders /\ Cardinality(holders \ {i}) >= MinReplicas[i]

\* replication_middleware promises that a 2xx is returned only after the
\* request's files are on the required replicas: whatever an instance has
\* answered 2xx is, from then on, on its own root and on min_replicas others,
\* in that version or a newer one.
AckedOnQuorum == \A i \in Instances, f \in Files : OnQuorum(i, f)

\* What is left of that promise when requests and startup repairs of several
\* threads and instances overlap: it holds for files written once, and for
\* rewritten ones as long as one request or repair was under way at a time.
AckedWhenAlone ==
    \A i \in Instances, f \in Files : ~overlapped \/ f \notin Rewritten => OnQuorum(i, f)

\* "How a corrupt copy is told apart from a good one": the damaged copy of an
\* acknowledged file disagrees with the record of its root, so that verify and
\* repair see it.  For a rewritten file this fails: a rewrite that was never
\* committed makes the good copy look corrupt too, repair gives up, and the next
\* commit records the damage.
RotIsTold ==
    overlapped \/ \A r, i \in Instances, f \in Files \ Rewritten :
       (/\ acked[i][f] > 0 /\ r \in Required(i)
        /\ ~disk[r][f].ok) => Contradicted(r, f, recs)

\* And the other way round: an undamaged copy as old as an acknowledged write is
\* reported by verify only where a newer write, never acknowledged, left its record.
\* For a rewritten file this fails once a copy was damaged: where repair found no
\* good copy, the damage may be recorded and then put into the other root's records.
VerifyIsSound ==
    overlapped \/ \A r, i \in Instances, f \in Files :
       (/\ rots = 0 \/ f \notin Rewritten
        /\ Contradicted(r, f, recs) /\ disk[r][f].ok /\ disk[r][f].v <= acked[i][f])
          => \A j \in Instances : acked[j][f] < recs[r][f].v

\* verify tells damage, and only damage or rewrites that were never acknowledged.
VerifyIsExact == RotIsTold /\ VerifyIsSound

Survives(i, f) == acked[i][f] > 0 =>
    \E r \in Required(i) : disk[r][f].ok /\ disk[r][f].v >= acked[i][f]

\* One damaged copy costs nothing: of every acknowledged file some root still
\* holds an undamaged copy, as new as acknowledged.
AckedSurvives == \A i \in Instances, f \in Files : Survives(i, f)

\* That much is true of files written once, when the damage comes while the
\* instance is down (its startup repair finds it) and nothing overlaps.
CapturesSurvive ==
    overlapped \/ \A i \in Instances, f \in Files \ Rewritten : Survives(i, f)

\* There is a third root.
ThirdRoot == \E q, r, s \in Instances : q # r /\ q # s /\ r # s
\* A startup repair is handing file f to the roots, one by one and in plain path
\* order; or one was killed over it, which can leave f, without the files it vouches
\* for, on some but not all of three roots or more, from where a commit goes on.
HandedAround(f) == \/ \E i \in Instances : fix[i].over # <<>> /\ Head(fix[i].todo) = f
                   \/ ThirdRoot /\ f \in halfway

\* commit copies data before markers, "so a replica never holds a marker without
\* the data it vouches for": a marker comes to a root after its data, unless a
\* repair is, or was when it was killed, handing that marker around.
MarkerAfterData ==
    [][\A r \in Instances, m \in Markers :
          ~Has(r, m) /\ Has(r, m)' /\ ~HandedAround(m)
             => \A f \in Vouches[m] : Has(r, f)']_vars

\* A startup repair that ran alone leaves every root with the same copy of every
\* file it does not report as unrecoverable, with a record of it; the copy is
\* undamaged if the file was acknowledged and is never rewritten.
RepairHeals ==
    [][\A i \in Instances :
          up[i] = "repairing" /\ up'[i] = "up" /\ ~overlapped =>
             \A f \in Files \ fix[i].lost, r \in Required(i) :
                /\ disk[r][f].v = disk[i][f].v
                /\ rots = 0 \/ (f \notin Rewritten /\ \E j \in Instances : acked[j][f] > 0)
                      => disk[r][f].ok /\ ~Contradicted(r, f, recs)']_vars
=============================================================================
