--------------------------- MODULE ExperimentLabProofs ---------------------------
(***************************************************************************)
(* One live run at a time and no more in an hour than a tenant may start,  *)
(* recorded runs that survive, failures that have a reason and outcomes    *)
(* that are told truly, for any tenants, requests, experiments, limits and *)
(* table size, whatever the batch process does and wherever a crash falls. *)
(*                                                                         *)
(* First what every step of a recording process keeps.  As long as at most *)
(* one process at a time works on an experiment, its manifest numbers the  *)
(* versions from 1 without a hole, the owner's version is the next one,    *)
(* and what the owner holds in memory and on disk is a function of how far *)
(* it is (Stage).  A manifest without its hash means that the owner is     *)
(* between the two writes or died there; a half adopted legacy run, that   *)
(* it is adopting or died while it did.                                    *)
(*                                                                         *)
(* Then the HTTP server.  start_run looks for a run in progress in the     *)
(* table only, and the table is trimmed: the guard is enough because a     *)
(* trim takes finished jobs and every unfinished job is therefore listed.  *)
(* The limit counts a window that forgets: it is enough because what is    *)
(* forgotten is over an hour old and stays so.                             *)
(***************************************************************************)
EXTENDS ExperimentLab, FiniteSetTheorems, SequenceTheorems, TLAPS

-----------------------------------------------------------------------------
(* What a recording process does to the files of an experiment.             *)

IsWriter(w) ==
    w = [pc |-> w.pc, exp |-> w.exp, version |-> w.version, policy |-> w.policy,
         known |-> w.known, run |-> w.run, fault |-> w.fault]

Adopting == {"adopting", "adopting_metrics"}
Informed == {"opened", "swept", "made", "half", "written"}
Working  == {"reserved", "ran"} \cup Adopting \cup Informed \cup {"committing"}
Resting  == {"idle", "recorded", "failed"}

Shape ==
    /\ DOMAIN manifest = Experiments /\ DOMAIN sidecar = Experiments
    /\ DOMAIN files = Experiments /\ DOMAIN captures = Experiments
    /\ DOMAIN writer = Writers /\ DOMAIN started = Writers
    /\ \A p \in Writers :
          /\ IsWriter(writer[p])
          /\ writer[p].pc \in Working \cup Resting
          /\ writer[p].pc # "idle" => writer[p].exp \in Experiments
          /\ started[p] \in Nat
    /\ crashes \in Nat

\* Process p works on e.
Owns(p, e) == Busy(p) /\ writer[p].exp = e

\* Both files of a run.
Whole(run) == [name \in FileNames |-> run]

Half(run) == [EmptyDir EXCEPT !["experiment"] = run]

HasDir(e, v, dir) == v \in DOMAIN files[e] /\ files[e][v] = dir

\* The runs of e, a flat one that no manifest names among them.
Known(e) ==
    IF manifest[e] = NoRuns /\ e \in Legacy THEN Put(NoRuns, 1, LegacyRun) ELSE manifest[e]

Numbered(e) == manifest[e] = NoRuns \/ \E n \in Nat : n > 0 /\ DOMAIN manifest[e] = 1..n

FilesMatch(e) == \A v \in DOMAIN manifest[e] : HasDir(e, v, Whole(manifest[e][v]))

RecordsStand(e) ==
    \A r \in recorded : r[1] = e =>
        /\ r[2] \in DOMAIN manifest[e] /\ manifest[e][r[2]] = r[3]
        /\ r[2] \in DOMAIN captures[e] /\ captures[e][r[2]] = r[3]

OneOwner(e) == \A p, q \in Writers : Owns(p, e) /\ Owns(q, e) => p = q

GapExplained(e) ==
    Gap(e) => \/ crashes > 0 /\ \A q \in Writers : ~Owns(q, e)
              \/ \E p \in Writers : Owns(p, e) /\ At(p, "committing")

AdoptionExplained(e) ==
    HalfAdopted(e) => \/ crashes > 0
                      \/ \E p \in Writers : Owns(p, e) /\ writer[p].pc \in Adopting \cup Informed

\* What the owner of e has done so far, and that nothing moved under it.
Stage(p, e) ==
    LET w == writer[p]
    IN  /\ w.pc # "committing" => ~Gap(e) /\ w.version = Existing(e) + 1
        /\ w.pc = "committing" => manifest[e] = Extended(w)
        /\ w.pc # "reserved" => w.version \in DOMAIN captures[e] /\ captures[e][w.version] = w.run
        /\ w.pc \in Adopting => manifest[e] = NoRuns /\ e \in Legacy
        /\ w.pc = "adopting" => HasDir(e, 1, EmptyDir)
        /\ w.pc = "adopting_metrics" => HasDir(e, 1, Half(LegacyRun))
        /\ w.pc \in Informed =>
              /\ w.known = Known(e)
              /\ \A v \in DOMAIN w.known : HasDir(e, v, Whole(w.known[v]))
        /\ w.pc = "swept" => w.version \notin DOMAIN files[e]
        /\ w.pc = "made" => HasDir(e, w.version, EmptyDir)
        /\ w.pc = "half" => HasDir(e, w.version, Half(w.run))
        /\ w.pc = "written" => HasDir(e, w.version, Whole(w.run))

\* Why a process that worked on e failed, in a form no later step undoes.
Reason(p, e) ==
    LET w == writer[p]
    IN  \/ w.fault = "cell"
        \/ w.fault = "refused" /\ w.policy = "refuse" /\ Existing(e) > 0
        \/ w.fault = "integrity" /\ Gap(e) /\ crashes > 0 /\ \A q \in Writers : ~Owns(q, e)
        \/ /\ w.fault = "adoption" /\ HalfAdopted(e) /\ crashes > 0
           /\ \A q \in Writers : Owns(q, e) => writer[q].pc \in {"reserved", "ran"}

Sound(e) ==
    e \notin contended =>
        /\ Numbered(e) /\ FilesMatch(e) /\ RecordsStand(e) /\ OneOwner(e)
        /\ GapExplained(e) /\ AdoptionExplained(e)
        /\ \A p \in Writers : Owns(p, e) => Stage(p, e)
        /\ \A p \in Writers : At(p, "failed") /\ writer[p].exp = e => Reason(p, e)

ArtifactsInv ==
    /\ Shape
    /\ \A r \in recorded : r[1] \in Experiments
    /\ \A e \in Experiments : Sound(e)

-----------------------------------------------------------------------------
(* The operators the steps are made of.                                    *)

LEMMA PutFacts ==
    ASSUME NEW f, NEW v, NEW x
    PROVE  /\ DOMAIN Put(f, v, x) = DOMAIN f \cup {v}
           /\ Put(f, v, x)[v] = x
           /\ \A w \in DOMAIN f : w # v => Put(f, v, x)[w] = f[w]
  BY DEF Put

\* The greatest of the versions 1..n is n.
LEMMA MaxOfInterval ==
    ASSUME NEW n \in Nat, n > 0
    PROVE  Max(1..n) = n
  <1>1. n \in 1..n /\ \A y \in 1..n : n >= y
    OBVIOUS
  <1>2. Max(1..n) \in 1..n /\ \A y \in 1..n : Max(1..n) >= y
    <2> DEFINE P(x) == x \in 1..n /\ \A y \in 1..n : x >= y
    <2>1. P(n)
      BY <1>1
    <2>2. Max(1..n) = CHOOSE x \in 1..n : \A y \in 1..n : x >= y
      BY DEF Max
    <2> QED BY <2>1, <2>2
  <1> QED
    BY <1>1, <1>2

\* In a manifest without holes the next version is the number of runs plus one.
LEMMA ExistingCounts ==
    ASSUME NEW e, Numbered(e)
    PROVE  /\ Existing(e) \in Nat
           /\ manifest[e] # NoRuns => DOMAIN manifest[e] = 1..Existing(e) /\ Existing(e) > 0
           /\ DOMAIN Known(e) = 1..Existing(e)
           /\ Existing(e) + 1 \notin DOMAIN Known(e)
           /\ Existing(e) + 1 \notin DOMAIN manifest[e]
           /\ manifest[e] = NoRuns => DOMAIN manifest[e] = {}
  <1>0. DOMAIN NoRuns = {}
    BY DEF NoRuns
  <1>1. CASE manifest[e] = NoRuns /\ e \in Legacy
    <2>1. Existing(e) = 1
      BY <1>1 DEF Existing
    <2>2. Known(e) = Put(NoRuns, 1, LegacyRun)
      BY <1>1 DEF Known
    <2>3. DOMAIN Put(NoRuns, 1, LegacyRun) = DOMAIN NoRuns \cup {1}
      BY DEF Put
    <2>4. DOMAIN Known(e) = {} \cup {1}
      BY <1>0, <2>2, <2>3
    <2>5. DOMAIN Known(e) = 1..1
      BY <2>4
    <2> QED BY <1>0, <1>1, <2>1, <2>5
  <1>2. CASE manifest[e] = NoRuns /\ e \notin Legacy
    <2>1. Existing(e) = 0 /\ DOMAIN Known(e) = {}
      BY <1>0, <1>2 DEF Existing, Known
    <2> QED BY <1>0, <1>2, <2>1
  <1>3. CASE manifest[e] # NoRuns
    <2>1. PICK n \in Nat : n > 0 /\ DOMAIN manifest[e] = 1..n
      BY <1>3 DEF Numbered
    <2>2. Existing(e) = n /\ Known(e) = manifest[e]
      BY <1>3, <2>1, MaxOfInterval DEF Existing, Known
    <2> QED BY <1>3, <2>1, <2>2
  <1> QED
    BY <1>1, <1>2, <1>3

-----------------------------------------------------------------------------
(* An experiment nobody touched, and one whose owner took a step.          *)

LEMMA Untouched ==
    ASSUME NEW e, Sound(e), crashes \in Nat, crashes' \in Nat, crashes' >= crashes,
           e \notin contended' => e \notin contended,
           manifest'[e] = manifest[e], sidecar'[e] = sidecar[e], files'[e] = files[e],
           captures'[e] = captures[e],
           \A q \in Writers : /\ Owns(q, e)' <=> Owns(q, e)
                              /\ Owns(q, e) => writer'[q] = writer[q],
           \A q \in Writers : (At(q, "failed") /\ writer[q].exp = e)' => writer'[q] = writer[q],
           \A r \in recorded' : r[1] = e => r \in recorded
    PROVE  Sound(e)'
  <1> SUFFICES ASSUME e \notin contended, e \notin contended'
               PROVE  Sound(e)'
    BY DEF Sound
  <1>1. Known(e)' = Known(e) /\ Existing(e)' = Existing(e) /\ Gap(e)' = Gap(e)
    BY DEF Known, Existing, Gap, Unverified
  <1>2. HalfAdopted(e)' = HalfAdopted(e)
    BY DEF HalfAdopted
  <1>3. Numbered(e)' /\ FilesMatch(e)' /\ RecordsStand(e)' /\ OneOwner(e)'
    BY DEF Sound, Numbered, FilesMatch, HasDir, RecordsStand, OneOwner
  <1>4. GapExplained(e)'
    BY <1>1 DEF Sound, GapExplained, At
  <1>5. AdoptionExplained(e)'
    BY <1>2 DEF Sound, AdoptionExplained
  <1>6. ASSUME NEW p \in Writers, Owns(p, e)' PROVE Stage(p, e)'
    <2>1. Stage(p, e) /\ writer'[p] = writer[p]
      BY <1>6 DEF Sound
    <2> QED BY <1>1, <2>1 DEF Stage, HasDir, Extended
  <1>7. ASSUME NEW p \in Writers, (At(p, "failed") /\ writer[p].exp = e)' PROVE Reason(p, e)'
    <2>1. Reason(p, e) /\ writer'[p] = writer[p]
      BY <1>7 DEF Sound, At
    <2> QED BY <1>1, <1>2, <2>1 DEF Reason
  <1> QED
    BY <1>3, <1>4, <1>5, <1>6, <1>7 DEF Sound

LEMMA OwnerMoved ==
    ASSUME NEW p \in Writers, NEW e, Sound(e), e \notin contended, Owns(p, e),
           \A q \in Writers : q # p => writer'[q] = writer[q],
           crashes' = crashes, writer'[p].exp = e,
           Numbered(e)', FilesMatch(e)', RecordsStand(e)',
           Gap(e)' => At(p, "committing")',
           HalfAdopted(e)' => crashes > 0 \/ writer'[p].pc \in Adopting \cup Informed,
           Owns(p, e)' => Stage(p, e)',
           At(p, "failed")' => Reason(p, e)',
           Existing(e) > 0 => Existing(e)' > 0,
           HalfAdopted(e) /\ writer[p].pc \in {"reserved", "ran"} =>
               HalfAdopted(e)' /\ (Owns(p, e)' => writer'[p].pc \in {"reserved", "ran"})
    PROVE  Sound(e)'
  <1>1. \A q \in Writers : q # p => ~Owns(q, e) /\ ~Owns(q, e)'
    <2>1. \A q \in Writers : q # p => ~Owns(q, e)
      BY DEF Sound, OneOwner
    <2> QED BY <2>1 DEF Owns, Busy
  <1>2. OneOwner(e)'
    BY <1>1 DEF OneOwner
  <1>3. GapExplained(e)'
    BY DEF GapExplained, Owns, Busy, At
  <1>4. AdoptionExplained(e)'
    BY DEF AdoptionExplained, Owns, Busy, Adopting, Informed
  <1>5. \A q \in Writers : Owns(q, e)' => Stage(q, e)'
    BY <1>1
  <1>6. ASSUME NEW q \in Writers, (At(q, "failed") /\ writer[q].exp = e)' PROVE Reason(q, e)'
    <2>1. CASE q = p
      BY <1>6, <2>1
    <2>2. CASE q # p
      <3>1. writer'[q] = writer[q] /\ Reason(q, e)
        BY <1>6, <2>2 DEF Sound, At
      <3>2. ~(\A r \in Writers : ~Owns(r, e))
        OBVIOUS
      <3>3. CASE /\ writer[q].fault = "adoption" /\ HalfAdopted(e) /\ crashes > 0
                 /\ \A r \in Writers : Owns(r, e) => writer[r].pc \in {"reserved", "ran"}
        BY <1>1, <3>1, <3>3 DEF Reason
      <3>4. CASE \/ writer[q].fault = "cell"
                 \/ writer[q].fault = "refused" /\ writer[q].policy = "refuse" /\ Existing(e) > 0
        BY <3>1, <3>4 DEF Reason
      <3> QED BY <3>1, <3>2, <3>3, <3>4 DEF Reason
    <2> QED BY <2>1, <2>2
  <1> QED
    BY <1>2, <1>3, <1>4, <1>5, <1>6 DEF Sound

\* A step of the owner of e concerns e only.
LEMMA OwnerKeeps ==
    ASSUME ArtifactsInv, NEW p \in Writers, NEW e \in Experiments, Owns(p, e), Shape',
           \A q \in Writers : q # p => writer'[q] = writer[q],
           writer'[p].exp = e, contended' = contended, crashes' = crashes,
           \A d \in Experiments : d # e => /\ manifest'[d] = manifest[d] /\ sidecar'[d] = sidecar[d]
                                           /\ files'[d] = files[d] /\ captures'[d] = captures[d],
           \A r \in recorded' : r[1] # e => r \in recorded,
           e \notin contended => Sound(e)'
    PROVE  ArtifactsInv'
  <1>1. ASSUME NEW d \in Experiments, d # e PROVE Sound(d)'
    <2>1. Sound(d) /\ crashes \in Nat /\ crashes' \in Nat /\ crashes' >= crashes
      BY DEF ArtifactsInv, Shape
    <2>2. \A q \in Writers : /\ Owns(q, d)' <=> Owns(q, d)
                             /\ Owns(q, d) => writer'[q] = writer[q]
      BY <1>1 DEF Owns, Busy
    <2>3. \A q \in Writers : (At(q, "failed") /\ writer[q].exp = d)' => writer'[q] = writer[q]
      BY <1>1
    <2> QED BY <1>1, <2>1, <2>2, <2>3, Untouched
  <1>2. Sound(e)'
    BY DEF Sound
  <1> QED
    BY <1>1, <1>2 DEF ArtifactsInv

-----------------------------------------------------------------------------
(* The steps of a recording process.                                       *)

\* Process p became next, with another pc, memory or fault; the rest of its
\* locals and the other processes are as before.
Moved(p, next) ==
    /\ DOMAIN writer' = Writers
    /\ writer'[p] = next /\ IsWriter(next)
    /\ \A q \in Writers : q # p => writer'[q] = writer[q]
    /\ next.exp = writer[p].exp /\ next.version = writer[p].version
    /\ next.policy = writer[p].policy /\ next.run = writer[p].run

LEMMA GotoMoves ==
    ASSUME Shape, NEW p \in Writers, NEW pc, Goto(p, pc)
    PROVE  Moved(p, writer'[p]) /\ writer'[p].pc = pc /\ writer'[p].known = writer[p].known
  <1>1. writer'[p] = [writer[p] EXCEPT !.pc = pc] /\ DOMAIN writer' = Writers
    BY DEF Goto, Shape
  <1>2. \A q \in Writers : q # p => writer'[q] = writer[q]
    BY DEF Goto, Shape
  <1>3. IsWriter(writer[p])
    BY DEF Shape
  <1> QED
    BY <1>1, <1>2, <1>3 DEF Moved, IsWriter

LEMMA FailMoves ==
    ASSUME Shape, NEW p \in Writers, NEW fault, Fail(p, fault)
    PROVE  Moved(p, writer'[p]) /\ writer'[p].pc = "failed" /\ writer'[p].fault = fault
  <1>1. /\ writer'[p] = [writer[p] EXCEPT !.pc = "failed", !.fault = fault]
        /\ DOMAIN writer' = Writers
    BY DEF Fail, Shape
  <1>2. \A q \in Writers : q # p => writer'[q] = writer[q]
    BY DEF Fail, Shape
  <1>3. IsWriter(writer[p])
    BY DEF Shape
  <1> QED
    BY <1>1, <1>2, <1>3 DEF Moved, IsWriter

LEMMA LearnMoves ==
    ASSUME Shape, NEW p \in Writers, NEW pc, NEW known,
           writer' = [writer EXCEPT ![p].pc = pc, ![p].known = known]
    PROVE  Moved(p, writer'[p]) /\ writer'[p].pc = pc /\ writer'[p].known = known
  <1>1. writer'[p] = [writer[p] EXCEPT !.pc = pc, !.known = known] /\ DOMAIN writer' = Writers
    BY DEF Shape
  <1>2. \A q \in Writers : q # p => writer'[q] = writer[q]
    BY DEF Shape
  <1>3. IsWriter(writer[p])
    BY DEF Shape
  <1> QED
    BY <1>1, <1>2, <1>3 DEF Moved, IsWriter

LEMMA ShapeKept ==
    ASSUME Shape, NEW p \in Writers, Busy(p), Moved(p, writer'[p]),
           writer'[p].pc \in Working \cup Resting,
           DOMAIN manifest' = Experiments, DOMAIN sidecar' = Experiments,
           DOMAIN files' = Experiments, DOMAIN captures' = Experiments,
           started' = started, crashes' = crashes
    PROVE  Shape'
  <1>1. writer[p].exp \in Experiments
    BY DEF Shape, Busy
  <1> QED
    BY <1>1 DEF Shape, Moved

\* What is read off the manifest alone.
LEMMA ManifestStays ==
    ASSUME NEW e, manifest'[e] = manifest[e], sidecar'[e] = sidecar[e]
    PROVE  /\ Known(e)' = Known(e) /\ Existing(e)' = Existing(e) /\ Gap(e)' = Gap(e)
           /\ Numbered(e)' = Numbered(e)
  BY DEF Known, Existing, Gap, Unverified, Numbered

\* What the invariant says of the owner of an experiment and of that experiment.
LEMMA OwnerView ==
    ASSUME ArtifactsInv, NEW p \in Writers, Busy(p), NEW e, e = writer[p].exp
    PROVE  /\ Shape /\ e \in Experiments /\ Owns(p, e)
           /\ e \notin contended =>
                 /\ Sound(e) /\ Stage(p, e)
                 /\ Numbered(e) /\ FilesMatch(e) /\ RecordsStand(e)
                 /\ HalfAdopted(e) => \/ crashes > 0
                                      \/ writer[p].pc \in Adopting \cup Informed
  <1>1. Shape /\ e \in Experiments /\ Owns(p, e)
    BY DEF ArtifactsInv, Shape, Busy, Owns
  <1>2. ASSUME e \notin contended
        PROVE  Sound(e) /\ Stage(p, e) /\ OneOwner(e) /\ AdoptionExplained(e)
               /\ Numbered(e) /\ FilesMatch(e) /\ RecordsStand(e)
    BY <1>1, <1>2 DEF ArtifactsInv, Sound
  <1>3. e \notin contended /\ HalfAdopted(e) => \/ crashes > 0
                                                \/ writer[p].pc \in Adopting \cup Informed
    BY <1>1, <1>2 DEF OneOwner, AdoptionExplained
  <1> QED
    BY <1>1, <1>2, <1>3

\* The manifest and the captures stay, and with them what was recorded.
LEMMA RecordsStay ==
    ASSUME NEW e, RecordsStand(e), manifest'[e] = manifest[e], captures'[e] = captures[e],
           recorded' = recorded
    PROVE  RecordsStand(e)'
  BY DEF RecordsStand

LEMMA RunCellKeeps ==
    ASSUME ArtifactsInv, NEW p \in Writers, RunCell(p)
    PROVE  ArtifactsInv'
  <1>0. PICK e, v, run : e = writer[p].exp /\ v = writer[p].version /\ run = writer[p].run
    OBVIOUS
  <1>1. /\ Shape /\ At(p, "reserved") /\ Busy(p) /\ e \in Experiments
        /\ captures' = [captures EXCEPT ![e] = Put(@, v, run)]
        /\ UNCHANGED <<manifest, sidecar, files, started, recorded, contended, crashes>>
    BY <1>0 DEF ArtifactsInv, Shape, RunCell, Busy, At, Fail, disk, ghosts
  <1>2. /\ Moved(p, writer'[p])
        /\ \/ writer'[p].pc = "ran"
           \/ writer'[p].pc = "failed" /\ writer'[p].fault = "cell"
    BY <1>1, GotoMoves, FailMoves DEF RunCell
  <1>3. Shape'
    BY <1>1, <1>2, ShapeKept DEF Shape, Working, Resting
  <1>4. Owns(p, e) /\ writer'[p].exp = e /\ writer'[p].version = v /\ writer'[p].run = run
    BY <1>0, <1>1, <1>2 DEF Owns, Moved
  <1>5. captures'[e] = Put(captures[e], v, run)
    BY <1>1 DEF Shape
  <1>6. ASSUME e \notin contended PROVE Sound(e)'
    <2>1. Sound(e) /\ Stage(p, e)
      BY <1>1, <1>4, <1>6 DEF ArtifactsInv, Sound
    <2>2. ~Gap(e) /\ v = Existing(e) + 1 /\ v \notin DOMAIN manifest[e]
      BY <1>0, <1>1, <1>6, <2>1, ExistingCounts DEF Stage, At, Sound
    <2>3. /\ Known(e)' = Known(e) /\ Existing(e)' = Existing(e) /\ Gap(e)' = Gap(e)
          /\ Numbered(e)' = Numbered(e)
      BY <1>1, ManifestStays
    <2>4. Numbered(e)' /\ FilesMatch(e)'
      BY <1>1, <1>6, <2>1, <2>3 DEF Sound, FilesMatch, HasDir
    <2>5. RecordsStand(e)'
      BY <1>1, <1>5, <1>6, <2>1, <2>2 DEF Sound, RecordsStand, Put
    <2>6. HalfAdopted(e)' = HalfAdopted(e)
      BY <1>1 DEF HalfAdopted
    <2>7. HalfAdopted(e) => crashes > 0
      BY <1>0, <1>1, <1>6, OwnerView DEF At, Adopting, Informed
    <2>8. Owns(p, e)' => Stage(p, e)'
      <3>1. v \in DOMAIN captures'[e] /\ captures'[e][v] = run
        BY <1>5 DEF Put
      <3> SUFFICES ASSUME writer'[p].pc = "ran" PROVE Stage(p, e)'
        BY <1>2 DEF Owns, Busy
      <3> QED BY <1>4, <2>2, <2>3, <3>1 DEF Stage, Adopting, Informed
    <2>9. At(p, "failed")' => Reason(p, e)'
      BY <1>2 DEF At, Reason
    <2>10. Owns(p, e)' => writer'[p].pc \in {"reserved", "ran"}
      BY <1>2 DEF Owns, Busy
    <2> QED
      BY <1>1, <1>2, <1>4, <1>6, <2>1, <2>2, <2>3, <2>4, <2>5, <2>6, <2>7, <2>8, <2>9, <2>10,
         OwnerMoved DEF Moved
  <1>7. \A d \in Experiments : d # e => captures'[d] = captures[d]
    BY <1>1 DEF Shape
  <1> QED
    BY <1>1, <1>2, <1>3, <1>4, <1>6, <1>7, OwnerKeeps DEF Moved

LEMMA OpenManifestKeeps ==
    ASSUME ArtifactsInv, NEW p \in Writers, OpenManifest(p)
    PROVE  ArtifactsInv'
  <1>0. PICK e : e = writer[p].exp
    OBVIOUS
  <1>1. /\ Busy(p) /\ writer[p].pc = "ran"
        /\ UNCHANGED <<manifest, sidecar, captures, started, recorded, contended, crashes>>
    BY DEF OpenManifest, Busy, At, Fail, disk, ghosts
  <1>2. Shape /\ e \in Experiments /\ Owns(p, e)
    BY <1>0, <1>1, OwnerView
  <1>3. \/ /\ Gap(e) /\ files' = files /\ writer'[p].pc = "failed"
        \/ /\ ~Gap(e) /\ files' = files
           /\ manifest[e] # NoRuns \/ e \notin Legacy
           /\ writer'[p].pc = "opened" /\ writer'[p].known = manifest[e]
        \/ /\ ~Gap(e) /\ manifest[e] = NoRuns /\ e \in Legacy /\ files' = files
           /\ 1 \in DOMAIN files[e] /\ writer'[p].pc = "failed" /\ writer'[p].fault = "adoption"
        \/ /\ ~Gap(e) /\ manifest[e] = NoRuns /\ e \in Legacy /\ 1 \notin DOMAIN files[e]
           /\ files' = [files EXCEPT ![e] = Put(@, 1, EmptyDir)]
           /\ writer'[p].pc = "adopting"
    <2>1. CASE Unverified(e) /\ Fail(p, "integrity")
      BY <1>2, <2>1, FailMoves DEF Gap, Fail, disk
    <2>2. CASE /\ ~Unverified(e)
               /\ manifest[e] # NoRuns \/ e \notin Legacy
               /\ writer' = [writer EXCEPT ![p].pc = "opened", ![p].known = manifest[e]]
               /\ UNCHANGED disk
      BY <1>2, <2>2, LearnMoves DEF Gap, disk
    <2>3. CASE /\ ~Unverified(e)
               /\ manifest[e] = NoRuns /\ e \in Legacy
               /\ 1 \in DOMAIN files[e] /\ Fail(p, "adoption")
      BY <1>2, <2>3, FailMoves DEF Gap, Fail, disk
    <2>4. CASE /\ ~Unverified(e)
               /\ manifest[e] = NoRuns /\ e \in Legacy
               /\ 1 \notin DOMAIN files[e]
               /\ files' = [files EXCEPT ![e] = Put(@, 1, EmptyDir)]
               /\ Goto(p, "adopting")
      BY <1>2, <2>4, GotoMoves DEF Gap
    <2> QED
      BY <1>0, <2>1, <2>2, <2>3, <2>4 DEF OpenManifest
  <1>4. Moved(p, writer'[p])
    BY <1>2, GotoMoves, FailMoves, LearnMoves DEF OpenManifest
  <1>5. Shape'
    <2>1. writer'[p].pc \in Working \cup Resting
      BY <1>3 DEF Working, Resting, Adopting, Informed
    <2>2. DOMAIN files' = Experiments
      BY <1>2, <1>3 DEF Shape
    <2> QED
      BY <1>1, <1>2, <1>4, <2>1, <2>2, ShapeKept DEF Shape
  <1>6. ASSUME e \notin contended PROVE Sound(e)'
    <2>1. /\ Sound(e) /\ Stage(p, e) /\ Numbered(e) /\ FilesMatch(e) /\ RecordsStand(e)
          /\ ~Gap(e) /\ writer[p].version = Existing(e) + 1
          /\ HalfAdopted(e) => crashes > 0
      <3>1. /\ Sound(e) /\ Stage(p, e) /\ Numbered(e) /\ FilesMatch(e) /\ RecordsStand(e)
            /\ HalfAdopted(e) => crashes > 0
        BY <1>0, <1>1, <1>6, OwnerView DEF Adopting, Informed
      <3>2. ~Gap(e) /\ writer[p].version = Existing(e) + 1
        BY <1>1, <3>1 DEF Stage
      <3> QED BY <3>1, <3>2
    <2>2. /\ Known(e)' = Known(e) /\ Existing(e)' = Existing(e) /\ Gap(e)' = Gap(e)
          /\ Numbered(e)'
      BY <1>1, <2>1, ManifestStays
    <2>3. RecordsStand(e)'
      BY <1>1, <2>1, RecordsStay
    <2>4. /\ writer'[p].exp = e /\ writer'[p].version = writer[p].version
          /\ writer'[p].run = writer[p].run
      BY <1>0, <1>4 DEF Moved
    <2>5. writer[p].version \in DOMAIN captures[e] /\ captures[e][writer[p].version] = writer[p].run
      BY <1>1, <2>1 DEF Stage
    <2>6. CASE /\ files' = files
               /\ manifest[e] # NoRuns \/ e \notin Legacy
               /\ writer'[p].pc = "opened" /\ writer'[p].known = manifest[e]
      <3>1. FilesMatch(e)' /\ (HalfAdopted(e)' <=> HalfAdopted(e))
        BY <1>1, <2>1, <2>6 DEF FilesMatch, HasDir, HalfAdopted
      <3>2. Known(e) = manifest[e] /\ \A v \in DOMAIN manifest[e] : HasDir(e, v, Whole(manifest[e][v]))'
        BY <1>1, <2>1, <2>6 DEF Known, FilesMatch, HasDir, Whole
      <3>3. Stage(p, e)'
        BY <1>1, <2>1, <2>2, <2>4, <2>5, <2>6, <3>2 DEF Stage, Adopting
      <3> QED
        BY <1>1, <1>2, <1>4, <1>6, <2>1, <2>2, <2>3, <2>4, <2>6, <3>1, <3>3, OwnerMoved
           DEF Moved, At, HalfAdopted
    <2>7. CASE /\ manifest[e] = NoRuns /\ e \in Legacy /\ files' = files
               /\ 1 \in DOMAIN files[e] /\ writer'[p].pc = "failed" /\ writer'[p].fault = "adoption"
      <3>1. FilesMatch(e)' /\ HalfAdopted(e)' /\ crashes > 0
        BY <1>1, <2>1, <2>7 DEF FilesMatch, HasDir, HalfAdopted
      <3>2. \A q \in Writers : ~Owns(q, e)'
        <4>1. \A q \in Writers : Owns(q, e) => q = p
          BY <1>2, <1>6, <2>1 DEF Sound, OneOwner
        <4> QED BY <1>4, <2>7, <4>1 DEF Moved, Owns, Busy
      <3>3. Reason(p, e)'
        BY <1>1, <2>7, <3>1, <3>2 DEF Reason
      <3> QED
        BY <1>1, <1>2, <1>4, <1>6, <2>1, <2>2, <2>3, <2>4, <2>7, <3>1, <3>2, <3>3, OwnerMoved DEF Moved
    <2>8. CASE /\ manifest[e] = NoRuns /\ e \in Legacy /\ 1 \notin DOMAIN files[e]
               /\ files' = [files EXCEPT ![e] = Put(@, 1, EmptyDir)]
               /\ writer'[p].pc = "adopting"
      <3>1. FilesMatch(e)'
        BY <1>1, <2>8 DEF FilesMatch, NoRuns
      <3>2. HasDir(e, 1, EmptyDir)'
        <4>1. files'[e] = Put(files[e], 1, EmptyDir)
          BY <1>2, <2>8 DEF Shape
        <4> QED BY <4>1 DEF HasDir, Put
      <3>3. Stage(p, e)'
        BY <1>1, <2>1, <2>2, <2>4, <2>5, <2>8, <3>2 DEF Stage, Adopting, Informed
      <3>4. ~HalfAdopted(e)
        BY <2>8 DEF HalfAdopted
      <3> QED
        BY <1>1, <1>2, <1>4, <1>6, <2>1, <2>2, <2>3, <2>4, <2>8, <3>1, <3>3, <3>4, OwnerMoved
           DEF Moved, At, Adopting
    <2> QED
      BY <1>3, <2>1, <2>6, <2>7, <2>8
  <1>7. \A d \in Experiments : d # e => files'[d] = files[d]
    BY <1>2, <1>3 DEF Shape
  <1> QED
    BY <1>0, <1>1, <1>2, <1>4, <1>5, <1>6, <1>7, OwnerKeeps DEF Moved

\* A step between the opening of the manifest and the commit changes files of
\* the owner's experiment and nothing else.
LEMMA FilesStepKeeps ==
    ASSUME ArtifactsInv, NEW p \in Writers, NEW e, e = writer[p].exp,
           writer[p].pc \in Adopting \cup Informed,
           UNCHANGED <<manifest, sidecar, captures, started, recorded, contended, crashes>>,
           DOMAIN files' = DOMAIN files,
           \A d \in Experiments : d # e => files'[d] = files[d],
           Moved(p, writer'[p]), writer'[p].pc \in Working \cup Resting,
           e \notin contended =>
               writer'[p].pc \in Adopting \cup Informed /\ Stage(p, e)' /\ FilesMatch(e)'
    PROVE  ArtifactsInv'
  <1>1. Busy(p) /\ writer[p].pc \notin {"reserved", "ran"}
    BY DEF Busy, Adopting, Informed
  <1>2. Shape /\ e \in Experiments /\ Owns(p, e)
    BY <1>1, OwnerView
  <1>3. Shape'
    BY <1>1, <1>2, ShapeKept DEF Shape
  <1>4. \A q \in Writers : q # p => writer'[q] = writer[q]
    BY DEF Moved
  <1>5. writer'[p].exp = e
    BY DEF Moved
  <1>6. ASSUME e \notin contended PROVE Sound(e)'
    <2>1. /\ Sound(e) /\ Stage(p, e) /\ Numbered(e) /\ RecordsStand(e)
          /\ writer[p].pc # "committing"
      BY <1>1, <1>6, OwnerView DEF Adopting, Informed
    <2>2. ~Gap(e)
      BY <2>1 DEF Stage
    <2>3. /\ Existing(e)' = Existing(e) /\ Gap(e)' = Gap(e) /\ Numbered(e)'
      BY <2>1, ManifestStays
    <2>4. RecordsStand(e)'
      BY <2>1, RecordsStay
    <2>5. ~At(p, "failed")'
      BY <1>6 DEF At, Adopting, Informed
    <2> QED
      BY <1>1, <1>2, <1>4, <1>5, <1>6, <2>1, <2>2, <2>3, <2>4, <2>5, OwnerMoved
  <1> QED
    BY <1>2, <1>3, <1>4, <1>5, <1>6, OwnerKeeps

LEMMA AdoptFileKeeps ==
    ASSUME ArtifactsInv, NEW p \in Writers, AdoptFile(p)
    PROVE  ArtifactsInv'
  <1>0. PICK e : e = writer[p].exp
    OBVIOUS
  <1>1. /\ Busy(p) /\ writer[p].pc \in Adopting
        /\ UNCHANGED <<manifest, sidecar, captures, started, recorded, contended, crashes>>
    BY DEF AdoptFile, Busy, At, ghosts, Adopting
  <1>2. Shape /\ e \in Experiments
    BY <1>0, <1>1, OwnerView
  <1>3. \/ /\ writer[p].pc = "adopting" /\ writer'[p].pc = "adopting_metrics"
           /\ files' = [files EXCEPT ![e] = WithFile(@, 1, "experiment", LegacyRun)]
        \/ /\ writer[p].pc = "adopting_metrics" /\ writer'[p].pc = "opened"
           /\ writer'[p].known = Put(NoRuns, 1, LegacyRun)
           /\ files' = [files EXCEPT ![e] = WithFile(@, 1, "metrics", LegacyRun)]
    BY <1>0, <1>2, GotoMoves, LearnMoves DEF AdoptFile, At
  <1>4. Moved(p, writer'[p])
    BY <1>2, GotoMoves, LearnMoves DEF AdoptFile
  <1>5. /\ DOMAIN files' = DOMAIN files
        /\ \A d \in Experiments : d # e => files'[d] = files[d]
    BY <1>2, <1>3 DEF Shape
  <1>6. ASSUME e \notin contended
        PROVE  Stage(p, e)' /\ FilesMatch(e)'
    <2>1. Stage(p, e)
      BY <1>0, <1>1, <1>6, OwnerView
    <2>2. /\ ~Gap(e) /\ writer[p].version = Existing(e) + 1
          /\ manifest[e] = NoRuns /\ e \in Legacy
      BY <1>1, <2>1 DEF Stage, Adopting
    <2>3. writer[p].version \in DOMAIN captures[e] /\ captures[e][writer[p].version] = writer[p].run
      BY <1>1, <2>1 DEF Stage, Adopting
    <2>4. /\ Known(e)' = Known(e) /\ Existing(e)' = Existing(e) /\ Gap(e)' = Gap(e)
      BY <1>1, ManifestStays
    <2>5. FilesMatch(e)'
      BY <1>1, <2>2 DEF FilesMatch, NoRuns
    <2>6. writer'[p].version = writer[p].version /\ writer'[p].run = writer[p].run
      BY <1>4 DEF Moved
    <2>7. CASE /\ writer[p].pc = "adopting" /\ writer'[p].pc = "adopting_metrics"
               /\ files' = [files EXCEPT ![e] = WithFile(@, 1, "experiment", LegacyRun)]
      <3>1. HasDir(e, 1, EmptyDir)
        BY <2>1, <2>7 DEF Stage
      <3>2. files'[e] = WithFile(files[e], 1, "experiment", LegacyRun)
        BY <1>2, <2>7 DEF Shape
      <3>3. HasDir(e, 1, Half(LegacyRun))'
        BY <3>1, <3>2 DEF HasDir, WithFile, Put, Half
      <3>4. Stage(p, e)'
        BY <1>1, <2>2, <2>3, <2>4, <2>6, <2>7, <3>3 DEF Stage, Informed
      <3> QED BY <2>5, <3>4
    <2>8. CASE /\ writer[p].pc = "adopting_metrics" /\ writer'[p].pc = "opened"
               /\ writer'[p].known = Put(NoRuns, 1, LegacyRun)
               /\ files' = [files EXCEPT ![e] = WithFile(@, 1, "metrics", LegacyRun)]
      <3>1. HasDir(e, 1, Half(LegacyRun))
        BY <2>1, <2>8 DEF Stage
      <3>2. files'[e] = WithFile(files[e], 1, "metrics", LegacyRun)
        BY <1>2, <2>8 DEF Shape
      <3>3. [Half(LegacyRun) EXCEPT !["metrics"] = LegacyRun] = Whole(LegacyRun)
        BY DEF Half, EmptyDir, FileNames, Whole
      <3>4. HasDir(e, 1, Whole(LegacyRun))'
        BY <3>1, <3>2, <3>3 DEF HasDir, WithFile, Put
      <3>5. writer'[p].known = Known(e)
        BY <2>2, <2>8 DEF Known
      <3>6. \A v \in DOMAIN writer'[p].known : v = 1 /\ writer'[p].known[v] = LegacyRun
        BY <2>8 DEF Put, NoRuns
      <3>7. \A v \in DOMAIN writer'[p].known : HasDir(e, v, Whole(writer[p].known[v]))'
        BY <3>4, <3>6 DEF HasDir, Whole
      <3>8. Stage(p, e)'
        BY <1>1, <2>2, <2>3, <2>4, <2>6, <2>8, <3>5, <3>7 DEF Stage, Adopting
      <3> QED BY <2>5, <3>8
    <2> QED
      BY <1>3, <2>7, <2>8
  <1>7. writer'[p].pc \in Adopting \cup Informed /\ writer'[p].pc \in Working
    BY <1>3 DEF Adopting, Informed, Working
  <1> QED
    BY <1>0, <1>1, <1>4, <1>5, <1>6, <1>7, FilesStepKeeps

\* What an informed owner knows, the files of what it knows, and the version
\* it is about to record, which is not among them.
LEMMA InformedView ==
    ASSUME ArtifactsInv, NEW p \in Writers, NEW e, e = writer[p].exp, e \notin contended,
           writer[p].pc \in Informed
    PROVE  LET w == writer[p]
           IN  /\ Stage(p, e) /\ FilesMatch(e) /\ ~Gap(e) /\ w.version = Existing(e) + 1
               /\ w.version \notin DOMAIN w.known /\ w.version \notin DOMAIN manifest[e]
               /\ w.known = Known(e)
               /\ \A v \in DOMAIN w.known : HasDir(e, v, Whole(w.known[v]))
               /\ w.version \in DOMAIN captures[e] /\ captures[e][w.version] = w.run
  <1>1. Busy(p) /\ writer[p].pc \notin {"reserved", "committing"}
    BY DEF Busy, Informed
  <1>2. Stage(p, e) /\ FilesMatch(e) /\ Numbered(e)
    BY <1>1, OwnerView
  <1>3. ~Gap(e) /\ writer[p].version = Existing(e) + 1
    BY <1>1, <1>2 DEF Stage
  <1>4. /\ writer[p].known = Known(e)
        /\ \A v \in DOMAIN writer[p].known : HasDir(e, v, Whole(writer[p].known[v]))
        /\ writer[p].version \in DOMAIN captures[e] /\ captures[e][writer[p].version] = writer[p].run
    BY <1>1, <1>2 DEF Stage
  <1>5. writer[p].version \notin DOMAIN Known(e) /\ writer[p].version \notin DOMAIN manifest[e]
    BY <1>2, <1>3, ExistingCounts
  <1> QED
    BY <1>2, <1>3, <1>4, <1>5

\* The owner changed only the directory of its own version, and stays informed.
LEMMA OwnDirOnly ==
    ASSUME ArtifactsInv, NEW p \in Writers, NEW e, e = writer[p].exp, e \notin contended,
           writer[p].pc \in Informed,
           UNCHANGED <<manifest, sidecar, captures>>,
           \A v \in DOMAIN files[e] : v # writer[p].version =>
               v \in DOMAIN files'[e] /\ files'[e][v] = files[e][v],
           Moved(p, writer'[p]), writer'[p].known = writer[p].known,
           writer'[p].pc \in Informed,
           writer'[p].pc = "swept" => writer[p].version \notin DOMAIN files'[e],
           writer'[p].pc = "made" => HasDir(e, writer[p].version, EmptyDir)',
           writer'[p].pc = "half" => HasDir(e, writer[p].version, Half(writer[p].run))',
           writer'[p].pc = "written" => HasDir(e, writer[p].version, Whole(writer[p].run))'
    PROVE  Stage(p, e)' /\ FilesMatch(e)'
  <1>1. /\ FilesMatch(e) /\ ~Gap(e) /\ writer[p].version = Existing(e) + 1
        /\ writer[p].version \notin DOMAIN writer[p].known
        /\ writer[p].version \notin DOMAIN manifest[e]
        /\ writer[p].known = Known(e)
        /\ \A v \in DOMAIN writer[p].known : HasDir(e, v, Whole(writer[p].known[v]))
        /\ writer[p].version \in DOMAIN captures[e] /\ captures[e][writer[p].version] = writer[p].run
    BY InformedView
  <1>2. /\ Known(e)' = Known(e) /\ Existing(e)' = Existing(e) /\ Gap(e)' = Gap(e)
    BY ManifestStays
  <1>3. writer'[p].version = writer[p].version /\ writer'[p].run = writer[p].run
    BY DEF Moved
  <1>4. FilesMatch(e)'
    BY <1>1 DEF FilesMatch, HasDir
  <1>5. \A v \in DOMAIN writer'[p].known : HasDir(e, v, Whole(writer[p].known[v]))'
    BY <1>1 DEF HasDir
  <1>6. writer'[p].pc \notin Adopting \cup {"committing", "reserved"}
    BY DEF Informed, Adopting
  <1>7. writer'[p].version = Existing(e)' + 1 /\ writer'[p].known = Known(e)'
    BY <1>1, <1>2, <1>3
  <1>8. /\ writer'[p].version \in DOMAIN captures'[e]
        /\ captures'[e][writer'[p].version] = writer'[p].run
    BY <1>1, <1>3
  <1>9. writer'[p].pc = "swept" => writer'[p].version \notin DOMAIN files'[e]
    BY <1>3
  <1>10. writer'[p].pc = "made" => HasDir(e, writer[p].version, EmptyDir)'
    OBVIOUS
  <1>11. Stage(p, e)'
    BY <1>1, <1>2, <1>5, <1>6, <1>7, <1>8, <1>9, <1>10 DEF Stage, Adopting
  <1> QED
    BY <1>4, <1>11

LEMMA SweepKeeps ==
    ASSUME ArtifactsInv, NEW p \in Writers, Sweep(p)
    PROVE  ArtifactsInv'
  <1>0. PICK e, v : e = writer[p].exp /\ v = writer[p].version
    OBVIOUS
  <1>1. /\ Busy(p) /\ writer[p].pc = "opened" /\ writer[p].pc \in Informed
        /\ UNCHANGED <<manifest, sidecar, captures, started, recorded, contended, crashes>>
    BY DEF Sweep, Busy, At, Fail, disk, ghosts, Informed
  <1>2. Shape /\ e \in Experiments
    BY <1>0, <1>1, OwnerView
  <1>3. \/ v \in DOMAIN writer[p].known /\ files' = files /\ writer'[p].pc = "failed"
        \/ /\ v \notin DOMAIN writer[p].known
           /\ writer'[p].pc = "swept" /\ writer'[p].known = writer[p].known
           /\ files' = [files EXCEPT ![e] = Restrict(@, DOMAIN @ \ {v})]
    BY <1>0, <1>2, GotoMoves, FailMoves DEF Sweep, Fail, disk
  <1>4. Moved(p, writer'[p])
    BY <1>2, GotoMoves, FailMoves DEF Sweep
  <1>5. /\ DOMAIN files' = DOMAIN files
        /\ \A d \in Experiments : d # e => files'[d] = files[d]
    BY <1>2, <1>3 DEF Shape
  <1>6. ASSUME e \notin contended
        PROVE  writer'[p].pc \in Adopting \cup Informed /\ Stage(p, e)' /\ FilesMatch(e)'
    <2>1. v \notin DOMAIN writer[p].known
      BY <1>0, <1>1, <1>6, InformedView
    <2>2. files'[e] = Restrict(files[e], DOMAIN files[e] \ {v})
      BY <1>2, <1>3, <2>1 DEF Shape
    <2>3. /\ v \notin DOMAIN files'[e]
          /\ \A u \in DOMAIN files[e] : u # v => u \in DOMAIN files'[e] /\ files'[e][u] = files[e][u]
      BY <2>2 DEF Restrict
    <2>4. writer'[p].pc = "swept" /\ writer'[p].known = writer[p].known /\ writer'[p].pc \in Informed
      BY <1>3, <2>1 DEF Informed
    <2> QED
      BY <1>0, <1>1, <1>4, <1>6, <2>3, <2>4, OwnDirOnly
  <1>7. writer'[p].pc \in Working \cup Resting
    BY <1>3 DEF Informed, Working, Resting
  <1> QED
    BY <1>0, <1>1, <1>4, <1>5, <1>6, <1>7, FilesStepKeeps

LEMMA MakeDirKeeps ==
    ASSUME ArtifactsInv, NEW p \in Writers, MakeDir(p)
    PROVE  ArtifactsInv'
  <1>0. PICK e, v : e = writer[p].exp /\ v = writer[p].version
    OBVIOUS
  <1>1. /\ Busy(p) /\ writer[p].pc = "swept" /\ writer[p].pc \in Informed
        /\ UNCHANGED <<manifest, sidecar, captures, started, recorded, contended, crashes>>
    BY DEF MakeDir, Busy, At, Fail, disk, ghosts, Informed
  <1>2. Shape /\ e \in Experiments
    BY <1>0, <1>1, OwnerView
  <1>3. \/ v \in DOMAIN files[e] /\ files' = files /\ writer'[p].pc = "failed"
        \/ /\ v \notin DOMAIN files[e]
           /\ writer'[p].pc = "made" /\ writer'[p].known = writer[p].known
           /\ files' = [files EXCEPT ![e] = Put(@, v, EmptyDir)]
    BY <1>0, <1>2, GotoMoves, FailMoves DEF MakeDir, Fail, disk
  <1>4. Moved(p, writer'[p])
    BY <1>2, GotoMoves, FailMoves DEF MakeDir
  <1>5. /\ DOMAIN files' = DOMAIN files
        /\ \A d \in Experiments : d # e => files'[d] = files[d]
    BY <1>2, <1>3 DEF Shape
  <1>6. ASSUME e \notin contended
        PROVE  writer'[p].pc \in Adopting \cup Informed /\ Stage(p, e)' /\ FilesMatch(e)'
    <2>1. v \notin DOMAIN files[e]
      <3>1. Stage(p, e)
        BY <1>0, <1>1, <1>6, InformedView
      <3> QED BY <1>0, <1>1, <3>1 DEF Stage
    <2>2. files'[e] = Put(files[e], v, EmptyDir)
      BY <1>2, <1>3, <2>1 DEF Shape
    <2>3. /\ v \in DOMAIN files'[e] /\ files'[e][v] = EmptyDir
          /\ \A u \in DOMAIN files[e] : u # v => u \in DOMAIN files'[e] /\ files'[e][u] = files[e][u]
      BY <2>2 DEF Put
    <2>4. writer'[p].pc = "made" /\ writer'[p].known = writer[p].known /\ writer'[p].pc \in Informed
      BY <1>3, <2>1 DEF Informed
    <2>5. HasDir(e, writer[p].version, EmptyDir)'
      BY <1>0, <1>4, <2>3 DEF HasDir, Moved
    <2> QED
      BY <1>0, <1>1, <1>4, <1>6, <2>3, <2>4, <2>5, OwnDirOnly
  <1>7. writer'[p].pc \in Working \cup Resting
    BY <1>3 DEF Informed, Working, Resting
  <1> QED
    BY <1>0, <1>1, <1>4, <1>5, <1>6, <1>7, FilesStepKeeps

LEMMA WriteFileKeeps ==
    ASSUME ArtifactsInv, NEW p \in Writers, WriteFile(p)
    PROVE  ArtifactsInv'
  <1>0. PICK e, v, run : e = writer[p].exp /\ v = writer[p].version /\ run = writer[p].run
    OBVIOUS
  <1>1. /\ Busy(p) /\ writer[p].pc \in Informed
        /\ UNCHANGED <<manifest, sidecar, captures, started, recorded, contended, crashes>>
    BY DEF WriteFile, Busy, At, ghosts, Informed
  <1>2. Shape /\ e \in Experiments
    BY <1>0, <1>1, OwnerView
  <1>3. \/ /\ writer[p].pc = "made" /\ writer'[p].pc = "half"
           /\ files' = [files EXCEPT ![e] = WithFile(@, v, "experiment", run)]
        \/ /\ writer[p].pc = "half" /\ writer'[p].pc = "written"
           /\ files' = [files EXCEPT ![e] = WithFile(@, v, "metrics", run)]
    BY <1>0, <1>2, GotoMoves DEF WriteFile, At
  <1>4. Moved(p, writer'[p]) /\ writer'[p].known = writer[p].known
    BY <1>2, GotoMoves DEF WriteFile
  <1>5. /\ DOMAIN files' = DOMAIN files
        /\ \A d \in Experiments : d # e => files'[d] = files[d]
    BY <1>2, <1>3 DEF Shape
  <1>6. writer'[p].version = v /\ writer'[p].run = run
    BY <1>0, <1>4 DEF Moved
  <1>7. ASSUME e \notin contended
        PROVE  writer'[p].pc \in Adopting \cup Informed /\ Stage(p, e)' /\ FilesMatch(e)'
    <2>1. Stage(p, e)
      BY <1>0, <1>1, <1>7, InformedView
    <2>2. writer'[p].pc \in Informed
      BY <1>3 DEF Informed
    <2>3. CASE /\ writer[p].pc = "made" /\ writer'[p].pc = "half"
               /\ files' = [files EXCEPT ![e] = WithFile(@, v, "experiment", run)]
      <3>1. HasDir(e, v, EmptyDir)
        BY <1>0, <2>1, <2>3 DEF Stage
      <3>2. files'[e] = Put(files[e], v, Half(run))
        BY <1>2, <2>3, <3>1 DEF Shape, WithFile, HasDir, Half
      <3>3. /\ v \in DOMAIN files'[e] /\ files'[e][v] = Half(run)
            /\ \A u \in DOMAIN files[e] : u # v => u \in DOMAIN files'[e] /\ files'[e][u] = files[e][u]
        BY <3>2 DEF Put
      <3>4. HasDir(e, writer[p].version, Half(writer[p].run))'
        BY <1>6, <3>3 DEF HasDir, Half, EmptyDir
      <3> QED
        BY <1>0, <1>1, <1>4, <1>7, <2>2, <2>3, <3>3, <3>4, OwnDirOnly
    <2>4. CASE /\ writer[p].pc = "half" /\ writer'[p].pc = "written"
               /\ files' = [files EXCEPT ![e] = WithFile(@, v, "metrics", run)]
      <3>1. HasDir(e, v, Half(run))
        BY <1>0, <2>1, <2>4 DEF Stage
      <3>2. [Half(run) EXCEPT !["metrics"] = run] = Whole(run)
        BY DEF Half, EmptyDir, FileNames, Whole
      <3>3. files'[e] = Put(files[e], v, Whole(run))
        BY <1>2, <2>4, <3>1, <3>2 DEF Shape, WithFile, HasDir
      <3>4. /\ v \in DOMAIN files'[e] /\ files'[e][v] = Whole(run)
            /\ \A u \in DOMAIN files[e] : u # v => u \in DOMAIN files'[e] /\ files'[e][u] = files[e][u]
        BY <3>3 DEF Put
      <3>5. HasDir(e, writer[p].version, Whole(writer[p].run))'
        BY <1>6, <3>4 DEF HasDir, Whole
      <3> QED
        BY <1>0, <1>1, <1>4, <1>7, <2>2, <2>4, <3>4, <3>5, OwnDirOnly
    <2> QED
      BY <1>3, <2>3, <2>4
  <1>8. writer'[p].pc \in Working \cup Resting
    BY <1>3 DEF Informed, Working
  <1> QED
    BY <1>0, <1>1, <1>4, <1>5, <1>7, <1>8, FilesStepKeeps

LEMMA WriteManifestKeeps ==
    ASSUME ArtifactsInv, NEW p \in Writers, WriteManifest(p)
    PROVE  ArtifactsInv'
  <1>0. PICK e, v, run : e = writer[p].exp /\ v = writer[p].version /\ run = writer[p].run
    OBVIOUS
  <1>1. /\ Busy(p) /\ writer[p].pc = "written" /\ writer[p].pc \in Informed
        /\ UNCHANGED <<sidecar, files, captures, started, recorded, contended, crashes>>
    BY DEF WriteManifest, Busy, At, ghosts, Informed
  <1>2. Shape /\ e \in Experiments /\ Owns(p, e)
    BY <1>0, <1>1, OwnerView
  <1>3. /\ writer'[p].pc = "committing" /\ writer'[p].known = writer[p].known
        /\ manifest' = [manifest EXCEPT ![e] = Extended(writer[p])]
    BY <1>0, <1>2, GotoMoves DEF WriteManifest
  <1>4. Moved(p, writer'[p])
    BY <1>2, GotoMoves DEF WriteManifest
  <1>5. /\ DOMAIN manifest' = DOMAIN manifest
        /\ \A d \in Experiments : d # e => manifest'[d] = manifest[d]
        /\ manifest'[e] = Put(writer[p].known, v, run)
    BY <1>0, <1>2, <1>3 DEF Shape, Extended
  <1>6. Shape'
    <2>1. writer'[p].pc \in Working \cup Resting
      BY <1>3 DEF Working
    <2> QED
      BY <1>1, <1>2, <1>4, <1>5, <2>1, ShapeKept DEF Shape
  <1>7. /\ writer'[p].exp = e /\ writer'[p].version = v /\ writer'[p].run = run
        /\ \A q \in Writers : q # p => writer'[q] = writer[q]
    BY <1>0, <1>4 DEF Moved
  <1>8. ASSUME e \notin contended PROVE Sound(e)'
    <2>1. /\ Stage(p, e) /\ ~Gap(e) /\ FilesMatch(e)
          /\ v = Existing(e) + 1 /\ v \notin DOMAIN writer[p].known /\ v \notin DOMAIN manifest[e]
          /\ writer[p].known = Known(e)
          /\ \A u \in DOMAIN writer[p].known : HasDir(e, u, Whole(writer[p].known[u]))
          /\ v \in DOMAIN captures[e] /\ captures[e][v] = run
      BY <1>0, <1>1, <1>8, InformedView
    <2>2. Sound(e) /\ Numbered(e) /\ RecordsStand(e)
      BY <1>0, <1>1, <1>8, OwnerView
    <2>3. HasDir(e, v, Whole(run))
      BY <1>0, <1>1, <2>1 DEF Stage
    <2>4. /\ DOMAIN manifest'[e] = DOMAIN writer[p].known \cup {v}
          /\ manifest'[e][v] = run
          /\ \A u \in DOMAIN writer[p].known : manifest'[e][u] = writer[p].known[u]
      BY <1>5, <2>1 DEF Put
    <2>5. /\ Existing(e) \in Nat /\ DOMAIN manifest'[e] = 1..(Existing(e) + 1)
          /\ manifest'[e] # NoRuns
      <3>1. Existing(e) \in Nat /\ DOMAIN Known(e) = 1..Existing(e)
        BY <2>2, ExistingCounts
      <3>2. DOMAIN manifest'[e] = 1..Existing(e) \cup {Existing(e) + 1}
        BY <2>1, <2>4, <3>1
      <3>3. DOMAIN NoRuns = {}
        BY DEF NoRuns
      <3> QED BY <3>1, <3>2, <3>3
    <2>6. Numbered(e)'
      BY <2>5 DEF Numbered
    <2>7. Existing(e)' > 0
      <3>1. Existing(e)' = Max(1..(Existing(e) + 1))
        BY <2>5 DEF Existing
      <3> QED BY <2>5, <3>1, MaxOfInterval
    <2>8. FilesMatch(e)'
      BY <1>1, <2>1, <2>3, <2>4 DEF FilesMatch, HasDir
    <2>9. RecordsStand(e)'
      <3>1. ASSUME NEW r \in recorded', r[1] = e
            PROVE  /\ r[2] \in DOMAIN manifest'[e] /\ manifest'[e][r[2]] = r[3]
                   /\ r[2] \in DOMAIN captures'[e] /\ captures'[e][r[2]] = r[3]
        <4>1. /\ r[2] \in DOMAIN manifest[e] /\ manifest[e][r[2]] = r[3]
              /\ r[2] \in DOMAIN captures[e] /\ captures[e][r[2]] = r[3]
          BY <1>1, <2>2, <3>1 DEF RecordsStand
        <4>2. manifest[e] # NoRuns
          BY <4>1 DEF NoRuns
        <4>3. writer[p].known = manifest[e]
          BY <2>1, <4>2 DEF Known
        <4> QED BY <1>1, <2>4, <4>1, <4>3
      <3> QED BY <3>1 DEF RecordsStand
    <2>10. Stage(p, e)'
      <3>1. manifest'[e] = Extended(writer'[p])
        BY <1>3, <1>5, <1>7 DEF Extended
      <3>2. v \in DOMAIN captures'[e] /\ captures'[e][v] = run
        BY <1>1, <2>1
      <3> QED
        BY <1>3, <1>7, <3>1, <3>2 DEF Stage, Adopting, Informed
    <2>11. At(p, "committing")' /\ ~At(p, "failed")' /\ ~HalfAdopted(e)'
      BY <1>3, <2>5 DEF At, HalfAdopted
    <2>12. writer[p].pc \notin {"reserved", "ran"}
      BY <1>1
    <2> QED
      BY <1>1, <1>2, <1>7, <1>8, <2>2, <2>6, <2>7, <2>8, <2>9, <2>10, <2>11, <2>12, OwnerMoved
  <1> QED
    BY <1>1, <1>2, <1>5, <1>6, <1>7, <1>8, OwnerKeeps

LEMMA WriteSidecarKeeps ==
    ASSUME ArtifactsInv, NEW p \in Writers, WriteSidecar(p)
    PROVE  ArtifactsInv'
  <1>0. PICK e, v, run : e = writer[p].exp /\ v = writer[p].version /\ run = writer[p].run
    OBVIOUS
  <1>1. /\ Busy(p) /\ writer[p].pc = "committing"
        /\ recorded' = recorded \cup {<<e, v, run>>}
        /\ UNCHANGED <<manifest, files, captures, started, contended, crashes>>
    BY <1>0 DEF WriteSidecar, Busy, At
  <1>2. Shape /\ e \in Experiments /\ Owns(p, e)
    BY <1>0, <1>1, OwnerView
  <1>3. /\ writer'[p].pc = "recorded" /\ Moved(p, writer'[p])
        /\ sidecar' = [sidecar EXCEPT ![e] = Extended(writer[p])]
    BY <1>0, <1>2, GotoMoves DEF WriteSidecar
  <1>4. /\ DOMAIN sidecar' = DOMAIN sidecar
        /\ \A d \in Experiments : d # e => sidecar'[d] = sidecar[d]
        /\ sidecar'[e] = Extended(writer[p])
    BY <1>2, <1>3 DEF Shape
  <1>5. Shape'
    <2>1. writer'[p].pc \in Working \cup Resting
      BY <1>3 DEF Resting
    <2> QED
      BY <1>1, <1>2, <1>3, <1>4, <2>1, ShapeKept DEF Shape
  <1>6. /\ writer'[p].exp = e
        /\ \A q \in Writers : q # p => writer'[q] = writer[q]
    BY <1>0, <1>3 DEF Moved
  <1>7. ASSUME e \notin contended PROVE Sound(e)'
    <2>1. Sound(e) /\ Stage(p, e) /\ Numbered(e) /\ FilesMatch(e) /\ RecordsStand(e)
      BY <1>0, <1>1, <1>7, OwnerView
    <2>2. /\ manifest[e] = Extended(writer[p])
          /\ v \in DOMAIN captures[e] /\ captures[e][v] = run
      BY <1>0, <1>1, <2>1 DEF Stage
    <2>3. v \in DOMAIN manifest[e] /\ manifest[e][v] = run
      BY <1>0, <2>2 DEF Extended, Put
    <2>4. Numbered(e)' /\ FilesMatch(e)' /\ Existing(e)' = Existing(e)
      BY <1>1, <2>1 DEF Numbered, FilesMatch, HasDir, Existing
    <2>5. RecordsStand(e)'
      BY <1>1, <2>1, <2>2, <2>3 DEF RecordsStand
    <2>6. ~Gap(e)'
      BY <1>1, <1>4, <2>2 DEF Gap, Unverified
    <2>7. ~HalfAdopted(e)'
      <3>1. manifest[e] # NoRuns
        BY <2>3 DEF NoRuns
      <3> QED BY <1>1, <3>1 DEF HalfAdopted
    <2>8. ~Owns(p, e)' /\ ~At(p, "failed")'
      BY <1>3 DEF Owns, Busy, At
    <2>9. writer[p].pc \notin {"reserved", "ran"}
      BY <1>1
    <2> QED
      BY <1>1, <1>2, <1>6, <1>7, <2>1, <2>4, <2>5, <2>6, <2>7, <2>8, <2>9, OwnerMoved
  <1>8. \A r \in recorded' : r[1] # e => r \in recorded
    BY <1>1
  <1> QED
    BY <1>1, <1>2, <1>4, <1>5, <1>6, <1>7, <1>8, OwnerKeeps

\* A crash leaves an experiment without its owner, as it stood on disk.
LEMMA CrashKeeps ==
    ASSUME ArtifactsInv, NEW p \in Writers, Crash(p)
    PROVE  ArtifactsInv'
  <1>1. /\ Shape /\ writer' = [writer EXCEPT ![p] = Idle] /\ crashes' = crashes + 1
        /\ UNCHANGED <<manifest, sidecar, files, captures, started, recorded, contended>>
    BY DEF ArtifactsInv, Crash, disk, ghosts
  <1>2. /\ writer'[p] = Idle /\ DOMAIN writer' = Writers
        /\ \A q \in Writers : q # p => writer'[q] = writer[q]
    BY <1>1 DEF Shape
  <1>3. Idle.pc = "idle" /\ IsWriter(Idle)
    BY DEF Idle, IsWriter
  <1>4. crashes \in Nat /\ crashes' \in Nat /\ crashes' > 0 /\ crashes' >= crashes
    BY <1>1 DEF Shape
  <1>5. Shape'
    <2>1. \A q \in Writers :
              /\ IsWriter(writer'[q]) /\ writer'[q].pc \in Working \cup Resting
              /\ writer'[q].pc # "idle" => writer'[q].exp \in Experiments
      BY <1>1, <1>2, <1>3 DEF Shape, Resting
    <2> QED BY <1>1, <1>2, <1>4, <2>1 DEF Shape
  <1>6. ASSUME NEW e \in Experiments PROVE Sound(e)'
    <2>1. Sound(e)
      BY DEF ArtifactsInv
    <2>2. \A q \in Writers : Owns(q, e)' <=> Owns(q, e) /\ q # p
      BY <1>2, <1>3 DEF Owns, Busy
    <2>3. \A q \in Writers : (At(q, "failed") /\ writer[q].exp = e)' => writer'[q] = writer[q]
      BY <1>2, <1>3 DEF At
    <2>4. CASE ~Owns(p, e)
      <3>1. \A q \in Writers : /\ Owns(q, e)' <=> Owns(q, e)
                               /\ Owns(q, e) => writer'[q] = writer[q]
        BY <1>2, <2>2, <2>4
      <3> QED
        BY <1>1, <1>4, <2>1, <2>3, <3>1, Untouched
    <2>5. CASE Owns(p, e)
      <3> SUFFICES ASSUME e \notin contended PROVE Sound(e)'
        BY <1>1 DEF Sound
      <3>1. \A q \in Writers : ~Owns(q, e)'
        BY <2>1, <2>2, <2>5 DEF Sound, OneOwner
      <3>2. /\ Existing(e)' = Existing(e) /\ Gap(e)' = Gap(e) /\ Numbered(e)' = Numbered(e)
        BY <1>1, ManifestStays
      <3>3. HalfAdopted(e)' = HalfAdopted(e)
        BY <1>1 DEF HalfAdopted
      <3>4. Numbered(e)' /\ FilesMatch(e)' /\ RecordsStand(e)' /\ OneOwner(e)'
        BY <1>1, <2>1, <3>1, <3>2 DEF Sound, FilesMatch, HasDir, RecordsStand, OneOwner
      <3>5. GapExplained(e)' /\ AdoptionExplained(e)'
        BY <1>4, <3>1 DEF GapExplained, AdoptionExplained
      <3>6. ASSUME NEW q \in Writers, (At(q, "failed") /\ writer[q].exp = e)' PROVE Reason(q, e)'
        <4>1. writer'[q] = writer[q] /\ Reason(q, e)
          BY <2>1, <2>3, <3>6 DEF Sound, At
        <4> QED BY <1>4, <3>1, <3>2, <3>3, <4>1 DEF Reason
      <3> QED
        BY <3>1, <3>4, <3>5, <3>6 DEF Sound
    <2> QED
      BY <2>4, <2>5
  <1> QED
    BY <1>1, <1>5, <1>6 DEF ArtifactsInv

\* A process that begins: it owns the experiment, or is refused for a reason.
LEMMA ReserveKeeps ==
    ASSUME ArtifactsInv, NEW p \in Writers, NEW e \in Experiments, NEW policy,
           Reserve(p, e, policy)
    PROVE  ArtifactsInv'
  <1> DEFINE start == [Idle EXCEPT !.exp = e, !.policy = policy, !.run = <<p, started[p] + 1>>]
             next == writer'[p]
  <1>1. /\ Shape /\ ~Busy(p)
        /\ started' = [started EXCEPT ![p] = @ + 1]
        /\ contended' = IF \E q \in Writers \ {p} : Busy(q) /\ writer[q].exp = e
                        THEN contended \cup {e} ELSE contended
        /\ UNCHANGED <<manifest, sidecar, files, captures, recorded, crashes>>
    BY DEF ArtifactsInv, Reserve, disk
  <1>2. /\ DOMAIN writer' = Writers
        /\ \A q \in Writers : q # p => writer'[q] = writer[q]
        /\ next = IF Unverified(e) THEN [start EXCEPT !.pc = "failed", !.fault = "integrity"]
                  ELSE IF policy = "refuse" /\ Existing(e) > 0
                  THEN [start EXCEPT !.pc = "failed", !.fault = "refused"]
                  ELSE [start EXCEPT !.pc = "reserved", !.version = Existing(e) + 1]
    BY <1>1 DEF Reserve, Shape
  <1>3. /\ IsWriter(next) /\ next.exp = e /\ next.policy = policy
        /\ \/ Gap(e) /\ next.pc = "failed" /\ next.fault = "integrity"
           \/ /\ policy = "refuse" /\ Existing(e) > 0
              /\ next.pc = "failed" /\ next.fault = "refused"
           \/ ~Gap(e) /\ next.pc = "reserved" /\ next.version = Existing(e) + 1
    <2> HIDE DEF next
    <2>1. CASE Unverified(e)
      BY <1>2, <2>1 DEF Idle, IsWriter, Gap
    <2>2. CASE ~Unverified(e) /\ policy = "refuse" /\ Existing(e) > 0
      BY <1>2, <2>2 DEF Idle, IsWriter
    <2>3. CASE ~Unverified(e) /\ ~(policy = "refuse" /\ Existing(e) > 0)
      BY <1>2, <2>3 DEF Idle, IsWriter, Gap
    <2> QED
      BY <2>1, <2>2, <2>3
  <1>4. crashes \in Nat /\ crashes' \in Nat /\ crashes' >= crashes
    BY <1>1 DEF Shape
  <1> HIDE DEF start, next
  <1>5. Shape'
    <2>1. next.pc \in Working \cup Resting /\ next.exp \in Experiments
      BY <1>3 DEF Working, Resting
    <2>2. \A q \in Writers :
              /\ IsWriter(writer'[q]) /\ writer'[q].pc \in Working \cup Resting
              /\ writer'[q].pc # "idle" => writer'[q].exp \in Experiments
      BY <1>1, <1>2, <1>3, <2>1 DEF Shape, next
    <2>3. DOMAIN started' = Writers /\ \A q \in Writers : started'[q] \in Nat
      BY <1>1 DEF Shape
    <2> QED BY <1>1, <1>2, <1>4, <2>2, <2>3 DEF Shape
  <1>6. ASSUME NEW d \in Experiments, d # e PROVE Sound(d)'
    <2>1. \A q \in Writers : /\ Owns(q, d)' <=> Owns(q, d)
                             /\ Owns(q, d) => writer'[q] = writer[q]
      BY <1>1, <1>2, <1>3, <1>6 DEF Owns, Busy, next
    <2>2. \A q \in Writers : (At(q, "failed") /\ writer[q].exp = d)' => writer'[q] = writer[q]
      BY <1>2, <1>3, <1>6 DEF next
    <2>3. Sound(d) /\ (d \notin contended' => d \notin contended)
      BY <1>1 DEF ArtifactsInv
    <2> QED
      BY <1>1, <1>4, <2>1, <2>2, <2>3, Untouched
  <1>7. ASSUME e \notin contended' PROVE Sound(e)'
    <2>1. Sound(e) /\ e \notin contended /\ \A q \in Writers : ~Owns(q, e)
      BY <1>1, <1>7 DEF ArtifactsInv, Owns
    <2>2. \A q \in Writers : Owns(q, e)' => q = p
      BY <1>2, <2>1 DEF Owns, Busy
    <2>3. /\ Existing(e)' = Existing(e) /\ Gap(e)' = Gap(e) /\ Numbered(e)' = Numbered(e)
      BY <1>1, ManifestStays
    <2>4. HalfAdopted(e)' = HalfAdopted(e)
      BY <1>1 DEF HalfAdopted
    <2>5. Numbered(e)' /\ FilesMatch(e)' /\ RecordsStand(e)' /\ OneOwner(e)'
      BY <1>1, <2>1, <2>2, <2>3 DEF Sound, FilesMatch, HasDir, RecordsStand, OneOwner
    <2>6. /\ Gap(e) => crashes > 0
          /\ HalfAdopted(e) => crashes > 0
      BY <2>1 DEF Sound, GapExplained, AdoptionExplained
    <2>7. Owns(p, e)' => ~Gap(e) /\ next.pc = "reserved" /\ next.version = Existing(e) + 1
      BY <1>3 DEF Owns, Busy, next
    <2>8. GapExplained(e)' /\ AdoptionExplained(e)'
      BY <1>1, <2>2, <2>3, <2>4, <2>6, <2>7 DEF GapExplained, AdoptionExplained
    <2>9. \A q \in Writers : Owns(q, e)' => Stage(q, e)'
      <3> SUFFICES ASSUME Owns(p, e)' PROVE Stage(p, e)'
        BY <2>2
      <3> QED
        BY <2>3, <2>7 DEF Stage, Adopting, Informed, next
    <2>10. ASSUME NEW q \in Writers, (At(q, "failed") /\ writer[q].exp = e)' PROVE Reason(q, e)'
      <3>1. \A r \in Writers : Owns(r, e)' => writer'[r].pc \in {"reserved", "ran"}
        BY <2>2, <2>7 DEF next
      <3>2. Gap(e) => \A r \in Writers : ~Owns(r, e)'
        BY <2>2, <2>7
      <3>3. CASE q = p
        BY <1>1, <1>3, <2>3, <2>6, <2>10, <3>2, <3>3 DEF Reason, At, next
      <3>4. CASE q # p
        <4>1. writer'[q] = writer[q] /\ Reason(q, e)
          BY <1>2, <2>1, <2>10, <3>4 DEF Sound, At
        <4> QED BY <1>1, <2>3, <2>4, <3>1, <3>2, <4>1 DEF Reason
      <3> QED
        BY <3>3, <3>4
    <2> QED
      BY <2>5, <2>8, <2>9, <2>10 DEF Sound
  <1>8. Sound(e)'
    BY <1>7 DEF Sound
  <1>9. \A r \in recorded' : r[1] \in Experiments
    BY <1>1 DEF ArtifactsInv
  <1> QED
    BY <1>5, <1>6, <1>8, <1>9 DEF ArtifactsInv

LEMMA PersistKeeps ==
    ASSUME ArtifactsInv, NEW p \in Writers, Persist(p)
    PROVE  ArtifactsInv'
  BY RunCellKeeps, OpenManifestKeeps, AdoptFileKeeps, SweepKeeps, MakeDirKeeps, WriteFileKeeps,
     WriteManifestKeeps, WriteSidecarKeeps DEF Persist

LEMMA ArtifactsUntouched ==
    ASSUME ArtifactsInv, UNCHANGED artifactVars
    PROVE  ArtifactsInv'
  <1>1. UNCHANGED <<manifest, sidecar, files, captures, writer, started, recorded, contended, crashes>>
    BY DEF artifactVars
  <1>2. Shape' /\ crashes \in Nat
    BY <1>1 DEF ArtifactsInv, Shape
  <1>3. ASSUME NEW e \in Experiments PROVE Sound(e)'
    <2>1. Sound(e)
      BY DEF ArtifactsInv
    <2>2. \A q \in Writers : Owns(q, e)' <=> Owns(q, e)
      BY <1>1 DEF Owns, Busy
    <2> QED
      BY <1>1, <1>2, <2>1, <2>2, Untouched
  <1> QED
    BY <1>1, <1>2, <1>3 DEF ArtifactsInv

LEMMA ArtifactsInitially ==
    ASSUME ArtifactsInit
    PROVE  ArtifactsInv
  <1> USE DEF ArtifactsInit
  <1>1. /\ DOMAIN NoRuns = {}
        /\ Idle.pc = "idle" /\ IsWriter(Idle)
    BY DEF NoRuns, Idle, IsWriter
  <1>2. Shape
    BY <1>1 DEF Shape, Resting
  <1>3. ASSUME NEW e \in Experiments PROVE Sound(e)
    <2>1. manifest[e] = NoRuns /\ sidecar[e] = NoRuns /\ files[e] = NoRuns
      OBVIOUS
    <2>2. \A p \in Writers : ~Busy(p) /\ ~At(p, "failed")
      BY <1>1 DEF Busy, At
    <2>3. ~Gap(e) /\ ~HalfAdopted(e)
      BY <1>1, <2>1 DEF Gap, Unverified, HalfAdopted
    <2> QED
      BY <1>1, <2>1, <2>2, <2>3 DEF Sound, Numbered, FilesMatch, RecordsStand, OneOwner,
         GapExplained, AdoptionExplained, Owns
  <1> QED
    BY <1>2, <1>3 DEF ArtifactsInv

\* The invariant says that what was recorded is still there and whole.
LEMMA InvariantRunsSurvive ==
    ASSUME ArtifactsInv
    PROVE  RunsSurvive
  <1>1. ASSUME NEW e \in Experiments, e \notin contended
        PROVE  /\ Numbered(e) /\ FilesMatch(e) /\ RecordsStand(e)
               /\ manifest[e] = NoRuns => DOMAIN manifest[e] = {}
               /\ manifest[e] # NoRuns => 1 \in DOMAIN manifest[e]
    <2>1. Numbered(e) /\ FilesMatch(e) /\ RecordsStand(e)
      BY <1>1 DEF ArtifactsInv, Sound
    <2> QED BY <2>1, ExistingCounts
  <1>2. ASSUME NEW e \in Experiments, e \notin contended, NEW v,
               v \in DOMAIN manifest[e], ~Gap(e)
        PROVE  Readable(e, v)
    <2>1. HasDir(e, v, Whole(manifest[e][v])) /\ manifest[e] # NoRuns
      BY <1>1, <1>2 DEF FilesMatch
    <2> QED
      BY <1>2, <2>1 DEF Readable, HasDir, Whole, Gap
  <1>3. ASSUME NEW r \in recorded, r[1] \notin contended
        PROVE  /\ r[2] \in DOMAIN manifest[r[1]] /\ manifest[r[1]][r[2]] = r[3]
               /\ captures[r[1]][r[2]] = r[3]
               /\ Gap(r[1]) \/ Readable(r[1], r[2])
    <2>1. r[1] \in Experiments
      BY DEF ArtifactsInv
    <2>2. /\ r[2] \in DOMAIN manifest[r[1]] /\ manifest[r[1]][r[2]] = r[3]
          /\ captures[r[1]][r[2]] = r[3]
      BY <1>1, <1>3, <2>1 DEF RecordsStand
    <2> QED BY <1>2, <1>3, <2>1, <2>2
  <1>4. ASSUME NEW e \in Legacy \ contended PROVE Gap(e) \/ Readable(e, 1)
    <2>1. e \in Experiments
      BY ArtifactsAssumption DEF ArtifactsAssumption
    <2>2. CASE manifest[e] = NoRuns
      BY <2>2 DEF Readable
    <2>3. CASE manifest[e] # NoRuns
      BY <1>1, <1>2, <2>1, <2>3
    <2> QED BY <2>2, <2>3
  <1> QED
    BY <1>3, <1>4 DEF RunsSurvive

LEMMA InvariantFailuresExplained ==
    ASSUME ArtifactsInv
    PROVE  FailuresExplained
  <1> SUFFICES ASSUME NEW p \in Writers, At(p, "failed"), writer[p].exp \notin contended
               PROVE  LET w == writer[p]
                      IN  \/ w.fault = "cell"
                          \/ w.fault = "refused" /\ w.policy = "refuse" /\ Existing(w.exp) > 0
                          \/ w.fault = "integrity" /\ Gap(w.exp) /\ crashes > 0
                          \/ w.fault = "adoption" /\ HalfAdopted(w.exp) /\ crashes > 0
    BY DEF FailuresExplained
  <1>1. writer[p].exp \in Experiments
    BY DEF ArtifactsInv, Shape, At
  <1>2. Reason(p, writer[p].exp)
    BY <1>1 DEF ArtifactsInv, Sound
  <1> QED
    BY <1>2 DEF Reason

-----------------------------------------------------------------------------
(* Every run is recorded once, by the process that began it: what a caller *)
(* is told of its run is about that run.                                   *)

Begun(run) == \E q \in Writers : \E k \in 1..started[q] : run = <<q, k>>

NeverRecorded(run) ==
    /\ Begun(run)
    /\ \A r \in recorded : r[3] # run
    /\ \A p \in Writers : Busy(p) => writer[p].run # run

RunNames ==
    /\ \A p \in Writers : ~At(p, "idle") => started[p] > 0 /\ writer[p].run = <<p, started[p]>>
    /\ \A r \in recorded : Begun(r[3])
    /\ \A p \in Writers : Busy(p) \/ At(p, "failed") => \A r \in recorded : r[3] # writer[p].run
    /\ \A p \in Writers :
          At(p, "recorded") => <<writer[p].exp, writer[p].version, writer[p].run>> \in recorded

\* What a step of a process does besides its work on the files.
LEMMA PersistMoves ==
    ASSUME Shape, NEW p \in Writers, Persist(p)
    PROVE  /\ Busy(p) /\ Moved(p, writer'[p]) /\ started' = started
           /\ writer'[p].pc # "idle"
           /\ \/ recorded' = recorded /\ writer'[p].pc # "recorded"
              \/ /\ recorded' = recorded \cup {<<writer[p].exp, writer[p].version, writer[p].run>>}
                 /\ writer'[p].pc = "recorded"
  <1>1. CASE RunCell(p)
    BY <1>1, GotoMoves, FailMoves DEF RunCell, At, Busy, ghosts
  <1>2. CASE OpenManifest(p)
    BY <1>2, GotoMoves, FailMoves, LearnMoves DEF OpenManifest, At, Busy, ghosts
  <1>3. CASE AdoptFile(p)
    <2>1. Busy(p) /\ started' = started /\ recorded' = recorded
      BY <1>3 DEF AdoptFile, At, Busy, ghosts
    <2>2. \/ Goto(p, "adopting_metrics")
          \/ writer' = [writer EXCEPT ![p].pc = "opened", ![p].known = Put(NoRuns, 1, LegacyRun)]
      BY <1>3 DEF AdoptFile
    <2> QED BY <2>1, <2>2, GotoMoves, LearnMoves
  <1>4. CASE Sweep(p)
    BY <1>4, GotoMoves, FailMoves DEF Sweep, At, Busy, ghosts
  <1>5. CASE MakeDir(p)
    BY <1>5, GotoMoves, FailMoves DEF MakeDir, At, Busy, ghosts
  <1>6. CASE WriteFile(p)
    BY <1>6, GotoMoves DEF WriteFile, At, Busy, ghosts
  <1>7. CASE WriteManifest(p)
    BY <1>7, GotoMoves DEF WriteManifest, At, Busy, ghosts
  <1>8. CASE WriteSidecar(p)
    BY <1>8, GotoMoves DEF WriteSidecar, At, Busy
  <1> QED
    BY <1>1, <1>2, <1>3, <1>4, <1>5, <1>6, <1>7, <1>8 DEF Persist

LEMMA PersistNames ==
    ASSUME Shape, RunNames, NEW p \in Writers, Persist(p)
    PROVE  /\ RunNames'
           /\ recorded \subseteq recorded'
           /\ \A run : NeverRecorded(run) => NeverRecorded(run)'
  <1>1. /\ Busy(p) /\ started' = started /\ writer'[p].pc # "idle"
        /\ writer'[p].exp = writer[p].exp /\ writer'[p].version = writer[p].version
        /\ writer'[p].run = writer[p].run
        /\ \A q \in Writers : q # p => writer'[q] = writer[q]
        /\ \/ recorded' = recorded /\ writer'[p].pc # "recorded"
           \/ /\ recorded' = recorded \cup {<<writer[p].exp, writer[p].version, writer[p].run>>}
              /\ writer'[p].pc = "recorded"
    BY PersistMoves DEF Moved
  <1>2. \A run : Begun(run)' <=> Begun(run)
    BY <1>1 DEF Begun
  <1>3. /\ ~At(p, "idle") /\ started[p] > 0 /\ writer[p].run = <<p, started[p]>>
        /\ \A q \in Writers : ~At(q, "idle") => started[q] > 0 /\ writer[q].run = <<q, started[q]>>
    BY <1>1 DEF RunNames, Busy, At
  <1>4. Begun(writer[p].run)
    <2>1. started[p] \in 1..started[p]
      BY <1>3 DEF Shape
    <2> QED BY <1>3, <2>1 DEF Begun
  <1>5. \A r \in recorded' : r \in recorded \/ r[3] = writer[p].run
    BY <1>1
  <1>6. \A r \in recorded' : Begun(r[3])'
    BY <1>2, <1>4, <1>5 DEF RunNames
  <1>7. \A q \in Writers : ~At(q, "idle")' => started'[q] > 0 /\ writer'[q].run = <<q, started'[q]>>
    BY <1>1, <1>3 DEF At
  <1>8. ASSUME NEW q \in Writers, (Busy(q) \/ At(q, "failed"))', NEW r \in recorded'
        PROVE  r[3] # writer'[q].run
    <2>1. CASE q = p
      <3>1. recorded' = recorded
        BY <1>1, <1>8, <2>1 DEF Busy, At
      <3> QED BY <1>1, <2>1, <3>1 DEF RunNames
    <2>2. CASE q # p
      <3>1. Busy(q) \/ At(q, "failed")
        BY <1>1, <1>8, <2>2 DEF Busy, At
      <3>2. r \in recorded => r[3] # writer[q].run
        BY <3>1 DEF RunNames
      <3>3. writer[q].run = <<q, started[q]>>
        BY <1>3, <3>1 DEF Busy, At
      <3>4. writer[p].run # writer[q].run
        BY <1>3, <2>2, <3>3
      <3> QED BY <1>1, <1>5, <2>2, <3>2, <3>4
    <2> QED BY <2>1, <2>2
  <1>9. \A q \in Writers :
            At(q, "recorded")' => <<writer'[q].exp, writer'[q].version, writer'[q].run>> \in recorded'
    BY <1>1 DEF RunNames, At
  <1>10. ASSUME NEW run, NeverRecorded(run) PROVE NeverRecorded(run)'
    <2>1. writer[p].run # run
      BY <1>1, <1>10 DEF NeverRecorded
    <2>2. \A q \in Writers : Busy(q)' => writer'[q].run # run
      BY <1>1, <1>10, <2>1 DEF NeverRecorded, Busy
    <2> QED BY <1>2, <1>5, <1>10, <2>1, <2>2 DEF NeverRecorded
  <1> QED
    BY <1>1, <1>6, <1>7, <1>8, <1>9, <1>10 DEF RunNames

LEMMA CrashNames ==
    ASSUME Shape, RunNames, NEW p \in Writers, Crash(p)
    PROVE  /\ RunNames'
           /\ recorded \subseteq recorded'
           /\ \A run : NeverRecorded(run) => NeverRecorded(run)'
  <1>1. /\ writer'[p].pc = "idle" /\ started' = started /\ recorded' = recorded
        /\ \A q \in Writers : q # p => writer'[q] = writer[q]
    BY DEF Crash, Shape, Idle, ghosts
  <1>2. \A run : Begun(run)' <=> Begun(run)
    BY <1>1 DEF Begun
  <1>3. \A q \in Writers : ~At(q, "idle")' => writer'[q] = writer[q]
    BY <1>1 DEF At
  <1>4. \A q \in Writers : Busy(q)' => writer'[q] = writer[q]
    BY <1>1 DEF Busy
  <1> QED
    BY <1>1, <1>2, <1>3, <1>4 DEF RunNames, NeverRecorded, At, Busy

LEMMA ReserveNames ==
    ASSUME Shape, RunNames, NEW p \in Writers, NEW e, NEW policy, Reserve(p, e, policy)
    PROVE  /\ RunNames'
           /\ recorded \subseteq recorded'
           /\ \A run : NeverRecorded(run) => NeverRecorded(run)'
  <1>1. /\ started[p] \in Nat /\ started'[p] = started[p] + 1 /\ recorded' = recorded
        /\ \A q \in Writers : q # p => writer'[q] = writer[q] /\ started'[q] = started[q]
    BY DEF Reserve, Shape
  <1>2. writer'[p].run = <<p, started[p] + 1>> /\ writer'[p].pc # "recorded"
    BY DEF Reserve, Shape, Idle
  <1>3. ASSUME NEW run, Begun(run) PROVE Begun(run)' /\ run # writer'[p].run
    <2>1. PICK q \in Writers : \E k \in 1..started[q] : run = <<q, k>>
      BY <1>3 DEF Begun
    <2>2. PICK k \in 1..started[q] : run = <<q, k>>
      BY <2>1
    <2>3. k \in 1..started'[q] /\ (q = p => k # started[p] + 1)
      BY <1>1, <2>2 DEF Shape
    <2>4. Begun(run)'
      BY <2>2, <2>3 DEF Begun
    <2>5. run # writer'[p].run
      BY <1>2, <2>2, <2>3
    <2> QED BY <2>4, <2>5
  <1>4. \A q \in Writers : ~At(q, "idle")' => started'[q] > 0 /\ writer'[q].run = <<q, started'[q]>>
    <2>1. started'[p] > 0 /\ writer'[p].run = <<p, started'[p]>>
      BY <1>1, <1>2
    <2> QED BY <1>1, <2>1 DEF RunNames, At
  <1>5. \A r \in recorded' : Begun(r[3])' /\ r[3] # writer'[p].run
    BY <1>1, <1>3 DEF RunNames
  <1>6. \A q \in Writers : (Busy(q) \/ At(q, "failed"))' => \A r \in recorded' : r[3] # writer'[q].run
    BY <1>1, <1>5 DEF RunNames, Busy, At
  <1>7. \A q \in Writers :
            At(q, "recorded")' => <<writer'[q].exp, writer'[q].version, writer'[q].run>> \in recorded'
    BY <1>1, <1>2 DEF RunNames, At
  <1>8. ASSUME NEW run, NeverRecorded(run) PROVE NeverRecorded(run)'
    <2>1. Begun(run)' /\ run # writer'[p].run
      BY <1>3, <1>8 DEF NeverRecorded
    <2> QED BY <1>1, <1>8, <2>1 DEF NeverRecorded, Busy
  <1> QED
    BY <1>1, <1>4, <1>5, <1>6, <1>7, <1>8 DEF RunNames

LEMMA NamesUntouched ==
    ASSUME RunNames, UNCHANGED artifactVars
    PROVE  /\ RunNames'
           /\ recorded \subseteq recorded'
           /\ \A run : NeverRecorded(run) => NeverRecorded(run)'
  BY DEF artifactVars, RunNames, NeverRecorded, Begun, Busy, At

-----------------------------------------------------------------------------
(* The HTTP server, and the two together.                                   *)

Statuses == {"queued", "running", "done", "error"}
Kinds    == {"queued", "started", "done", "error"}

Jobs(R) == [tenant : Tenants, exp : Requests, status : Statuses,
            result : R, events : Seq(Kinds)]

JobsTyped == \E R : job \in Seq(Jobs(R))

UnfinishedListed == \A i \in DOMAIN job : Active(i) => i \in listed

AdmissionInv == JobsTyped /\ UnfinishedListed /\ OneAtATime

LEMMA SeqExcept ==
    ASSUME NEW S, NEW n \in Nat, NEW f \in [1..n -> S], NEW i \in 1..n, NEW y \in S
    PROVE  /\ [f EXCEPT ![i] = y] \in Seq(S)
           /\ DOMAIN [f EXCEPT ![i] = y] = 1..n
           /\ \A k \in 1..n : [f EXCEPT ![i] = y][k] = IF k = i THEN y ELSE f[k]
  <1>1. [f EXCEPT ![i] = y] \in [1..n -> S]
    OBVIOUS
  <1> QED
    BY <1>1

\* A job whose status, events or result changed is still a job.
LEMMA ChangedJob ==
    ASSUME NEW R, NEW r \in Jobs(R), NEW x,
           NEW s \in Statuses, NEW ev \in Kinds
    PROVE  /\ [r EXCEPT !.status = s, !.events = Append(@, ev)] \in Jobs(R)
           /\ [r EXCEPT !.events = Append(@, ev)] \in Jobs(R)
           /\ [r EXCEPT !.status = s, !.result = x] \in Jobs(R \cup {x})
  <1>1. Append(r.events, ev) \in Seq(Kinds)
    BY DEF Jobs
  <1> QED
    BY <1>1 DEF Jobs

LEMMA WiderSeq ==
    ASSUME NEW S, NEW T, S \subseteq T, NEW q \in Seq(S)
    PROVE  q \in Seq(T)
  <1>1. q \in [1..Len(q) -> S] /\ Len(q) \in Nat
    OBVIOUS
  <1>2. q \in [1..Len(q) -> T]
    BY <1>1
  <1> QED
    BY <1>1, <1>2

LEMMA WiderJobs ==
    ASSUME NEW R, NEW x
    PROVE  Jobs(R) \subseteq Jobs(R \cup {x})
  BY DEF Jobs

\* A trim takes finished jobs only.
LEMMA EvictedFinished ==
    ASSUME NEW jobs, NEW table
    PROVE  /\ Evicted(jobs, table) \subseteq table
           /\ \A i \in table : i \notin Evicted(jobs, table) => jobs[i].status \in {"done", "error"}
  BY DEF Evicted, Final

LEMMA StartKeeps ==
    ASSUME AdmissionInv, NEW t \in Tenants, NEW e \in Requests, StartRun(t, e)
    PROVE  AdmissionInv'
  <1> DEFINE new == [tenant |-> t, exp |-> e, status |-> "queued", result |-> <<>>,
                     events |-> <<"queued">>]
  <1>1. CASE UNCHANGED <<job, listed>>
    BY <1>1 DEF AdmissionInv, JobsTyped, UnfinishedListed, OneAtATime, Active
  <1>2. CASE job' = Append(job, new) /\ listed' = Evicted(job', listed \cup {Len(job')})
    <2>1. PICK R : job \in Seq(Jobs(R))
      BY DEF AdmissionInv, JobsTyped
    <2>2. new \in Jobs(R \cup {<<>>})
      <3>1. <<"queued">> \in Seq(Kinds)
        <4>1. <<>> \in Seq(Kinds) /\ <<"queued">> = Append(<<>>, "queued")
          BY DEF Kinds
        <4>2. "queued" \in Kinds
          BY DEF Kinds
        <4> QED BY <4>1, <4>2
      <3> QED BY <3>1 DEF Jobs, Statuses
    <2>3. job \in Seq(Jobs(R \cup {<<>>}))
      BY <2>1, WiderJobs, WiderSeq
    <2>4. /\ job' \in Seq(Jobs(R \cup {<<>>}))
          /\ Len(job) \in Nat /\ DOMAIN job = 1..Len(job)
          /\ DOMAIN job' = 1..(Len(job) + 1) /\ Len(job') = Len(job) + 1
          /\ \A i \in 1..Len(job) : job'[i] = job[i]
          /\ job'[Len(job) + 1] = new
      <3> HIDE DEF new
      <3> QED BY <1>2, <2>2, <2>3
    <2>5. \A i \in DOMAIN job : ~Active(i)
      BY DEF StartRun, InProgress, AdmissionInv, UnfinishedListed
    <2>6. \A i \in DOMAIN job' : Active(i)' => i = Len(job')
      BY <2>4, <2>5 DEF Active
    <2>7. \A i \in DOMAIN job' : Active(i)' => i \in listed'
      <3> SUFFICES ASSUME NEW i \in DOMAIN job', Active(i)' PROVE i \in listed'
        OBVIOUS
      <3>1. i = Len(job') /\ job'[i].status \notin {"done", "error"}
        BY <2>6 DEF Active
      <3>2. i \in listed \cup {Len(job')}
        BY <3>1
      <3> QED BY <1>2, <3>1, <3>2, EvictedFinished
    <2> QED
      BY <2>4, <2>6, <2>7 DEF AdmissionInv, JobsTyped, UnfinishedListed, OneAtATime
  <1> QED
    BY <1>1, <1>2 DEF StartRun

\* A step that changes one job and no table keeps the invariant, when the job
\* was unfinished before or is not afterwards.
LEMMA ChangeKeeps ==
    ASSUME AdmissionInv, NEW i \in DOMAIN job, NEW R, job \in Seq(Jobs(R)), NEW y \in Jobs(R),
           job' = [job EXCEPT ![i] = y], listed' = listed,
           y.status \in {"queued", "running"} => Active(i)
    PROVE  AdmissionInv'
  <1>1. job \in [1..Len(job) -> Jobs(R)] /\ Len(job) \in Nat /\ i \in 1..Len(job)
    OBVIOUS
  <1>2. /\ job' \in Seq(Jobs(R))
        /\ DOMAIN job' = DOMAIN job
        /\ \A k \in DOMAIN job : job'[k] = IF k = i THEN y ELSE job[k]
    BY <1>1, SeqExcept
  <1>3. \A k \in DOMAIN job : Active(k)' => Active(k)
    BY <1>2 DEF Active
  <1> QED
    BY <1>2, <1>3 DEF AdmissionInv, JobsTyped, UnfinishedListed, OneAtATime

LEMMA WorkerKeeps ==
    ASSUME AdmissionInv, NEW i,
           NEW s \in {"done", "error"}, NEW x, Begin(i) \/ Settle(i, s, x) \/ Report(i)
    PROVE  AdmissionInv'
  <1>1. PICK R : job \in Seq(Jobs(R))
    BY DEF AdmissionInv, JobsTyped
  <1>2. i \in DOMAIN job /\ listed' = listed
    BY DEF Begin, Settle, Report
  <1>3. job[i] \in Jobs(R) /\ job[i].status \in Statuses
    <2>1. job[i] \in Jobs(R)
      BY <1>1, <1>2
    <2> QED BY <2>1 DEF Jobs
  <1>4. CASE Begin(i)
    <2> DEFINE y == [job[i] EXCEPT !.status = "running", !.events = Append(@, "started")]
    <2>1. job' = [job EXCEPT ![i] = y]
      BY <1>4 DEF Begin
    <2>2. y \in Jobs(R)
      BY <1>3, ChangedJob DEF Statuses, Kinds
    <2>3. Active(i)
      BY <1>4 DEF Begin, Active
    <2> QED
      BY <1>1, <1>2, <2>1, <2>2, <2>3, ChangeKeeps
  <1>5. CASE Settle(i, s, x)
    <2> DEFINE y == [job[i] EXCEPT !.status = s, !.result = x]
    <2>1. job' = [job EXCEPT ![i] = y]
      BY <1>5 DEF Settle
    <2>2. y \in Jobs(R \cup {x})
      <3>1. s \in Statuses /\ "done" \in Kinds
        BY DEF Statuses, Kinds
      <3> QED BY <1>3, <3>1, ChangedJob
    <2>3. job \in Seq(Jobs(R \cup {x}))
      BY <1>1, WiderJobs, WiderSeq
    <2>4. Active(i)
      BY <1>5 DEF Settle, Active
    <2> QED
      BY <1>2, <2>1, <2>2, <2>3, <2>4, ChangeKeeps
  <1>6. CASE Report(i)
    <2> DEFINE y == [job[i] EXCEPT !.events = Append(@, job[i].status)]
    <2>1. job' = [job EXCEPT ![i] = y]
      BY <1>6 DEF Report
    <2>2. y \in Jobs(R) /\ y.status = job[i].status
      <3>1. job[i].status \in Kinds
        BY <1>6 DEF Report, Finished, Kinds
      <3>2. y \in Jobs(R)
        BY <1>3, <3>1, ChangedJob
      <3> QED BY <1>3, <3>2 DEF Jobs
    <2>3. y.status \in {"queued", "running"} => Active(i)
      BY <2>2 DEF Active
    <2> QED
      BY <1>1, <1>2, <2>1, <2>2, <2>3, ChangeKeeps
  <1> QED
    BY <1>4, <1>5, <1>6

\* What the admission argument rests on, at every step.
THEOREM LabAdmission == Spec => []AdmissionInv
  <1>1. Init => AdmissionInv
    <2> SUFFICES ASSUME Init PROVE AdmissionInv
      OBVIOUS
    <2>1. job = <<>> /\ DOMAIN job = {}
      BY DEF Init, RunnerInit
    <2>2. job \in Seq(Jobs({}))
      BY <2>1
    <2> QED
      BY <2>1, <2>2 DEF AdmissionInv, JobsTyped, UnfinishedListed, OneAtATime
  <1>2. AdmissionInv /\ [Next]_vars => AdmissionInv'
    <2> SUFFICES ASSUME AdmissionInv, [Next]_vars PROVE AdmissionInv'
      OBVIOUS
    <2>1. CASE UNCHANGED <<job, listed>>
      BY <2>1 DEF AdmissionInv, JobsTyped, UnfinishedListed, OneAtATime, Active
    <2>2. ASSUME NEW t \in Tenants, NEW e \in Requests, Start(t, e) PROVE AdmissionInv'
      BY <2>2, StartKeeps DEF Start
    <2>3. ASSUME NEW i \in DOMAIN job, ServerBegins(i) \/ ServerReports(i) PROVE AdmissionInv'
      BY <2>3, WorkerKeeps DEF ServerBegins, ServerReports
    <2>4. ASSUME NEW i \in DOMAIN job, ServerSettles(i) PROVE AdmissionInv'
      <3> DEFINE w == writer["server"]
      <3>1. Outcome(w.pc) \in {"done", "error"}
        BY DEF Outcome
      <3>2. Settle(i, Outcome(w.pc), <<w.exp, w.version, w.run>>)
        BY <2>4 DEF ServerSettles
      <3> QED BY <3>1, <3>2, WorkerKeeps
    <2>5. CASE ServerCrash
      <3>1. job' = <<>> /\ DOMAIN job' = {}
        BY <2>5 DEF ServerCrash, Restart
      <3>2. job' \in Seq(Jobs({}))
        BY <3>1
      <3> QED
        BY <3>1, <3>2 DEF AdmissionInv, JobsTyped, UnfinishedListed, OneAtATime
    <2>6. ASSUME NEW p \in Writers, Persisting(p) PROVE AdmissionInv'
      BY <2>1, <2>6 DEF Persisting, runnerVars
    <2>7. ASSUME NEW c \in Clients, NEW i \in listed, Runner(Connect(c, i)) PROVE AdmissionInv'
      BY <2>1, <2>7 DEF Runner, Connect
    <2>8. ASSUME NEW c \in Clients,
                 Runner(Reconnect(c)) \/ Runner(SendEvent(c)) \/ Runner(EndStream(c)) \/ Runner(Deadline(c))
          PROVE  AdmissionInv'
      BY <2>1, <2>8 DEF Runner, Reconnect, SendEvent, EndStream, Deadline
    <2>9. CASE Runner(Tick) \/ BatchCell \/ BatchCrash
      BY <2>1, <2>9 DEF Runner, Tick, BatchCell, BatchCrash, runnerVars
    <2>10. CASE UNCHANGED vars
      BY <2>1, <2>10 DEF vars, runnerVars
    <2> QED
      BY <2>2, <2>3, <2>4, <2>5, <2>6, <2>7, <2>8, <2>9, <2>10 DEF Next
  <1> QED
    BY <1>1, <1>2, PTL DEF Spec

\* One live run at a time.  (start_run, _work and every step around them.)
THEOREM OneRunAtATime == Spec => []OneAtATime
  <1>1. AdmissionInv => OneAtATime
    BY DEF AdmissionInv
  <1> QED
    BY <1>1, LabAdmission, PTL

-----------------------------------------------------------------------------
(* The hourly limit.  A tenant's window is the list of its last starts: its *)
(* entries can be matched with admissions so that every admission that is   *)
(* not matched lies more than an hour back.                                 *)

WindowsTyped ==
    /\ clock \in Nat
    /\ window \in [Tenants -> Seq(Nat)]
    /\ admitted \in Seq(Tenants \X Nat)

Matches(t, g) ==
    /\ \A j \in DOMAIN window[t] : admitted[g[j]] = <<t, window[t][j]>>
    /\ \A m \in DOMAIN admitted :
          admitted[m][1] = t => \/ \E j \in DOMAIN window[t] : g[j] = m
                                \/ clock - admitted[m][2] > Hour

WindowsFaithful ==
    \A t \in Tenants : \E g \in [DOMAIN window[t] -> DOMAIN admitted] : Matches(t, g)

LimitInv == WindowsTyped /\ WindowsFaithful /\ StartsCapped

\* A set of positions that holds every position before each of its own is an
\* initial segment, as long as its cardinality says.
LEMMA InitialSegment ==
    ASSUME NEW n \in Nat, NEW S \in SUBSET (1..n), \A k \in S : 1..k \subseteq S
    PROVE  Cardinality(S) \in Nat /\ S = 1..Cardinality(S)
  <1>1. IsFiniteSet(1..n)
    BY FS_Interval
  <1>2. IsFiniteSet(S)
    BY <1>1, FS_Subset
  <1>3. Cardinality(S) \in Nat
    BY <1>2, FS_CardinalityType
  <1> DEFINE c == Cardinality(S)
  <1>4. \A k \in S : k <= c
    <2> SUFFICES ASSUME NEW k \in S PROVE k <= c
      OBVIOUS
    <2>1. Cardinality(1..k) <= c
      BY <1>2, FS_Subset
    <2>2. Cardinality(1..k) = k
      BY FS_Interval
    <2> QED BY <2>1, <2>2
  <1>5. S \in SUBSET (1..c)
    BY <1>3, <1>4
  <1>6. IsFiniteSet(1..c) /\ Cardinality(1..c) = c
    BY <1>3, FS_Interval
  <1> QED
    BY <1>3, <1>5, <1>6, FS_Subset

\* What trimming a window keeps, and that what it drops is old.
LEMMA RecentKeeps ==
    ASSUME clock \in Nat, NEW w \in Seq(Nat)
    PROVE  \E d \in 0..Len(w) :
              /\ Recent(w) \in Seq(Nat) /\ Len(Recent(w)) = Len(w) - d
              /\ \A j \in 1..(Len(w) - d) : Recent(w)[j] = w[j + d]
              /\ \A j \in 1..d : clock - w[j] > Hour
  <1>1. Len(w) \in Nat /\ DOMAIN w = 1..Len(w) /\ w \in [1..Len(w) -> Nat]
    OBVIOUS
  <1>2. PICK old : old = {k \in DOMAIN w : \A m \in 1..k : clock - w[m] > Hour}
    OBVIOUS
  <1>3. old \in SUBSET (1..Len(w)) /\ \A k \in old : 1..k \subseteq old
    BY <1>1, <1>2
  <1>4. PICK d \in Nat : d = Cardinality(old) /\ old = 1..d
    BY <1>1, <1>3, InitialSegment
  <1>5. d <= Len(w)
    <2>1. CASE d = 0
      BY <1>1, <2>1
    <2>2. CASE d # 0
      <3>1. d \in 1..d
        BY <2>2
      <3>2. d \in old
        BY <1>4, <3>1
      <3> QED BY <1>3, <3>2
    <2> QED BY <2>1, <2>2
  <1>6. \A j \in 1..d : clock - w[j] > Hour
    BY <1>1, <1>2, <1>4
  <1>7. Recent(w) = SubSeq(w, d + 1, Len(w))
    BY <1>2, <1>4 DEF Recent
  <1>8. /\ Recent(w) \in Seq(Nat) /\ Len(Recent(w)) = Len(w) - d
        /\ \A j \in 1..(Len(w) - d) : Recent(w)[j] = w[j + d]
    <2> DEFINE from == d + 1
               to == Len(w)
    <2>1. from \in Int /\ to \in Int /\ \A i \in from..to : w[i] \in Nat
      BY <1>1
    <2>2. /\ SubSeq(w, from, to) \in Seq(Nat)
          /\ Len(SubSeq(w, from, to)) = IF from <= to THEN to - from + 1 ELSE 0
          /\ \A i \in 1..(to - from + 1) : SubSeq(w, from, to)[i] = w[from + i - 1]
      <3> HIDE DEF from, to
      <3> QED BY <2>1, SubSeqProperties
    <2>3. Recent(w) \in Seq(Nat)
      BY <1>7, <2>2
    <2>4. Len(Recent(w)) = Len(w) - d
      <3>1. CASE from <= to
        <4>1. Len(Recent(w)) = to - from + 1
          BY <1>7, <2>2, <3>1
        <4> QED BY <1>1, <4>1
      <3>2. CASE ~(from <= to)
        <4>1. Len(Recent(w)) = 0
          BY <1>7, <2>2, <3>2
        <4>2. Len(w) \in Nat /\ d \in Nat /\ d <= Len(w) /\ ~(d + 1 <= Len(w))
          BY <1>1, <1>5, <3>2
        <4>3. d = Len(w)
          BY <4>2
        <4> QED BY <4>1, <4>2, <4>3
      <3> QED BY <3>1, <3>2
    <2>5. ASSUME NEW j \in 1..(Len(w) - d) PROVE Recent(w)[j] = w[j + d]
      <3>1. j \in 1..(to - from + 1) /\ from + j - 1 = j + d
        BY <1>1
      <3>2. SubSeq(w, from, to)[j] = w[from + j - 1]
        BY <2>2, <3>1
      <3> QED BY <1>7, <3>1, <3>2
    <2> QED BY <2>3, <2>4, <2>5
  <1>9. d \in 0..Len(w)
    BY <1>1, <1>4, <1>5
  <1> QED
    BY <1>6, <1>8, <1>9

\* Positions named by a function on 1..n are at most n.
LEMMA ImageBound ==
    ASSUME NEW n \in Nat, NEW f, DOMAIN f = 1..n, f = [j \in 1..n |-> f[j]],
           NEW S, \A x \in S : \E j \in 1..n : f[j] = x
    PROVE  Cardinality(S) <= n
  <1> DEFINE T == {f[j] : j \in 1..n}
  <1>1. f \in Surjection(1..n, T)
    BY DEF Surjection, Range
  <1>2. IsFiniteSet(1..n) /\ Cardinality(1..n) = n
    BY FS_Interval
  <1>3. IsFiniteSet(T) /\ Cardinality(T) <= n
    <2> HIDE DEF T
    <2> QED BY <1>1, <1>2, FS_Surjection
  <1>4. S \in SUBSET T
    OBVIOUS
  <1>5. Cardinality(S) <= Cardinality(T) /\ IsFiniteSet(S)
    <2> HIDE DEF T
    <2> QED BY <1>3, <1>4, FS_Subset
  <1>6. Cardinality(S) \in Nat /\ Cardinality(T) \in Nat
    BY <1>3, <1>5, FS_CardinalityType
  <1> QED
    BY <1>3, <1>5, <1>6

\* A window stays matched when it is trimmed.
LEMMA TrimmedMatch ==
    ASSUME WindowsTyped, WindowsFaithful, NEW t \in Tenants
    PROVE  \E n \in Nat : \E h \in [1..n -> DOMAIN admitted] :
              /\ Recent(window[t]) \in Seq(Nat) /\ Len(Recent(window[t])) = n
              /\ \A j \in 1..n : admitted[h[j]] = <<t, Recent(window[t])[j]>>
              /\ \A m \in DOMAIN admitted :
                    admitted[m][1] = t => \/ \E j \in 1..n : h[j] = m
                                          \/ clock - admitted[m][2] > Hour
  <1>1. clock \in Nat /\ window[t] \in Seq(Nat)
    BY DEF WindowsTyped
  <1>2. PICK w \in Seq(Nat) : w = window[t]
    BY <1>1
  <1>3. PICK g \in [DOMAIN w -> DOMAIN admitted] : Matches(t, g)
    BY <1>2 DEF WindowsFaithful
  <1>4. PICK d \in 0..Len(w) :
              /\ Recent(w) \in Seq(Nat) /\ Len(Recent(w)) = Len(w) - d
              /\ \A j \in 1..(Len(w) - d) : Recent(w)[j] = w[j + d]
              /\ \A j \in 1..d : clock - w[j] > Hour
    BY <1>1, <1>2, RecentKeeps
  <1>5. Len(w) \in Nat /\ DOMAIN w = 1..Len(w)
    BY <1>2
  <1>6. PICK n \in Nat : n = Len(w) - d
    <2>1. Len(w) - d \in Nat
      BY <1>5
    <2> QED BY <2>1
  <1>7. \A j \in 1..n : j + d \in DOMAIN w
    BY <1>4, <1>5, <1>6
  <1> DEFINE h == [j \in 1..n |-> g[j + d]]
  <1>8. h \in [1..n -> DOMAIN admitted]
    BY <1>3, <1>7
  <1>9. \A j \in 1..n : admitted[h[j]] = <<t, Recent(w)[j]>>
    <2> SUFFICES ASSUME NEW j \in 1..n PROVE admitted[h[j]] = <<t, Recent(w)[j]>>
      OBVIOUS
    <2>1. h[j] = g[j + d] /\ Recent(w)[j] = w[j + d] /\ j + d \in DOMAIN w
      BY <1>4, <1>6, <1>7
    <2>2. admitted[g[j + d]] = <<t, w[j + d]>>
      BY <1>2, <1>3, <2>1 DEF Matches
    <2> QED BY <2>1, <2>2
  <1>10. ASSUME NEW m \in DOMAIN admitted, admitted[m][1] = t
         PROVE  (\E j \in 1..n : h[j] = m) \/ clock - admitted[m][2] > Hour
    <2>1. CASE clock - admitted[m][2] > Hour
      BY <2>1
    <2>2. ASSUME NEW j \in DOMAIN w, g[j] = m
          PROVE  (\E i \in 1..n : h[i] = m) \/ clock - admitted[m][2] > Hour
      <3>1. CASE j <= d
        <4>1. j \in 1..d
          BY <1>5, <3>1
        <4>2. admitted[m] = <<t, w[j]>>
          BY <1>2, <1>3, <2>2 DEF Matches
        <4> QED BY <1>4, <4>1, <4>2
      <3>2. CASE j > d
        <4>1. PICK i \in 1..n : i + d = j
          <5>1. j - d \in 1..n /\ (j - d) + d = j
            BY <1>4, <1>5, <1>6, <3>2
          <5> QED BY <5>1
        <4>2. h[i] = m
          BY <2>2, <4>1
        <4> QED BY <4>2
      <3> QED BY <1>4, <1>5, <3>1, <3>2
    <2> QED
      BY <1>2, <1>3, <1>10, <2>1, <2>2 DEF Matches
  <1> HIDE DEF h
  <1> QED
    BY <1>2, <1>4, <1>6, <1>8, <1>9, <1>10

LEMMA StartKeepsLimit ==
    ASSUME LimitInv, NEW t \in Tenants, NEW e \in Requests, StartRun(t, e)
    PROVE  LimitInv'
  <1>1. WindowsTyped /\ WindowsFaithful /\ StartsCapped
    BY DEF LimitInv
  <1>2. PICK n \in Nat : \E h \in [1..n -> DOMAIN admitted] :
              /\ Recent(window[t]) \in Seq(Nat) /\ Len(Recent(window[t])) = n
              /\ \A j \in 1..n : admitted[h[j]] = <<t, Recent(window[t])[j]>>
              /\ \A m \in DOMAIN admitted :
                    admitted[m][1] = t => \/ \E j \in 1..n : h[j] = m
                                          \/ clock - admitted[m][2] > Hour
    BY <1>1, TrimmedMatch
  <1>2a. PICK r \in Seq(Nat) : r = Recent(window[t])
    BY <1>2
  <1>3. PICK h \in [1..n -> DOMAIN admitted] :
              /\ r = Recent(window[t]) /\ r \in Seq(Nat) /\ Len(r) = n
              /\ \A j \in 1..n : admitted[h[j]] = <<t, r[j]>>
              /\ \A m \in DOMAIN admitted :
                    admitted[m][1] = t => \/ \E j \in 1..n : h[j] = m
                                          \/ clock - admitted[m][2] > Hour
    BY <1>2, <1>2a
  <1>4. /\ clock \in Nat /\ clock' = clock
        /\ window \in [Tenants -> Seq(Nat)]
        /\ admitted \in Seq(Tenants \X Nat)
        /\ DOMAIN r = 1..n
    BY <1>1, <1>3 DEF WindowsTyped, StartRun
  <1>5. CASE window' = [window EXCEPT ![t] = r] /\ UNCHANGED admitted
    <2>1. window' \in [Tenants -> Seq(Nat)] /\ window'[t] = r
          /\ \A u \in Tenants : u # t => window'[u] = window[u]
      BY <1>3, <1>4, <1>5
    <2>2. WindowsTyped'
      BY <1>4, <1>5, <2>1 DEF WindowsTyped
    <2>3. StartsCapped'
      BY <1>1, <1>5 DEF StartsCapped
    <2>4. Matches(t, h)' /\ h \in [DOMAIN window'[t] -> DOMAIN admitted']
      BY <1>3, <1>4, <1>5, <2>1 DEF Matches
    <2>5. ASSUME NEW u \in Tenants, u # t
          PROVE  \E g \in [DOMAIN window'[u] -> DOMAIN admitted'] : Matches(u, g)'
      <3>1. PICK g \in [DOMAIN window[u] -> DOMAIN admitted] : Matches(u, g)
        BY <1>1 DEF WindowsFaithful
      <3>2. Matches(u, g)'
        BY <1>4, <1>5, <2>1, <2>5, <3>1 DEF Matches
      <3> QED BY <1>5, <2>1, <2>5, <3>1, <3>2
    <2>6. WindowsFaithful'
      BY <2>4, <2>5 DEF WindowsFaithful
    <2> QED BY <2>2, <2>3, <2>6 DEF LimitInv
  <1>6. CASE /\ Len(r) < PerHour
             /\ window' = [window EXCEPT ![t] = Append(r, clock)]
             /\ admitted' = Append(admitted, <<t, clock>>)
    <2>1. PICK M \in Nat : M = Len(admitted) /\ DOMAIN admitted = 1..M
      BY <1>4
    <2>2. /\ admitted' \in Seq(Tenants \X Nat) /\ DOMAIN admitted' = 1..(M + 1)
          /\ \A m \in 1..M : admitted'[m] = admitted[m]
          /\ admitted'[M + 1] = <<t, clock>>
      BY <1>4, <1>6, <2>1
    <2>3. PICK q : q = Append(r, clock) /\ q \in Seq(Nat) /\ DOMAIN q = 1..(n + 1)
                   /\ (\A j \in 1..n : q[j] = r[j]) /\ q[n + 1] = clock
      <3>1. /\ Append(r, clock) \in Seq(Nat) /\ Len(Append(r, clock)) = n + 1
            /\ \A j \in 1..n : Append(r, clock)[j] = r[j]
            /\ Append(r, clock)[n + 1] = clock
        BY <1>3, <1>4, AppendProperties
      <3>2. DOMAIN Append(r, clock) = 1..(n + 1)
        BY <3>1
      <3> QED BY <3>1, <3>2
    <2>4. window' \in [Tenants -> Seq(Nat)] /\ window'[t] = q
          /\ \A u \in Tenants : u # t => window'[u] = window[u]
      BY <1>4, <1>6, <2>3
    <2>5. WindowsTyped'
      BY <1>4, <2>2, <2>4 DEF WindowsTyped
    <2> DEFINE f == [j \in 1..(n + 1) |-> IF j = n + 1 THEN M + 1 ELSE h[j]]
    <2>6. PICK g : /\ g \in [1..(n + 1) -> 1..(M + 1)] /\ g[n + 1] = M + 1
                   /\ \A j \in 1..n : g[j] = h[j] /\ g[j] \in 1..M
      <3>1. \A j \in 1..n : h[j] \in 1..M /\ j \in 1..(n + 1) /\ j # n + 1
        BY <1>3, <2>1
      <3>2. f \in [1..(n + 1) -> 1..(M + 1)]
        BY <3>1
      <3>3. n + 1 \in 1..(n + 1)
        OBVIOUS
      <3>4. f[n + 1] = M + 1 /\ \A j \in 1..n : f[j] = h[j] /\ f[j] \in 1..M
        BY <3>1, <3>3
      <3> HIDE DEF f
      <3> QED BY <3>2, <3>4
    <2>7. \A j \in 1..(n + 1) : admitted'[g[j]] = <<t, q[j]>>
      <3> SUFFICES ASSUME NEW j \in 1..(n + 1) PROVE admitted'[g[j]] = <<t, q[j]>>
        OBVIOUS
      <3>1. CASE j = n + 1
        BY <2>2, <2>3, <2>6, <3>1
      <3>2. CASE j # n + 1
        <4>1. j \in 1..n
          BY <3>2
        <4>2. g[j] = h[j] /\ g[j] \in 1..M /\ q[j] = r[j]
          BY <2>3, <2>6, <4>1
        <4>3. admitted'[g[j]] = admitted[g[j]]
          BY <2>2, <4>2
        <4>4. admitted[h[j]] = <<t, r[j]>>
          BY <1>3, <4>1
        <4> QED BY <4>2, <4>3, <4>4
      <3> QED BY <3>1, <3>2
    <2>8. ASSUME NEW m \in 1..(M + 1), admitted'[m][1] = t
          PROVE  (\E j \in 1..(n + 1) : g[j] = m) \/ clock - admitted'[m][2] > Hour
      <3>1. CASE m = M + 1
        <4>1. n + 1 \in 1..(n + 1)
          OBVIOUS
        <4> QED BY <2>6, <3>1, <4>1
      <3>2. CASE m # M + 1
        <4>1. m \in 1..M /\ admitted'[m] = admitted[m]
          BY <2>2, <3>2
        <4>2. (\E j \in 1..n : h[j] = m) \/ clock - admitted[m][2] > Hour
          BY <1>3, <2>1, <2>8, <4>1
        <4>3. \A j \in 1..n : j \in 1..(n + 1) /\ g[j] = h[j]
          BY <2>6
        <4> QED BY <4>1, <4>2, <4>3
      <3> QED BY <3>1, <3>2
    <2>9. Matches(t, g)' /\ g \in [DOMAIN window'[t] -> DOMAIN admitted']
      BY <1>4, <2>2, <2>3, <2>4, <2>6, <2>7, <2>8 DEF Matches
    <2>10. ASSUME NEW u \in Tenants, u # t
           PROVE  \E k \in [DOMAIN window'[u] -> DOMAIN admitted'] : Matches(u, k)'
      <3>1. PICK k \in [DOMAIN window[u] -> DOMAIN admitted] : Matches(u, k)
        BY <1>1 DEF WindowsFaithful
      <3>2. \A j \in DOMAIN window[u] : k[j] \in 1..M /\ admitted'[k[j]] = <<u, window[u][j]>>
        BY <2>1, <2>2, <3>1 DEF Matches
      <3>3. ASSUME NEW m \in 1..(M + 1), admitted'[m][1] = u
            PROVE  (\E j \in DOMAIN window[u] : k[j] = m) \/ clock - admitted'[m][2] > Hour
        <4>1. m # M + 1
          BY <2>2, <2>10, <3>3
        <4>2. m \in 1..M /\ admitted'[m] = admitted[m]
          BY <2>2, <4>1
        <4> QED BY <2>1, <3>1, <3>3, <4>2 DEF Matches
      <3>4. window'[u] = window[u]
        BY <2>4, <2>10
      <3>5. k \in [DOMAIN window'[u] -> DOMAIN admitted']
        <4>1. 1..M \subseteq 1..(M + 1)
          OBVIOUS
        <4> QED BY <2>1, <2>2, <3>1, <3>4, <4>1
      <3>6. Matches(u, k)'
        BY <1>4, <2>2, <3>2, <3>3, <3>4 DEF Matches
      <3> QED BY <3>5, <3>6
    <2>11. WindowsFaithful'
      BY <2>9, <2>10 DEF WindowsFaithful
    <2>12. ASSUME NEW k \in 1..(M + 1)
           PROVE  Cardinality({m \in 1..k : /\ admitted'[m][1] = admitted'[k][1]
                                            /\ admitted'[k][2] - admitted'[m][2] <= Hour}) <= PerHour
      <3>1. CASE k # M + 1
        <4>1. k \in 1..M /\ \A m \in 1..k : m \in 1..M
          BY <3>1
        <4>2. \A m \in 1..k : admitted'[m] = admitted[m]
          BY <2>2, <4>1
        <4>3. k \in 1..k /\ admitted'[k] = admitted[k]
          BY <4>1, <4>2
        <4>4. Cardinality({m \in 1..k : /\ admitted[m][1] = admitted[k][1]
                                        /\ admitted[k][2] - admitted[m][2] <= Hour}) <= PerHour
          BY <1>1, <2>1, <4>1 DEF StartsCapped
        <4>5. {m \in 1..k : /\ admitted'[m][1] = admitted'[k][1]
                            /\ admitted'[k][2] - admitted'[m][2] <= Hour}
              = {m \in 1..k : /\ admitted[m][1] = admitted[k][1]
                              /\ admitted[k][2] - admitted[m][2] <= Hour}
          BY <4>2, <4>3
        <4> QED BY <4>4, <4>5
      <3>2. CASE k = M + 1
        <4>1. PICK S : S = {m \in 1..k : /\ admitted'[m][1] = admitted'[k][1]
                                         /\ admitted'[k][2] - admitted'[m][2] <= Hour}
          OBVIOUS
        <4>2. admitted'[k][1] = t /\ admitted'[k][2] = clock
          BY <2>2, <3>2
        <4>3. \A m \in S : m \in 1..(M + 1) /\ admitted'[m][1] = t /\ ~(clock - admitted'[m][2] > Hour)
          <5> SUFFICES ASSUME NEW m \in S
                       PROVE  m \in 1..(M + 1) /\ admitted'[m][1] = t /\ ~(clock - admitted'[m][2] > Hour)
            OBVIOUS
          <5>1. m \in 1..(M + 1) /\ admitted'[m][1] = t /\ clock - admitted'[m][2] <= Hour
            BY <3>2, <4>1, <4>2
          <5>2. admitted'[m] \in Tenants \X Nat
            BY <2>2, <5>1
          <5>3. admitted'[m][2] \in Nat /\ clock \in Nat /\ Hour \in Nat
            BY <1>4, <5>2, RunnerAssumption DEF RunnerAssumption
          <5> QED BY <5>1, <5>3
        <4>4. \A m \in S : \E j \in 1..(n + 1) : g[j] = m
          BY <2>8, <4>3
        <4>5. n + 1 \in Nat /\ DOMAIN g = 1..(n + 1) /\ g = [j \in 1..(n + 1) |-> g[j]]
          BY <2>6
        <4>6. Cardinality(S) <= n + 1
          BY <4>4, <4>5, ImageBound
        <4>7. IsFiniteSet(S) /\ Cardinality(S) \in Nat
          <5>1. IsFiniteSet(1..k)
            BY FS_Interval
          <5>2. S \in SUBSET (1..k)
            BY <4>1
          <5> QED BY <5>1, <5>2, FS_Subset, FS_CardinalityType
        <4>8. n + 1 <= PerHour /\ PerHour \in Nat
          BY <1>3, <1>6, RunnerAssumption DEF RunnerAssumption
        <4>9. Cardinality(S) <= PerHour
          BY <4>6, <4>7, <4>8
        <4> QED BY <4>1, <4>9
      <3> QED BY <3>1, <3>2
    <2>13. StartsCapped'
      BY <2>2, <2>12 DEF StartsCapped
    <2> QED BY <2>5, <2>11, <2>13 DEF LimitInv
  <1>7. \/ window' = [window EXCEPT ![t] = r] /\ UNCHANGED admitted
        \/ /\ ~(Len(r) >= PerHour)
           /\ window' = [window EXCEPT ![t] = Append(r, clock)]
           /\ admitted' = Append(admitted, <<t, clock>>)
    BY <1>3 DEF StartRun
  <1>8. ~(Len(r) >= PerHour) => Len(r) < PerHour
    BY <1>3, RunnerAssumption DEF RunnerAssumption
  <1> QED
    BY <1>5, <1>6, <1>7, <1>8

\* Nothing else starts runs or looks at the windows.
LEMMA LimitStep ==
    ASSUME [Next]_vars
    PROVE  \/ UNCHANGED <<window, clock, admitted>>
           \/ Tick \/ Restart
           \/ \E t \in Tenants, e \in Requests : StartRun(t, e)
  <1> DEFINE Same == UNCHANGED <<window, clock, admitted>>
  <1>1. ASSUME NEW i, ServerBegins(i) \/ ServerSettles(i) \/ ServerReports(i) PROVE Same
    BY <1>1 DEF ServerBegins, Begin, ServerSettles, Settle, ServerReports, Report
  <1>2. ASSUME NEW c \in Clients,
               \/ \E i \in listed : Runner(Connect(c, i))
               \/ Runner(Reconnect(c)) \/ Runner(SendEvent(c)) \/ Runner(EndStream(c)) \/ Runner(Deadline(c))
        PROVE  Same
    BY <1>2 DEF Runner, Connect, Reconnect, SendEvent, EndStream, Deadline
  <1>3. CASE BatchCell \/ BatchCrash \/ \E p \in Writers : Persisting(p)
    BY <1>3 DEF BatchCell, BatchCrash, Persisting, runnerVars
  <1>4. CASE UNCHANGED vars
    BY <1>4 DEF vars, runnerVars
  <1> QED
    BY <1>1, <1>2, <1>3, <1>4 DEF Next, Start, Runner, ServerCrash

\* In no hour has a tenant more starts than its limit, and no two runs are
\* unfinished at once.  (start_run.)
THEOREM AdmissionIsLimited == Spec => []AdmissionHolds
  <1>1. Init => LimitInv
    <2> SUFFICES ASSUME Init PROVE LimitInv
      OBVIOUS
    <2>1. /\ clock = 0 /\ admitted = <<>> /\ DOMAIN admitted = {}
          /\ window = [t \in Tenants |-> <<>>]
      BY DEF Init, RunnerInit
    <2>2. WindowsTyped /\ StartsCapped
      BY <2>1 DEF WindowsTyped, StartsCapped
    <2>3. ASSUME NEW t \in Tenants PROVE \E g \in [DOMAIN window[t] -> DOMAIN admitted] : Matches(t, g)
      <3>1. DOMAIN window[t] = {}
        BY <2>1
      <3>2. [j \in {} |-> j] \in [DOMAIN window[t] -> DOMAIN admitted]
        BY <2>1, <3>1
      <3>3. \A g : Matches(t, g)
        BY <2>1, <3>1 DEF Matches
      <3> QED BY <3>2, <3>3
    <2> QED BY <2>2, <2>3 DEF LimitInv, WindowsFaithful
  <1>2. LimitInv /\ [Next]_vars => LimitInv'
    <2> SUFFICES ASSUME LimitInv, [Next]_vars PROVE LimitInv'
      OBVIOUS
    <2>1. CASE UNCHANGED <<window, clock, admitted>>
      <3>1. WindowsTyped' /\ StartsCapped'
        BY <2>1 DEF LimitInv, WindowsTyped, StartsCapped
      <3>2. ASSUME NEW t \in Tenants, NEW g, Matches(t, g) PROVE Matches(t, g)'
        BY <2>1, <3>2 DEF Matches
      <3>3. WindowsFaithful'
        BY <2>1, <3>2 DEF LimitInv, WindowsFaithful
      <3> QED BY <3>1, <3>3 DEF LimitInv
    <2>2. CASE Tick
      <3>1. clock \in Nat /\ clock' = clock + 1 /\ UNCHANGED <<window, admitted>>
            /\ \A m \in DOMAIN admitted : admitted[m] \in Tenants \X Nat
        BY <2>2 DEF LimitInv, WindowsTyped, Tick
      <3>2. \A m \in DOMAIN admitted : clock - admitted[m][2] > Hour => clock' - admitted[m][2] > Hour
        BY <3>1, RunnerAssumption DEF RunnerAssumption
      <3>3. ASSUME NEW t \in Tenants, NEW g, Matches(t, g) PROVE Matches(t, g)'
        BY <3>1, <3>2, <3>3 DEF Matches
      <3>4. WindowsFaithful'
        BY <3>1, <3>3 DEF LimitInv, WindowsFaithful
      <3>5. WindowsTyped' /\ StartsCapped'
        BY <3>1 DEF LimitInv, WindowsTyped, StartsCapped
      <3> QED BY <3>4, <3>5 DEF LimitInv
    <2>3. CASE Restart
      <3>1. /\ clock' = clock /\ admitted' = <<>> /\ DOMAIN admitted' = {}
            /\ window' = [t \in Tenants |-> <<>>]
        BY <2>3 DEF Restart
      <3>2. WindowsTyped' /\ StartsCapped'
        BY <3>1 DEF LimitInv, WindowsTyped, StartsCapped
      <3>3. ASSUME NEW t \in Tenants
            PROVE  \E g \in [DOMAIN window'[t] -> DOMAIN admitted'] : Matches(t, g)'
        <4>1. DOMAIN window'[t] = {}
          BY <3>1
        <4>2. [j \in {} |-> j] \in [DOMAIN window'[t] -> DOMAIN admitted']
          BY <3>1, <4>1
        <4>3. \A g : Matches(t, g)'
          BY <3>1, <4>1 DEF Matches
        <4> QED BY <4>2, <4>3
      <3> QED BY <3>2, <3>3 DEF LimitInv, WindowsFaithful
    <2> QED
      BY <2>1, <2>2, <2>3, LimitStep, StartKeepsLimit
  <1>3. LimitInv /\ AdmissionInv => AdmissionHolds
    BY DEF LimitInv, AdmissionInv, AdmissionHolds
  <1> QED
    BY <1>1, <1>2, <1>3, LabAdmission, PTL DEF Spec

-----------------------------------------------------------------------------
(* The recorded runs.  Every step is a stutter, a crash, a reservation or a *)
(* step of a recording process, and the first part of the module has a lemma *)
(* for each.                                                                *)

\* A job that says done names a recorded run; one that says error names a run
\* that never is.
JobsTold ==
    \A i \in DOMAIN job :
        /\ job[i].status = "done" => job[i].result \in recorded
        /\ job[i].status = "error" => NeverRecorded(job[i].result[3])

LabInv == ArtifactsInv /\ RunNames /\ JobsTold

\* The kinds of step there are for the artifacts.
LEMMA LabStep ==
    ASSUME AdmissionInv, [Next]_vars
    PROVE  \/ UNCHANGED artifactVars
           \/ \E p \in Writers : Persist(p) \/ Crash(p)
           \/ \E p \in Writers : \E e \in Experiments : \E policy : Reserve(p, e, policy)
  <1> DEFINE Kinds3 == \/ UNCHANGED artifactVars
                       \/ \E p \in Writers : Persist(p) \/ Crash(p)
                       \/ \E p \in Writers : \E e \in Experiments : \E policy : Reserve(p, e, policy)
  <1> USE LabAssumption
  <1>1. ASSUME NEW t \in Tenants, NEW e \in Requests, Start(t, e) PROVE Kinds3
    BY <1>1 DEF Start
  <1>2. ASSUME NEW i \in DOMAIN job, ServerBegins(i) PROVE Kinds3
    <2>1. job[i].exp \in Experiments
      <3>1. PICK R : job \in Seq(Jobs(R))
        BY DEF AdmissionInv, JobsTyped
      <3>2. job[i] \in Jobs(R)
        BY <3>1
      <3> QED BY <3>2 DEF Jobs, LabAssumption
    <2> QED BY <1>2, <2>1 DEF ServerBegins, LabAssumption
  <1>3. ASSUME NEW i \in DOMAIN job, ServerSettles(i) \/ ServerReports(i) PROVE Kinds3
    BY <1>3 DEF ServerSettles, ServerReports
  <1>4. ASSUME NEW p \in Writers, Persisting(p) PROVE Kinds3
    BY <1>4 DEF Persisting
  <1>5. ASSUME NEW c \in Clients, NEW i \in listed, Runner(Connect(c, i)) PROVE Kinds3
    BY <1>5 DEF Runner
  <1>6. ASSUME NEW c \in Clients,
               Runner(Reconnect(c)) \/ Runner(SendEvent(c)) \/ Runner(EndStream(c)) \/ Runner(Deadline(c))
        PROVE  Kinds3
    BY <1>6 DEF Runner
  <1>7. CASE Runner(Tick)
    BY <1>7 DEF Runner
  <1>8. CASE BatchCell
    BY <1>8 DEF BatchCell, LabAssumption
  <1>9. CASE BatchCrash
    BY <1>9 DEF BatchCrash, LabAssumption
  <1>10. CASE ServerCrash
    BY <1>10 DEF ServerCrash, LabAssumption
  <1>11. CASE UNCHANGED vars
    BY <1>11 DEF vars
  <1> QED
    BY <1>1, <1>2, <1>3, <1>4, <1>5, <1>6, <1>7, <1>8, <1>9, <1>10, <1>11 DEF Next

LEMMA ArtifactsStep ==
    ASSUME AdmissionInv, ArtifactsInv, RunNames, [Next]_vars
    PROVE  /\ ArtifactsInv' /\ RunNames'
           /\ recorded \subseteq recorded'
           /\ \A run : NeverRecorded(run) => NeverRecorded(run)'
  <1>0. Shape
    BY DEF ArtifactsInv
  <1>1. CASE UNCHANGED artifactVars
    BY <1>1, ArtifactsUntouched, NamesUntouched
  <1>2. ASSUME NEW p \in Writers, Persist(p)
        PROVE  /\ ArtifactsInv' /\ RunNames'
               /\ recorded \subseteq recorded'
               /\ \A run : NeverRecorded(run) => NeverRecorded(run)'
    BY <1>0, <1>2, PersistKeeps, PersistNames
  <1>3. ASSUME NEW p \in Writers, Crash(p)
        PROVE  /\ ArtifactsInv' /\ RunNames'
               /\ recorded \subseteq recorded'
               /\ \A run : NeverRecorded(run) => NeverRecorded(run)'
    BY <1>0, <1>3, CrashKeeps, CrashNames
  <1>4. ASSUME NEW p \in Writers, NEW e \in Experiments, NEW policy, Reserve(p, e, policy)
        PROVE  /\ ArtifactsInv' /\ RunNames'
               /\ recorded \subseteq recorded'
               /\ \A run : NeverRecorded(run) => NeverRecorded(run)'
    BY <1>0, <1>4, ReserveKeeps, ReserveNames
  <1> QED
    BY <1>1, <1>2, <1>3, <1>4, LabStep

\* What a step may do to a job: nothing a client would notice, a status that
\* says nothing of the outcome, or the settlement with what the worker found.
LEMMA JobStep ==
    ASSUME AdmissionInv, [Next]_vars, NEW i \in DOMAIN job'
    PROVE  \/ job'[i].status \notin {"done", "error"}
           \/ /\ i \in DOMAIN job
              /\ job'[i].status = job[i].status /\ job'[i].result = job[i].result
           \/ LET w == writer["server"]
              IN  /\ ~Busy("server") /\ w.pc # "idle" /\ UNCHANGED artifactVars
                  /\ job'[i].status = Outcome(w.pc)
                  /\ job'[i].result = <<w.exp, w.version, w.run>>
  <1>0. PICK R : job \in Seq(Jobs(R))
    BY DEF AdmissionInv, JobsTyped
  <1>1. /\ Len(job) \in Nat /\ DOMAIN job = 1..Len(job) /\ job \in [1..Len(job) -> Jobs(R)]
        /\ \A k \in DOMAIN job : job[k] \in Jobs(R)
    BY <1>0
  <1>2. CASE UNCHANGED job
    BY <1>2
  <1>3. ASSUME NEW t \in Tenants, NEW e \in Requests, Start(t, e), ~UNCHANGED job
        PROVE  \/ job'[i].status = "queued"
               \/ i \in DOMAIN job /\ job'[i] = job[i]
    <2> DEFINE new == [tenant |-> t, exp |-> e, status |-> "queued", result |-> <<>>,
                       events |-> <<"queued">>]
    <2>1. job' = Append(job, new)
      BY <1>3 DEF Start, StartRun
    <2>2. new.status = "queued"
      OBVIOUS
    <2> HIDE DEF new
    <2>3. /\ DOMAIN job' = 1..(Len(job) + 1) /\ job'[Len(job) + 1] = new
          /\ \A k \in 1..Len(job) : job'[k] = job[k]
      BY <1>0, <2>1
    <2> QED BY <1>1, <2>2, <2>3
  <1>4. ASSUME NEW k \in DOMAIN job, NEW y, job' = [job EXCEPT ![k] = y]
        PROVE  i \in DOMAIN job /\ job'[i] = IF i = k THEN y ELSE job[i]
    BY <1>1, <1>4
  <1>5. ASSUME NEW k \in DOMAIN job, ServerBegins(k)
        PROVE  job'[i].status = "running" \/ (i \in DOMAIN job /\ job'[i] = job[i])
    <2> DEFINE y == [job[k] EXCEPT !.status = "running", !.events = Append(@, "started")]
    <2>1. job' = [job EXCEPT ![k] = y]
      BY <1>5 DEF ServerBegins, Begin
    <2>2. y.status = "running"
      BY <1>1 DEF Jobs
    <2> HIDE DEF y
    <2> QED BY <1>4, <2>1, <2>2
  <1>6. ASSUME NEW k \in DOMAIN job, ServerReports(k)
        PROVE  i \in DOMAIN job /\ job'[i].status = job[i].status /\ job'[i].result = job[i].result
    <2> DEFINE y == [job[k] EXCEPT !.events = Append(@, job[k].status)]
    <2>1. job' = [job EXCEPT ![k] = y]
      BY <1>6 DEF ServerReports, Report
    <2>2. y.status = job[k].status /\ y.result = job[k].result
      BY <1>1 DEF Jobs
    <2> HIDE DEF y
    <2> QED BY <1>4, <2>1, <2>2
  <1>7. ASSUME NEW k \in DOMAIN job, ServerSettles(k)
        PROVE  \/ i \in DOMAIN job /\ job'[i] = job[i]
               \/ LET w == writer["server"]
                  IN  /\ ~Busy("server") /\ w.pc # "idle" /\ UNCHANGED artifactVars
                      /\ job'[i].status = Outcome(w.pc)
                      /\ job'[i].result = <<w.exp, w.version, w.run>>
    <2> DEFINE w == writer["server"]
               y == [job[k] EXCEPT !.status = Outcome(w.pc), !.result = <<w.exp, w.version, w.run>>]
    <2>1. /\ job' = [job EXCEPT ![k] = y] /\ ~Busy("server") /\ w.pc # "idle" /\ UNCHANGED artifactVars
      BY <1>7 DEF ServerSettles, Settle
    <2>2. y.status = Outcome(w.pc) /\ y.result = <<w.exp, w.version, w.run>>
      BY <1>1 DEF Jobs
    <2> HIDE DEF y
    <2> QED BY <1>4, <2>1, <2>2
  <1>8. CASE ServerCrash
    <2>1. job' = <<>>
      BY <1>8 DEF ServerCrash, Restart
    <2> QED BY <2>1
  <1>9. ASSUME NEW c \in Clients,
               \/ \E k \in listed : Runner(Connect(c, k))
               \/ Runner(Reconnect(c)) \/ Runner(SendEvent(c)) \/ Runner(EndStream(c)) \/ Runner(Deadline(c))
        PROVE  UNCHANGED job
    BY <1>9 DEF Runner, Connect, Reconnect, SendEvent, EndStream, Deadline
  <1>10. CASE Runner(Tick) \/ BatchCell \/ BatchCrash \/ \E p \in Writers : Persisting(p)
    BY <1>2, <1>10 DEF Runner, Tick, BatchCell, BatchCrash, Persisting, runnerVars
  <1>11. CASE UNCHANGED vars
    BY <1>2, <1>11 DEF vars, runnerVars
  <1>12. CASE \E t \in Tenants, e \in Requests : Start(t, e)
    BY <1>2, <1>3, <1>12
  <1>13. CASE \E k \in DOMAIN job : ServerBegins(k) \/ ServerSettles(k) \/ ServerReports(k)
    BY <1>5, <1>6, <1>7, <1>13
  <1> QED
    BY <1>2, <1>8, <1>9, <1>10, <1>11, <1>12, <1>13 DEF Next

LEMMA JobsToldKept ==
    ASSUME AdmissionInv, LabInv, [Next]_vars
    PROVE  JobsTold'
  <1>1. /\ RunNames' /\ recorded \subseteq recorded' /\ Shape
        /\ \A run : NeverRecorded(run) => NeverRecorded(run)'
    BY ArtifactsStep DEF LabInv, ArtifactsInv
  <1> SUFFICES ASSUME NEW i \in DOMAIN job'
               PROVE  /\ job'[i].status = "done" => job'[i].result \in recorded'
                      /\ job'[i].status = "error" => NeverRecorded(job[i].result[3])'
    BY DEF JobsTold
  <1>2. CASE /\ i \in DOMAIN job
             /\ job'[i].status = job[i].status /\ job'[i].result = job[i].result
    <2>1. /\ job[i].status = "done" => job[i].result \in recorded
          /\ job[i].status = "error" => NeverRecorded(job[i].result[3])
      BY <1>2 DEF LabInv, JobsTold
    <2>2. \A run : run = job[i].result[3] /\ NeverRecorded(run) => NeverRecorded(job[i].result[3])'
      BY <1>1, <1>2
    <2> QED BY <1>1, <1>2, <2>1, <2>2
  <1>3. CASE /\ ~Busy("server") /\ writer["server"].pc # "idle" /\ UNCHANGED artifactVars
             /\ job'[i].status = Outcome(writer["server"].pc)
             /\ job'[i].result = <<writer["server"].exp, writer["server"].version, writer["server"].run>>
    <2> DEFINE w == writer["server"]
    <2>1. "server" \in Writers
      BY LabAssumption DEF LabAssumption
    <2>2. w.pc \in {"recorded", "failed"}
      BY <1>3 DEF Busy
    <2>3. CASE w.pc = "recorded"
      <3>1. <<w.exp, w.version, w.run>> \in recorded
        BY <2>1, <2>3 DEF LabInv, RunNames, At
      <3> QED BY <1>1, <1>3, <2>3, <3>1 DEF Outcome
    <2>4. CASE w.pc = "failed"
      <3>1. /\ \A p \in Writers : p # "server" /\ ~At(p, "idle") => writer[p].run # w.run
            /\ started["server"] > 0 /\ w.run = <<"server", started["server"]>>
            /\ \A r \in recorded : r[3] # w.run
        <4>1. \A p \in Writers : ~At(p, "idle") => started[p] > 0 /\ writer[p].run = <<p, started[p]>>
          BY DEF LabInv, RunNames
        <4>2. \A r \in recorded : r[3] # w.run
          BY <2>1, <2>4 DEF LabInv, RunNames, At
        <4> QED BY <2>1, <2>4, <4>1, <4>2 DEF At
      <3>2. Begun(w.run)
        <4>1. started["server"] \in 1..started["server"]
          BY <1>1, <2>1, <3>1 DEF Shape
        <4> QED BY <2>1, <3>1, <4>1 DEF Begun
      <3>3. \A p \in Writers : Busy(p) => writer[p].run # w.run
        BY <1>3, <3>1 DEF Busy, At
      <3>4. NeverRecorded(w.run)
        BY <3>1, <3>2, <3>3 DEF NeverRecorded
      <3>5. \A run : run = w.run => NeverRecorded(run)'
        BY <1>1, <3>4
      <3>6. job'[i].result[3] = w.run /\ job'[i].status = "error"
        BY <1>3, <2>4 DEF Outcome
      <3> QED BY <3>5, <3>6
    <2> QED BY <2>2, <2>3, <2>4
  <1>4. CASE job'[i].status \notin {"done", "error"}
    BY <1>4
  <1> QED
    BY <1>2, <1>3, <1>4, JobStep

\* The invariant of the lab.
THEOREM LabInvariant == Spec => []LabInv
  <1>1. Init => LabInv
    <2> SUFFICES ASSUME Init PROVE LabInv
      OBVIOUS
    <2>1. ArtifactsInv
      BY ArtifactsInitially DEF Init
    <2>2. RunNames
      <3>1. \A p \in Writers : At(p, "idle")
        BY DEF Init, ArtifactsInit, At, Idle
      <3>2. recorded = {}
        BY DEF Init, ArtifactsInit
      <3> QED BY <3>1, <3>2 DEF RunNames, Busy, At
    <2>3. JobsTold
      <3>1. DOMAIN job = {}
        BY DEF Init, RunnerInit
      <3> QED BY <3>1 DEF JobsTold
    <2> QED BY <2>1, <2>2, <2>3 DEF LabInv
  <1>2. AdmissionInv /\ LabInv /\ [Next]_vars => LabInv'
    BY ArtifactsStep, JobsToldKept DEF LabInv
  <1> QED
    BY <1>1, <1>2, LabAdmission, PTL DEF Spec

\* A run reported as recorded stays what it was, and the flat run of an older
\* version stays readable, whatever crashes and whoever else records, as long
\* as no two processes worked on the experiment at once.
THEOREM RecordedRunsSurvive == Spec => []RunsSurvive
  <1>1. LabInv => RunsSurvive
    BY InvariantRunsSurvive DEF LabInv
  <1> QED
    BY <1>1, LabInvariant, PTL

\* A call that fails on such an experiment failed in the cell, was refused, or
\* met what a crash left between the two files of a commit or of an adoption.
THEOREM FailuresHaveReasons == Spec => []FailuresExplained
  <1>1. LabInv => FailuresExplained
    BY InvariantFailuresExplained DEF LabInv
  <1> QED
    BY <1>1, LabInvariant, PTL

\* What a client is told of its job is what is on disk.
THEOREM OutcomesAreTrue == Spec => []DoneMeansRecorded
  <1>1. LabInv => DoneMeansRecorded
    <2> SUFFICES ASSUME LabInv, NEW i \in DOMAIN job
                 PROVE  LET r == job[i].result
                        IN  /\ job[i].status = "done" => r \in recorded
                            /\ job[i].status = "error" => r \notin recorded
                            /\ (job[i].status = "done" /\ r[1] \notin contended) =>
                                  Gap(r[1]) \/ Readable(r[1], r[2])
      BY DEF DoneMeansRecorded
    <2>1. /\ job[i].status = "done" => job[i].result \in recorded
          /\ job[i].status = "error" => NeverRecorded(job[i].result[3])
      BY DEF LabInv, JobsTold
    <2>2. job[i].status = "error" => job[i].result \notin recorded
      BY <2>1 DEF NeverRecorded
    <2>3. \A r \in recorded : r[1] \notin contended => Gap(r[1]) \/ Readable(r[1], r[2])
      BY InvariantRunsSurvive DEF LabInv, RunsSurvive
    <2> QED BY <2>1, <2>2, <2>3
  <1> QED
    BY <1>1, LabInvariant, PTL
=============================================================================
