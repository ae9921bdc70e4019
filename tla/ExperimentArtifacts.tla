-------------------------- MODULE ExperimentArtifacts --------------------------
(***************************************************************************)
(* The recorded runs of experiments (experiments/artifacts/io.py) and the  *)
(* processes that record them through run_and_persist_cell                 *)
(* (experiments/matrix_runner.py).  An experiment has a directory with a   *)
(* manifest, the manifest's hash sidecar and one directory per run version.*)
(* Every file is written whole (temporary file, os.replace), so a crash or *)
(* another process falls between two files, and that is where the steps    *)
(* are cut.                                                                *)
(*                                                                         *)
(* The content of a file is the run it comes from, a pair of the process   *)
(* and its number there, or LegacyRun for the flat files of older versions.*)
(* A manifest is the function from versions to runs; NoRuns is the file    *)
(* that does not exist.  A hash is known to match only what it was taken   *)
(* of, so the sidecar is the manifest it was written for.                  *)
(***************************************************************************)
EXTENDS Integers, FiniteSets, FiniteSetsExt, Functions

CONSTANTS
    Experiments,    \* experiment ids
    Legacy,         \* those with a flat run from before the numbered ones
    Writers,        \* processes that run cells
    MaxRuns,        \* cells each process may start: the bound of the model
    MaxCrashes

ASSUME ArtifactsAssumption ==
    Legacy \subseteq Experiments /\ MaxRuns \in Nat /\ MaxCrashes \in Nat

VARIABLES
    manifest,   \* manifest[e]
    sidecar,    \* sidecar[e]: the manifest whose hash the sidecar holds
    files,      \* files[e][v]: the run directories and what is in them
    captures,   \* captures[e][v]: the run that wrote that capture
    writer,     \* what each process is doing
    started,    \* cells each process has begun
    recorded,   \* every <<e, v, run>> reported as recorded
    contended,  \* experiments two processes worked on at the same time
    crashes

artifactVars == <<manifest, sidecar, files, captures, writer, started, recorded, contended, crashes>>
disk == <<manifest, sidecar, files>>
ghosts == <<recorded, contended>>

NoRuns    == [v \in {} |-> 0]
LegacyRun == <<"legacy", 1>>
Missing   == <<"missing", 0>>
FileNames == {"experiment", "metrics"}
EmptyDir  == [name \in FileNames |-> Missing]

\* fault is why a process failed; the rest are the locals of run_and_persist_cell.
Idle == [pc |-> "idle", exp |-> <<>>, version |-> 0, policy |-> "version",
         known |-> NoRuns, run |-> Missing, fault |-> "none"]

ArtifactsInit ==
    /\ manifest = [e \in Experiments |-> NoRuns]
    /\ sidecar = [e \in Experiments |-> NoRuns]
    /\ files = [e \in Experiments |-> NoRuns]
    /\ captures = [e \in Experiments |-> NoRuns]
    /\ writer = [p \in Writers |-> Idle]
    /\ started = [p \in Writers |-> 0]
    /\ recorded = {}
    /\ contended = {}
    /\ crashes = 0

Put(f, v, x) == [w \in DOMAIN f \cup {v} |-> IF w = v THEN x ELSE f[w]]

At(p, pc) == writer[p].pc = pc

Goto(p, pc) == writer' = [writer EXCEPT ![p].pc = pc]

Fail(p, fault) ==
    /\ writer' = [writer EXCEPT ![p].pc = "failed", ![p].fault = fault]
    /\ UNCHANGED disk

\* read_ground_truth refuses a manifest its sidecar does not match.
Unverified(e) == manifest[e] # sidecar[e]

Existing(e) ==
    IF manifest[e] # NoRuns THEN Max(DOMAIN manifest[e])
    ELSE IF e \in Legacy THEN 1 ELSE 0

\* The run directory's file, its parents made again if they are gone.
WithFile(dirs, v, name, run) ==
    Put(dirs, v, [(IF v \in DOMAIN dirs THEN dirs[v] ELSE EmptyDir) EXCEPT ![name] = run])

Busy(p) == writer[p].pc \notin {"idle", "recorded", "failed"}

-----------------------------------------------------------------------------
(* run_and_persist_cell, from the reservation of a version to the manifest.*)

\* next_experiment_version, before the cell runs.
Reserve(p, e, policy) ==
    /\ ~Busy(p)
    /\ started[p] < MaxRuns
    /\ started' = [started EXCEPT ![p] = @ + 1]
    /\ contended' = IF \E q \in Writers \ {p} : Busy(q) /\ writer[q].exp = e
                    THEN contended \cup {e} ELSE contended
    /\ LET start == [Idle EXCEPT !.exp = e, !.policy = policy, !.run = <<p, started[p] + 1>>]
       IN  writer' = [writer EXCEPT ![p] =
              IF Unverified(e) THEN [start EXCEPT !.pc = "failed", !.fault = "integrity"]
              ELSE IF policy = "refuse" /\ Existing(e) > 0
              THEN [start EXCEPT !.pc = "failed", !.fault = "refused"]
              ELSE [start EXCEPT !.pc = "reserved", !.version = Existing(e) + 1]]
    /\ UNCHANGED <<disk, captures, recorded, crashes>>

\* run_matrix_cell writes its capture under the reserved version's own id.
RunCell(p) ==
    LET w == writer[p]
    IN  /\ At(p, "reserved")
        /\ captures' = [captures EXCEPT ![w.exp] = Put(@, w.version, w.run)]
        /\ \/ Goto(p, "ran") /\ UNCHANGED disk
           \/ Fail(p, "cell")
        /\ UNCHANGED <<started, ghosts, crashes>>

\* The manifest is read again; a legacy run without one is adopted as version 1.
OpenManifest(p) ==
    LET e == writer[p].exp
    IN  /\ At(p, "ran")
        /\ \/ Unverified(e) /\ Fail(p, "integrity")
           \/ /\ ~Unverified(e)
              /\ manifest[e] # NoRuns \/ e \notin Legacy
              /\ writer' = [writer EXCEPT ![p].pc = "opened", ![p].known = manifest[e]]
              /\ UNCHANGED disk
           \/ /\ ~Unverified(e)
              /\ manifest[e] = NoRuns /\ e \in Legacy
              /\ \/ 1 \in DOMAIN files[e] /\ Fail(p, "adoption")
                 \/ /\ 1 \notin DOMAIN files[e]
                    /\ files' = [files EXCEPT ![e] = Put(@, 1, EmptyDir)]
                    /\ Goto(p, "adopting")
                    /\ UNCHANGED <<manifest, sidecar>>
        /\ UNCHANGED <<captures, started, ghosts, crashes>>

\* _adopt_legacy_run copies the two flat files into v1.
AdoptFile(p) ==
    LET e == writer[p].exp
    IN  /\ \/ /\ At(p, "adopting")
              /\ files' = [files EXCEPT ![e] = WithFile(@, 1, "experiment", LegacyRun)]
              /\ Goto(p, "adopting_metrics")
           \/ /\ At(p, "adopting_metrics")
              /\ files' = [files EXCEPT ![e] = WithFile(@, 1, "metrics", LegacyRun)]
              /\ writer' = [writer EXCEPT ![p].pc = "opened", ![p].known = Put(NoRuns, 1, LegacyRun)]
        /\ UNCHANGED <<manifest, sidecar, captures, started, ghosts, crashes>>

\* A directory the manifest does not know is the orphan of an interrupted run.
\* Mutant: it is kept, and the call fails on it.
SweepNothing(p) ==
    LET w == writer[p]
    IN  /\ At(p, "opened")
        /\ \/ w.version \in DOMAIN w.known \cup DOMAIN files[w.exp] /\ Fail(p, "exists")
           \/ /\ w.version \notin DOMAIN w.known \cup DOMAIN files[w.exp]
              /\ Goto(p, "swept")
              /\ UNCHANGED disk
        /\ UNCHANGED <<captures, started, ghosts, crashes>>

Sweep(p) ==
    LET w == writer[p]
    IN  /\ At(p, "opened")
        /\ \/ w.version \in DOMAIN w.known /\ Fail(p, "exists")
           \/ /\ w.version \notin DOMAIN w.known
              /\ files' = [files EXCEPT ![w.exp] = Restrict(@, DOMAIN @ \ {w.version})]
              /\ Goto(p, "swept")
              /\ UNCHANGED <<manifest, sidecar>>
        /\ UNCHANGED <<captures, started, ghosts, crashes>>

\* mkdir(exist_ok=False)
MakeDir(p) ==
    LET w == writer[p]
    IN  /\ At(p, "swept")
        /\ \/ w.version \in DOMAIN files[w.exp] /\ Fail(p, "exists")
           \/ /\ w.version \notin DOMAIN files[w.exp]
              /\ files' = [files EXCEPT ![w.exp] = Put(@, w.version, EmptyDir)]
              /\ Goto(p, "made")
              /\ UNCHANGED <<manifest, sidecar>>
        /\ UNCHANGED <<captures, started, ghosts, crashes>>

WriteFile(p) ==
    LET w == writer[p]
    IN  /\ \/ /\ At(p, "made")
              /\ files' = [files EXCEPT ![w.exp] = WithFile(@, w.version, "experiment", w.run)]
              /\ Goto(p, "half")
           \/ /\ At(p, "half")
              /\ files' = [files EXCEPT ![w.exp] = WithFile(@, w.version, "metrics", w.run)]
              /\ Goto(p, "written")
        /\ UNCHANGED <<manifest, sidecar, captures, started, ghosts, crashes>>

\* Mutant: the manifest is started anew.
ExtendedForgetful(w) == Put(NoRuns, w.version, w.run)

Extended(w) == Put(w.known, w.version, w.run)

\* The commit point, and the hash that makes it readable.
WriteManifest(p) ==
    LET w == writer[p]
    IN  /\ At(p, "written")
        /\ manifest' = [manifest EXCEPT ![w.exp] = Extended(w)]
        /\ Goto(p, "committing")
        /\ UNCHANGED <<sidecar, files, captures, started, ghosts, crashes>>

WriteSidecar(p) ==
    LET w == writer[p]
    IN  /\ At(p, "committing")
        /\ sidecar' = [sidecar EXCEPT ![w.exp] = Extended(w)]
        /\ Goto(p, "recorded")
        /\ recorded' = recorded \cup {<<w.exp, w.version, w.run>>}
        /\ UNCHANGED <<manifest, files, captures, started, contended, crashes>>

\* What a process has in memory is gone; the files stay as they are.
Crash(p) ==
    /\ crashes < MaxCrashes
    /\ writer' = [writer EXCEPT ![p] = Idle]
    /\ crashes' = crashes + 1
    /\ UNCHANGED <<disk, captures, started, ghosts>>

Persist(p) ==
    \/ RunCell(p) \/ OpenManifest(p) \/ AdoptFile(p) \/ Sweep(p)
    \/ MakeDir(p) \/ WriteFile(p) \/ WriteManifest(p) \/ WriteSidecar(p)

-----------------------------------------------------------------------------
(* read_experiment_run of one recorded version.                            *)

Readable(e, v) ==
    IF manifest[e] = NoRuns THEN e \in Legacy /\ v = 1
    ELSE /\ ~Unverified(e)
         /\ v \in DOMAIN manifest[e]
         /\ v \in DOMAIN files[e]
         /\ \A name \in FileNames : files[e][v][name] = manifest[e][v]

\* The ways an experiment becomes unusable: a manifest without its hash, and a
\* legacy run copied but in no manifest.
Gap(e) == Unverified(e)

HalfAdopted(e) == e \in Legacy /\ manifest[e] = NoRuns /\ 1 \in DOMAIN files[e]

\* A run reported as recorded, of an experiment only one process at a time
\* worked on, stays what it was: record, metrics and capture; and the flat run
\* of an older version stays readable, as version 1 once it is adopted.  Only
\* the two files of a commit may be out of step.  (write_experiment_run,
\* persist_cell, _adopt_legacy_run.)
RunsSurvive ==
    /\ \A r \in recorded :
          r[1] \notin contended =>
              /\ r[2] \in DOMAIN manifest[r[1]] /\ manifest[r[1]][r[2]] = r[3]
              /\ captures[r[1]][r[2]] = r[3]
              /\ Gap(r[1]) \/ Readable(r[1], r[2])
    /\ \A e \in Legacy \ contended : Gap(e) \/ Readable(e, 1)

\* A crash does not keep the next call from succeeding, unless it fell between
\* the manifest and its hash or between the copy of a legacy run and the
\* manifest.  (The orphan sweep of write_experiment_run.)
FailuresExplained ==
    \A p \in Writers :
        LET w == writer[p]
        IN  (At(p, "failed") /\ w.exp \notin contended) =>
                \/ w.fault = "cell"
                \/ w.fault = "refused" /\ w.policy = "refuse" /\ Existing(w.exp) > 0
                \/ w.fault = "integrity" /\ Gap(w.exp) /\ crashes > 0
                \/ w.fault = "adoption" /\ HalfAdopted(w.exp) /\ crashes > 0

\* "Earlier runs are never overwritten."
EarlierRunsKept ==
    \A r \in recorded : r[2] \in DOMAIN manifest[r[1]] /\ manifest[r[1]][r[2]] = r[3]
=============================================================================
