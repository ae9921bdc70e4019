----------------------------- MODULE ExperimentLab -----------------------------
(***************************************************************************)
(* The HTTP server's live runs and a batch run of the whole matrix in      *)
(* another process (scripts/run_experiment_matrix.py) record into the same *)
(* directories.  The server's worker thread is the writer "server".        *)
(***************************************************************************)
EXTENDS ExperimentArtifacts, ExperimentsRunner

CONSTANTS
    Levels,             \* topology levels of the batch run, in order
    Completenesses,     \* completeness levels, in order; "1.0" is the full one
    Ablations,          \* in order
    RunAblations,
    RunSweep,
    Policies            \* values of --on-existing tried

VARIABLES
    batch       \* the batch run: how far it is, under which policy

vars == <<artifactVars, runnerVars, batch>>

-----------------------------------------------------------------------------
(* _run_full_matrix: the cells in their order.  An id names the level, the *)
(* completeness, the ablation and the variant of a cell.                   *)

Cell(level, completeness, ablation, variant) == <<level, completeness, ablation, variant>>

CellsOfLevel(level) ==
    [k \in DOMAIN Completenesses |-> Cell(level, Completenesses[k], "baseline", "default")]
    \o (IF RunAblations
        THEN [k \in DOMAIN Ablations |-> Cell(level, "1.0", Ablations[k], "default")]
        ELSE <<>>)
    \o (IF RunSweep
        THEN [k \in DOMAIN Completenesses |-> Cell(level, Completenesses[k], "baseline", "sweep")]
        ELSE <<>>)

MatrixPlan == FlattenSeq([k \in DOMAIN Levels |-> CellsOfLevel(Levels[k])])

\* Every cell, asked for live or planned, is one of the experiments.
ASSUME LabAssumption ==
    /\ {"server", "batch"} \subseteq Writers
    /\ Requests \subseteq Experiments
    /\ \A k \in DOMAIN MatrixPlan : MatrixPlan[k] \in Experiments

Init ==
    /\ ArtifactsInit
    /\ RunnerInit
    /\ batch \in [next : {1}, policy : Policies]

\* The batch goes on to the next cell when one is recorded; an exception ends it.
BatchCell ==
    /\ At("batch", "idle") \/ At("batch", "recorded")
    /\ batch.next \in DOMAIN MatrixPlan
    /\ Reserve("batch", MatrixPlan[batch.next], batch.policy)
    /\ batch' = [batch EXCEPT !.next = @ + 1]
    /\ UNCHANGED runnerVars

\* Killed, and called again by its user.
BatchCrash ==
    /\ Busy("batch")
    /\ Crash("batch")
    /\ batch' = [batch EXCEPT !.next = 1]
    /\ UNCHANGED runnerVars

ServerBegins(i) ==
    /\ Begin(i)
    /\ Reserve("server", job[i].exp, "version")
    /\ UNCHANGED batch

\* What the worker reports of the cell.
\* Mutant: exceptions of the cell are swallowed.
OutcomeDone(pc) == "done"

Outcome(pc) == IF pc = "recorded" THEN "done" ELSE "error"

ServerSettles(i) ==
    LET w == writer["server"]
    IN  /\ ~Busy("server") /\ w.pc # "idle"
        /\ Settle(i, Outcome(w.pc), <<w.exp, w.version, w.run>>)
        /\ UNCHANGED <<artifactVars, batch>>

ServerReports(i) == Report(i) /\ UNCHANGED <<artifactVars, batch>>

ServerCrash ==
    /\ job # <<>>
    /\ Crash("server")
    /\ Restart
    /\ UNCHANGED batch

Start(t, e) ==
    /\ started["server"] < MaxRuns
    /\ StartRun(t, e)
    /\ UNCHANGED <<artifactVars, batch>>

Runner(A) == A /\ UNCHANGED <<artifactVars, batch>>

Persisting(p) == Persist(p) /\ UNCHANGED <<runnerVars, batch>>

Next ==
    \/ \E t \in Tenants, e \in Requests : Start(t, e)
    \/ \E i \in DOMAIN job : ServerBegins(i) \/ ServerSettles(i) \/ ServerReports(i)
    \/ \E p \in Writers : Persisting(p)
    \/ \E c \in Clients, i \in listed : Runner(Connect(c, i))
    \/ \E c \in Clients :
          \/ Runner(Reconnect(c)) \/ Runner(SendEvent(c))
          \/ Runner(EndStream(c)) \/ Runner(Deadline(c))
    \/ Runner(Tick)
    \/ BatchCell \/ BatchCrash \/ ServerCrash

\* The worker threads run (a job has finitely many steps, so one condition does
\* for all of them), a stream is pumped, and a client that was not told comes
\* back; nothing obliges a batch run, a crash or a new request.
Fairness ==
    /\ WF_vars(\/ \E i \in DOMAIN job : ServerBegins(i) \/ ServerSettles(i) \/ ServerReports(i)
               \/ Persisting("server"))
    /\ \A c \in Clients :
          WF_vars(Runner(Reconnect(c)) \/ Runner(SendEvent(c)) \/ Runner(EndStream(c)))

Spec == Init /\ [][Next]_vars /\ Fairness

-----------------------------------------------------------------------------
\* A job that says done names a recorded run, one that says error does not, and
\* while no other process worked on the experiment the run can be read unless a
\* commit is under way or was cut.  (_work, run_and_persist_cell.)
DoneMeansRecorded ==
    \A i \in DOMAIN job :
        LET r == job[i].result
        IN  /\ job[i].status = "done" => r \in recorded
            /\ job[i].status = "error" => r \notin recorded
            /\ (job[i].status = "done" /\ r[1] \notin contended) =>
                  Gap(r[1]) \/ Readable(r[1], r[2])

\* A client that connects and comes back until it is told the outcome is told,
\* unless the server dies or the job leaves the table.  (stream_run_events.)
LearnsOutcome ==
    \A c \in Clients :
        stream[c].open ~> \/ stream[c].told
                          \/ stream[c] = NoStream
                          \/ stream[c].of \notin listed
=============================================================================
