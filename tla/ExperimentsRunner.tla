--------------------------- MODULE ExperimentsRunner ---------------------------
(***************************************************************************)
(* Live runs over HTTP: admission and the job table of                     *)
(* app/experiments_runner.py and the event streams of                      *)
(* api/routes/experiments.py.  The worker thread's cell is recorded by     *)
(* ExperimentArtifacts; ExperimentLab puts the two together.               *)
(*                                                                         *)
(* A job object lives as long as a stream or the worker holds it; the      *)
(* table _jobs is the set "listed" of job numbers, in order of admission.  *)
(* The time of a request is read just before the lock that orders the      *)
(* requests; the two are one step.                                         *)
(***************************************************************************)
EXTENDS Integers, Sequences, FiniteSets, SequencesExt

CONSTANTS
    Tenants,
    Requests,   \* the cells validate_request lets through
    Clients,    \* readers of event streams
    PerHour,    \* experiment_runs_per_hour
    Hour,       \* 3600 s in ticks
    TableSize,  \* MAX_JOBS
    MaxTime     \* ticks of a behaviour: a bound of the model

ASSUME RunnerAssumption ==
    /\ PerHour \in Nat \ {0} /\ Hour \in Nat \ {0} /\ TableSize \in Nat \ {0}
    /\ MaxTime \in Nat

VARIABLES
    job,        \* job[i]: every job admitted since the process started
    listed,     \* the jobs in the table
    window,     \* window[t]: times of the tenant's recent starts
    clock,
    admitted,   \* every start of the process as <<tenant, time>>, in order
    stream      \* stream[c]: a client's connection

runnerVars == <<job, listed, window, clock, admitted, stream>>

Active(i)   == job[i].status \in {"queued", "running"}
Finished(i) == job[i].status \in {"done", "error"}
Final       == {"done", "error"}

NoStream == [of |-> 0, sent |-> 0, open |-> FALSE, told |-> FALSE]

RunnerInit ==
    /\ job = <<>>
    /\ listed = {}
    /\ window = [t \in Tenants |-> <<>>]
    /\ clock = 0
    /\ admitted = <<>>
    /\ stream = [c \in Clients |-> NoStream]

-----------------------------------------------------------------------------
(* start_run.                                                              *)

\* Another run is queued or running.
\* Mutant: a queued one does not count.
InProgressRunning == \E i \in listed : job[i].status = "running"

InProgress == \E i \in listed : Active(i)

\* The deque loses its old heads.
Recent(w) ==
    LET old == {k \in DOMAIN w : \A m \in 1..k : clock - w[m] > Hour}
    IN  SubSeq(w, Cardinality(old) + 1, Len(w))

\* Above MAX_JOBS the oldest finished jobs go, as long as there are any.
Evicted(jobs, table) ==
    LET finished == {i \in table : jobs[i].status \in Final}
        Age(i)   == Cardinality({k \in finished : k <= i})
    IN  table \ {i \in finished : Age(i) <= Cardinality(table) - TableSize}

\* A request while one is in progress is refused and leaves nothing behind.
StartRun(t, e) ==
    LET recent == Recent(window[t])
        new    == [tenant |-> t, exp |-> e, status |-> "queued", result |-> <<>>,
                   events |-> <<"queued">>]
    IN  /\ ~InProgress
        /\ IF Len(recent) >= PerHour
           THEN /\ window' = [window EXCEPT ![t] = recent]
                /\ UNCHANGED <<job, listed, admitted>>
           ELSE /\ window' = [window EXCEPT ![t] = Append(recent, clock)]
                /\ job' = Append(job, new)
                /\ listed' = Evicted(job', listed \cup {Len(job')})
                /\ admitted' = Append(admitted, <<t, clock>>)
        /\ UNCHANGED <<clock, stream>>

-----------------------------------------------------------------------------
(* _work, around the cell.                                                 *)

Begin(i) ==
    /\ i \in DOMAIN job
    /\ job[i].status = "queued"
    /\ job' = [job EXCEPT ![i].status = "running", ![i].events = Append(@, "started")]
    /\ UNCHANGED <<listed, window, clock, admitted, stream>>

\* The status is set first, the event appended afterwards.
Settle(i, status, result) ==
    /\ i \in DOMAIN job
    /\ job[i].status = "running"
    /\ job' = [job EXCEPT ![i].status = status, ![i].result = result]
    /\ UNCHANGED <<listed, window, clock, admitted, stream>>

Report(i) ==
    /\ i \in DOMAIN job
    /\ Finished(i) /\ Last(job[i].events) \notin Final
    /\ job' = [job EXCEPT ![i].events = Append(@, job[i].status)]
    /\ UNCHANGED <<listed, window, clock, admitted, stream>>

-----------------------------------------------------------------------------
(* stream_run_events.                                                      *)

\* The first event a new connection gets: from the start, or after the last
\* event the client names.  Events are counted from 0 in ids, sent is a count.
\* Mutant: with what comes from now on.
ResumeFromNow(sent, events) == Len(events)

ResumeFrom(sent, events) == sent

Connect(c, i) ==
    /\ stream[c] = NoStream
    /\ i \in listed
    /\ stream' = [stream EXCEPT ![c] = [NoStream EXCEPT !.of = i, !.open = TRUE]]
    /\ UNCHANGED <<job, listed, window, clock, admitted>>

\* A client that was not told the outcome comes back with its Last-Event-ID.
Reconnect(c) ==
    /\ stream[c].of # 0 /\ ~stream[c].open /\ ~stream[c].told
    /\ stream[c].of \in listed
    /\ stream' = [stream EXCEPT ![c].open = TRUE, ![c].sent = ResumeFrom(@, job[stream[c].of].events)]
    /\ UNCHANGED <<job, listed, window, clock, admitted>>

SendEvent(c) ==
    LET s == stream[c]
    IN  /\ s.open /\ s.sent < Len(job[s.of].events)
        /\ stream' = [stream EXCEPT ![c].sent = @ + 1,
                                    ![c].told = @ \/ job[s.of].events[s.sent + 1] \in Final]
        /\ UNCHANGED <<job, listed, window, clock, admitted>>

\* The generator returns: the job is over, or the half hour is; both are looked
\* at only when everything so far is sent.
EndStream(c) ==
    LET s == stream[c]
    IN  /\ s.open /\ s.sent >= Len(job[s.of].events) /\ Finished(s.of)
        /\ stream' = [stream EXCEPT ![c].open = FALSE]
        /\ UNCHANGED <<job, listed, window, clock, admitted>>

Deadline(c) ==
    LET s == stream[c]
    IN  /\ s.open /\ s.sent >= Len(job[s.of].events) /\ ~Finished(s.of)
        /\ stream' = [stream EXCEPT ![c].open = FALSE]
        /\ UNCHANGED <<job, listed, window, clock, admitted>>

\* Only start_run reads the clock, and it refuses while a run is in progress:
\* time may as well pass when none is.
Tick ==
    /\ clock < MaxTime
    /\ ~InProgress
    /\ clock' = clock + 1
    /\ UNCHANGED <<job, listed, window, admitted, stream>>

\* The process dies: jobs, limits and connections are in its memory only.
Restart ==
    /\ job' = <<>>
    /\ listed' = {}
    /\ window' = [t \in Tenants |-> <<>>]
    /\ admitted' = <<>>
    /\ stream' = [c \in Clients |-> NoStream]
    /\ UNCHANGED clock

-----------------------------------------------------------------------------
\* One run at a time in a process, and in no hour more starts of a tenant than
\* its limit.  (start_run.)
OneAtATime == \A i, k \in DOMAIN job : Active(i) /\ Active(k) => i = k

StartsCapped ==
    \A k \in DOMAIN admitted :
        Cardinality({m \in 1..k : /\ admitted[m][1] = admitted[k][1]
                                  /\ admitted[k][2] - admitted[m][2] <= Hour}) <= PerHour

AdmissionHolds == OneAtATime /\ StartsCapped
=============================================================================
