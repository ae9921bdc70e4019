------------------------ MODULE ResilienceMonitoring ------------------------
(***************************************************************************)
(* The monitor daemon with the monitor it drives: the worker's call of     *)
(* evaluate(twin) runs the steps of ResilienceMonitor, on the topology of  *)
(* the twin it took from the mailbox, and an evaluation in which a sink    *)
(* raises is the daemon's evaluation that raises.  Notifying threads go on *)
(* meanwhile.                                                              *)
(***************************************************************************)
EXTENDS ResilienceMonitor, MonitorDaemon

CONSTANT Topology     \* the topology of each twin

ASSUME TopologyAssumption == Topology \in [Twins -> Graphs] /\ MayRaise = SinksMayRaise

vars == <<alertVars, daemonVars>>

Init == AlertsInit /\ DaemonInit

\* Everything of the daemon but the evaluation.
Outside ==
    /\ Start \/ Stop \/ (\E t \in Twins : Notify(t)) \/ Take \/ Exit \/ Finish \/ Tick
    /\ UNCHANGED alertVars

\* The worker calls evaluate.
BeginEvaluation == Begin /\ Evaluate(Topology[current])

\* A step inside evaluate; a sink that raises ends it for the daemon too.
EvaluationStep ==
    /\ JudgeFires \/ JudgeResolves \/ JudgeHolds \/ JudgePasses
       \/ CollectGone \/ \E k \in gone : RemoveGone(k)
    /\ \/ outcome' # "raised" /\ UNCHANGED daemonVars
       \/ outcome' = "raised" /\ EvaluateRaises

\* evaluate returns.
FinishEvaluation == EndEvaluation /\ EvaluateReturns

Next == Outside \/ BeginEvaluation \/ EvaluationStep \/ FinishEvaluation

Spec == Init /\ [][Next]_vars

\* The worker thread runs when it can, no rule or sink runs for ever, and time passes.
Working == \/ (Take \/ Exit \/ Finish) /\ UNCHANGED alertVars
           \/ BeginEvaluation \/ EvaluationStep \/ FinishEvaluation
Passing == Tick /\ UNCHANGED alertVars
FairSpec == Spec /\ WF_vars(Working) /\ WF_vars(Passing)

-----------------------------------------------------------------------------
\* Both parts in range, and the monitor at work exactly while the worker is
\* inside evaluate.
TypeOK == /\ AlertsTypeOK /\ DaemonTypeOK
          /\ worker = "evaluating" <=> pc # "idle"

\* When wait_idle returns True, no object was handed over twice and the latest
\* evaluation returned, the active alerts are the verdict on the topology of the
\* twin notified last.
IdleVerdict ==
    ~repeated /\ ~busy /\ pending = NoTwin /\ latest # NoTwin /\ outcome = "ok" =>
        graph = Topology[latest] /\ Verdict

\* min_interval spaces evaluations: one begins only so long after the one before
\* ended, unless that one raised.
EvaluationsSpaced ==
    [][BeginEvaluation => quiet = MinInterval \/ outcome = "raised"]_vars
=============================================================================
