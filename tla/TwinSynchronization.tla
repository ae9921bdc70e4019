------------------------ MODULE TwinSynchronization ------------------------
(* The daemon with its rate limiter (backend/digital_twin/daemon.py).  The  *)
(* worker passes acquire() between taking a batch and syncing it, alone and *)
(* holding nothing another thread waits for, so the two share no state and  *)
(* a behaviour follows one of them, chosen at the start.                    *)
EXTENDS TwinSyncDaemon, TokenBucket

VARIABLE part

allVars == <<part, vars, bucketVars>>

DaemonStep == part = "daemon" /\ Next /\ UNCHANGED <<part, bucketVars>>

LimiterStep == part = "limiter" /\ BucketNext /\ UNCHANGED <<part, vars>>

Both == part \in {"daemon", "limiter"} /\ Init /\ BucketInit

\* The fairness of each, while a behaviour follows it.
PartFairness ==
    /\ WF_vars(part = "daemon" /\ Worker)
    /\ WF_vars(part = "daemon" /\ Stopping)
    /\ \A p \in Producers :
        WF_vars(part = "daemon" /\ (Put(p) \/ Full(p) \/ ReturnRefused(p) \/ ReturnAccepted(p)))
    /\ WF_bucketVars(part = "limiter" /\ (Grant \/ Wait \/ Wake))
    /\ WF_bucketVars(part = "limiter" /\ Tick)

Synchronization == Both /\ [][DaemonStep \/ LimiterStep]_allVars /\ PartFairness
=============================================================================
