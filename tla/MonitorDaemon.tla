--------------------------- MODULE MonitorDaemon ---------------------------
(***************************************************************************)
(* ResilienceMonitorDaemon of backend/simulation/resilience_monitor.py: a  *)
(* one-place mailbox in which the latest twin wins, and a worker thread    *)
(* that evaluates what it finds there, at least MinInterval after its last *)
(* evaluation.  Any thread may call notify; the condition variable makes   *)
(* each of its critical sections one action.  What evaluate does is        *)
(* ResilienceMonitor's; here it returns or raises.                         *)
(*                                                                         *)
(* Twins are compared as objects ("is").  Time is a clock of ticks; only   *)
(* how long ago things happened matters, up to MinInterval.                *)
(***************************************************************************)
EXTENDS Naturals, FiniteSets

CONSTANTS Twins,         \* the twin objects
          NoTwin,        \* None
          MinInterval,   \* min_interval, in ticks
          MayRaise,      \* evaluate may raise (a sink, a malformed rule)
          MaxNotifies    \* bound of the model: how many notify calls a run makes

ASSUME MonitorDaemonAssumption ==
    /\ NoTwin \notin Twins
    /\ MinInterval \in Nat /\ MaxNotifies \in Nat
    /\ MayRaise \in BOOLEAN

VARIABLES pending,      \* _pending
          last,         \* _last
          current,      \* the twin the worker holds; _busy is current # NoTwin
          stopping,     \* _stop
          worker,       \* where the worker is: none, waiting, spacing, evaluating, finishing, exited
          since,        \* ticks since last_at, at most MinInterval
          superseded,   \* skipped_superseded
          unchanged,    \* skipped_unchanged
          errors,       \* how many evaluations raised
          returned,     \* how many evaluations returned
          calls,        \* how many notify calls were made
          handed,       \* the twins handed over so far
          repeated,     \* whether some object was handed over twice
          latest,       \* the twin of the latest notify
          quiet         \* ticks since an evaluation ended in any way, at most MinInterval

daemonVars == <<pending, last, current, stopping, worker, since, superseded, unchanged,
          errors, returned, calls, handed, repeated, latest, quiet>>
accounts == <<superseded, unchanged, calls, handed, repeated, latest>>

DaemonInit ==
    /\ pending = NoTwin /\ last = NoTwin /\ current = NoTwin
    /\ stopping = FALSE /\ worker = "none" /\ since = MinInterval
    /\ superseded = 0 /\ unchanged = 0 /\ errors = 0 /\ returned = 0
    /\ calls = 0 /\ handed = {} /\ repeated = FALSE /\ latest = NoTwin
    /\ quiet = MinInterval

busy == current # NoTwin
Count(b) == IF b THEN 1 ELSE 0

-----------------------------------------------------------------------------
\* start(): once.
Start == /\ worker = "none"
         /\ worker' = "waiting"
         /\ UNCHANGED <<pending, last, current, stopping, since, errors, returned, quiet, accounts>>

Handing(t) == /\ calls < MaxNotifies
              /\ repeated' = (repeated \/ t \in handed)
              /\ calls' = calls + 1 /\ handed' = handed \cup {t} /\ latest' = t

\* notify(twin) with the twin just evaluated and nothing waiting: nothing to do.
NotifyUnchanged(t) ==
    /\ Handing(t)
    /\ t = last /\ pending = NoTwin
    /\ unchanged' = unchanged + 1
    /\ UNCHANGED <<pending, last, current, stopping, worker, since, superseded,
                   errors, returned, quiet>>

\* Mistaken form of NotifyPends: a twin that is replaced is not counted.
NotifyPendsUncounted(t) ==
    /\ Handing(t)
    /\ ~(t = last /\ pending = NoTwin)
    /\ pending' = t
    /\ UNCHANGED <<last, current, stopping, worker, since, superseded, unchanged,
                   errors, returned, quiet>>

\* Mistaken form of NotifyPends: the twin that waits already is kept.
NotifyKeepsOld(t) ==
    /\ Handing(t)
    /\ ~(t = last /\ pending = NoTwin)
    /\ superseded' = superseded + Count(pending # NoTwin)
    /\ pending' = IF pending = NoTwin THEN t ELSE pending
    /\ UNCHANGED <<last, current, stopping, worker, since, unchanged,
                   errors, returned, quiet>>

\* notify(twin): it takes the place of the one that waits.
NotifyPends(t) ==
    /\ Handing(t)
    /\ ~(t = last /\ pending = NoTwin)
    /\ superseded' = superseded + Count(pending # NoTwin)
    /\ pending' = t
    /\ UNCHANGED <<last, current, stopping, worker, since, unchanged,
                   errors, returned, quiet>>

Notify(t) == NotifyUnchanged(t) \/ NotifyPends(t)

\* stop() sets the flag; its join ends when the worker has exited (or after 30 s).
Stop == /\ ~stopping
        /\ stopping' = TRUE
        /\ UNCHANGED <<pending, last, current, worker, since, errors, returned, quiet, accounts>>

-----------------------------------------------------------------------------
\* The worker empties the mailbox, stop or not.
Take == /\ worker = "waiting" /\ pending # NoTwin
        /\ current' = pending /\ pending' = NoTwin
        /\ worker' = "spacing"
        /\ UNCHANGED <<last, stopping, since, errors, returned, quiet, accounts>>

\* Mistaken form of Exit: the wait for a twin does not end with stop.
ExitWithTwin ==
    /\ worker = "waiting" /\ pending # NoTwin /\ stopping
    /\ worker' = "exited"
    /\ UNCHANGED <<pending, last, current, stopping, since, errors, returned, quiet, accounts>>

\* Nothing waits and stop was called: the thread ends.
Exit == /\ worker = "waiting" /\ pending = NoTwin /\ stopping
        /\ worker' = "exited"
        /\ UNCHANGED <<pending, last, current, stopping, since, errors, returned, quiet, accounts>>

\* Mistaken form of Begin: no sleep.
BeginAtOnce ==
    /\ worker = "spacing"
    /\ worker' = "evaluating"
    /\ UNCHANGED <<pending, last, current, stopping, since, errors, returned, quiet,
                   accounts>>

\* The worker has slept until MinInterval passed since last_at and calls evaluate.
Begin == /\ worker = "spacing" /\ since = MinInterval
         /\ worker' = "evaluating"
              /\ UNCHANGED <<pending, last, current, stopping, since, errors, returned,
                        quiet, accounts>>

\* evaluate returns; last_at is now.
EvaluateReturns ==
    /\ worker = "evaluating"
    /\ worker' = "finishing"
    /\ since' = 0 /\ quiet' = 0 /\ returned' = returned + 1
    /\ UNCHANGED <<pending, last, current, stopping, errors, accounts>>

\* Mistaken form of EvaluateRaises: the exception is not caught.
EvaluateKills ==
    /\ MayRaise /\ worker = "evaluating"
    /\ worker' = "exited"
    /\ quiet' = 0 /\ errors' = errors + 1
    /\ UNCHANGED <<pending, last, current, stopping, since, returned, accounts>>

\* evaluate raises: the error is recorded, last_at stays what it was.
EvaluateRaises ==
    /\ MayRaise /\ worker = "evaluating"
    /\ worker' = "finishing"
    /\ quiet' = 0 /\ errors' = errors + 1
    /\ UNCHANGED <<pending, last, current, stopping, since, returned, accounts>>

\* Mistaken form of Finish: the mailbox is emptied at the end, not at the start.
FinishEmpties ==
    /\ worker = "finishing"
    /\ last' = current /\ current' = NoTwin /\ pending' = NoTwin
    /\ worker' = "waiting"
    /\ UNCHANGED <<stopping, since, errors, returned, quiet, accounts>>

\* Either way the twin counts as evaluated and waiters are told.
Finish == /\ worker = "finishing"
          /\ last' = current /\ current' = NoTwin
          /\ worker' = "waiting"
          /\ UNCHANGED <<pending, stopping, since, errors, returned, quiet, accounts>>

\* The clock.
Tick == /\ since < MinInterval \/ quiet < MinInterval
        /\ since' = IF since < MinInterval THEN since + 1 ELSE since
        /\ quiet' = IF quiet < MinInterval THEN quiet + 1 ELSE quiet
        /\ UNCHANGED <<pending, last, current, stopping, worker, errors, returned, accounts>>

Worker == Take \/ Exit \/ Begin \/ EvaluateReturns \/ EvaluateRaises \/ Finish

DaemonNext == Start \/ Stop \/ (\E t \in Twins : Notify(t)) \/ Worker \/ Tick

DaemonSpec == DaemonInit /\ [][DaemonNext]_daemonVars

-----------------------------------------------------------------------------
\* The state in range; the worker holds a twin exactly while it works on one.
DaemonTypeOK ==
    /\ pending \in Twins \cup {NoTwin} /\ last \in Twins \cup {NoTwin}
    /\ current \in Twins \cup {NoTwin} /\ latest \in Twins \cup {NoTwin}
    /\ stopping \in BOOLEAN
    /\ worker \in {"none", "waiting", "spacing", "evaluating", "finishing", "exited"}
    /\ busy <=> worker \in {"spacing", "evaluating", "finishing"}
    /\ since \in 0..MinInterval /\ quiet \in 0..MinInterval
    /\ superseded \in Nat /\ unchanged \in Nat /\ errors \in Nat /\ returned \in Nat
    /\ calls \in 0..MaxNotifies /\ handed \subseteq Twins
    /\ repeated \in BOOLEAN

\* No notification is lost or counted twice: each was evaluated, failed, was
\* superseded or unchanged, waits in the mailbox, or is with the worker.
NotifiesAccounted ==
    calls = returned + errors + superseded + unchanged + Count(pending # NoTwin)
            + Count(worker \in {"spacing", "evaluating"})

\* When wait_idle returns True the monitor has evaluated the latest twin handed to
\* notify ("evaluates the most recent twin handed to `notify`").
IdleMeansLatest == ~busy /\ pending = NoTwin => last = latest

\* It has when no object was handed over twice, as the sync daemon's callback does,
\* which makes a new twin for each sync.
FreshIdleMeansLatest == ~repeated => IdleMeansLatest

\* A twin that waits is taken once the daemon is started, whatever fails, and a
\* stop leaves it its turn.
PendingIsTaken == pending # NoTwin /\ worker \notin {"none", "exited"} ~> pending = NoTwin

\* A stop ends the worker, with a twin waiting or in the middle of an evaluation.
StopEndsWorker == stopping /\ worker # "none" ~> worker = "exited"

\* The worker serves what it is given, whatever an evaluation does, until it is
\* stopped and has nothing left.
WorkerServes == PendingIsTaken /\ StopEndsWorker
=============================================================================
