---------------------------- MODULE TokenBucket ----------------------------
(* TokenBucket of backend/digital_twin/daemon.py: the rate limiter the twin *)
(* synchronization worker passes before every sync.  One caller (the worker *)
(* thread) acquires; the clock is time.monotonic, which never goes back.    *)
(*                                                                          *)
(* The code counts tokens and seconds as floats.  Here both are exact:      *)
(* Scale units make one token and every tick of the clock adds Rate units,  *)
(* so the code's rate is Rate/Scale tokens a tick.  Rounding of floats is   *)
(* not modelled.                                                            *)
EXTENDS Integers

CONSTANTS
    Rate,       \* units of token added by one tick of the clock
    Scale,      \* units that make one token
    Burst,      \* tokens the bucket can store
    MaxTime     \* bound: the clock stops at this tick

\* Ticks in which an empty bucket fills up to one token.
LongestSleep == Scale \div Rate + 1

ASSUME BucketAssumption ==      \* the two ValueErrors of __init__
    /\ Rate \in Nat \ {0}
    /\ Scale \in Nat \ {0}
    /\ Burst \in Nat \ {0}
    /\ MaxTime \in Nat

VARIABLES
    now,        \* the clock
    tokens,     \* _tokens, in units
    last,       \* _last: the clock at the last refill
    pc,         \* where the caller is: "out", "acquire" (loop head), "sleep"
    wake,       \* earliest end of the sleep asked for
    opened,     \* history: start of an observation window, opened at any time
    grants      \* history: acquires that returned since opened

bucketVars == <<now, tokens, last, pc, wake, opened, grants>>

Capacity == Burst * Scale
Lesser(a, b) == IF a <= b THEN a ELSE b

\* Mistaken form of Refilled: the burst does not cap what idle time stores.
RefilledUncapped(t) == tokens + (t - last) * Rate

\* What a refill at time t leaves in the bucket.
Refilled(t) == Lesser(Capacity, tokens + (t - last) * Rate)

\* Mistaken forms of SleepTicks: rounded down; not divided by the rate; a
\* sleep that never ends.
SleepTicksRoundedDown(have) == (Scale - have) \div Rate
SleepTicksUndivided(have) == Scale - have
SleepTicksForever(have) == 2 * MaxTime

\* Least number of ticks in which the missing units flow in: (1 - tokens)/rate.
SleepTicks(have) == ((Scale - have) + (Rate - 1)) \div Rate

BucketInit ==
    /\ now = 0
    /\ tokens = Capacity
    /\ last = 0
    /\ pc = "out"
    /\ wake = 0
    /\ opened = 0
    /\ grants = 0

\* The worker calls acquire().
Call ==
    /\ pc = "out"
    /\ pc' = "acquire"
    /\ UNCHANGED <<now, tokens, last, wake, opened, grants>>

\* One turn of the loop that finds a token: refill, take it, return.
Grant ==
    /\ pc = "acquire"
    /\ Refilled(now) >= Scale
    /\ tokens' = Refilled(now) - Scale
    /\ last' = now
    /\ pc' = "out"
    /\ grants' = grants + 1
    /\ UNCHANGED <<now, wake, opened>>

\* One turn that does not: refill and ask to sleep until the token is there.
Wait ==
    /\ pc = "acquire"
    /\ Refilled(now) < Scale
    /\ tokens' = Refilled(now)
    /\ last' = now
    /\ wake' = now + SleepTicks(Refilled(now))
    /\ pc' = "sleep"
    /\ UNCHANGED <<now, opened, grants>>

\* sleep() returns, at its deadline or any time later.
Wake ==
    /\ pc = "sleep"
    /\ now >= wake
    /\ pc' = "acquire"
    /\ UNCHANGED <<now, tokens, last, wake, opened, grants>>

Tick ==
    /\ now < MaxTime
    /\ now' = now + 1
    /\ UNCHANGED <<tokens, last, pc, wake, opened, grants>>

\* The observer starts counting: a history step, the code does nothing.
Observe ==
    /\ opened # now
    /\ opened' = now
    /\ grants' = 0
    /\ UNCHANGED <<now, tokens, last, pc, wake>>

BucketNext == Call \/ Grant \/ Wait \/ Wake \/ Tick \/ Observe

\* The thread runs, and the clock advances.
BucketFairness == WF_bucketVars(Grant \/ Wait \/ Wake) /\ WF_bucketVars(Tick)

BucketSpec == BucketInit /\ [][BucketNext]_bucketVars /\ BucketFairness

----------------------------------------------------------------------------
BucketTypeOK ==
    /\ now \in 0 .. MaxTime
    /\ tokens \in 0 .. Capacity
    /\ last \in 0 .. now
    /\ pc \in {"out", "acquire", "sleep"}
    /\ wake \in Nat
    /\ opened \in 0 .. now
    /\ grants \in Nat

\* In every window of time, wherever it starts, the bucket lets through at
\* most the burst plus what the rate yields in that window: the promise of
\* max_syncs_per_second ("rate tokens/second, up to burst stored").
RateCapped == grants * Scale <= Capacity + (now - opened) * Rate

\* The strengthening that is inductive: what is still in the bucket, refilled
\* to now, counts against the same allowance.
Allowance == grants * Scale + Refilled(now) <= Capacity + (now - opened) * Rate

\* A sleep never outlasts the wait for the token: as long as the deadline has
\* not passed the token is not there, so the limiter costs no throughput the
\* rate would allow.
SleepIsNeeded == pc = "sleep" /\ now < wake => Refilled(now) < Scale

\* One sleep is enough: at its deadline the token is there, and the loop does
\* not sleep a second time for the same acquire.
OneSleepIsEnough == pc = "sleep" /\ now >= wake => Refilled(now) >= Scale

\* The sleep is neither too long nor too short.  (acquire, daemon.py:62.)
SleepIsExact == SleepIsNeeded /\ OneSleepIsEnough

\* An acquire returns, as long as the clock has room for the longest sleep.
AcquireReturns ==
    (pc = "acquire" /\ now + LongestSleep <= MaxTime) ~> (pc = "out")
=============================================================================
