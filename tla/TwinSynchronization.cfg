\* Liveness with two producers: failing syncs, raising callbacks, stops; and
\* the rate limiter.
SPECIFICATION Synchronization
CONSTANTS
    Producers = {p1, p2}
    p1 = p1
    p2 = p2
    Stamps = {1}
    Keys = {}
    MaxQueue = 1
    Policy = "block"
    Coalesce = TRUE
    MaxSubmissions = 3
    Allowed = {"sync_fails", "on_sync_raises", "stop", "late_submit"}
    Rate = 2
    Scale = 5
    Burst = 2
    MaxTime = 12
INVARIANTS
    AcceptedAccounted
    RateCapped
    SleepIsExact
PROPERTIES
    AcceptedSettles
    CallsReturn
    NoSyncAfterStop
    AcquireReturns
CHECK_DEADLOCK FALSE
