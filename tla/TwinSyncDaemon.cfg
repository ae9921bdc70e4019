\* One producer under every circumstance.
SPECIFICATION Safety
CONSTANTS
    Producers = {p1}
    p1 = p1
    Stamps = {1, 2}
    Keys = {k1}
    k1 = k1
    MaxQueue = 2
    Policy = "block"
    Coalesce = TRUE
    MaxSubmissions = 4
    Allowed = {"sync_fails", "on_sync_raises", "put_timeout", "stop", "stop_timeout", "late_submit"}
INVARIANTS
    TypeOK
    WaitIdleIsSound
    OneProducerOrder
PROPERTIES
    ImplementsFeed
CHECK_DEADLOCK FALSE
