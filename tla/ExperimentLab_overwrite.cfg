\* A live run and a batch of the same cell.
SPECIFICATION Spec
CONSTANTS
    Tenants = {t1}
    t1 = t1
    Clients = {c1}
    c1 = c1
    Experiments <- MCExperiments
    Legacy <- MCLegacy
    Writers = {"server", "batch"}
    Requests <- MCRequests
    Levels <- MCLevels
    Completenesses <- MCCompletenesses
    Ablations <- MCAblations
    RunAblations = TRUE
    RunSweep = FALSE
    Policies = {"version"}
    MaxRuns = 2
    MaxCrashes = 0
    PerHour = 1
    Hour = 1
    TableSize = 1
    MaxTime = 2
INVARIANT EarlierRunsKept
CHECK_DEADLOCK FALSE
