\* Two live jobs of a tenant, a batch of two cells, a client, one crash.
SPECIFICATION Spec
CONSTANTS
    Tenants = {t1}
    t1 = t1
    Clients = {c1}
    c1 = c1
    Experiments <- MCExperiments
    Legacy <- MCLegacy
    Writers = {"server", "batch"}
    Requests <- MCRequests
    Levels <- MCLevels
    Completenesses <- MCCompletenesses
    Ablations <- MCAblations
    RunAblations = TRUE
    RunSweep = FALSE
    Policies = {"version"}
    MaxRuns = 2
    MaxCrashes = 1
    PerHour = 1
    Hour = 1
    TableSize = 1
    MaxTime = 2
INVARIANTS RunsSurvive FailuresExplained DoneMeansRecorded AdmissionHolds
PROPERTY LearnsOutcome
CHECK_DEADLOCK FALSE
