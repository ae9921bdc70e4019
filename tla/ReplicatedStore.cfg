\* Requests on both instances, crashes and restarts, failing writes, one damaged
\* copy on the root of an instance that is down.
SPECIFICATION Spec
CONSTANTS
    a = a
    b = b
    wa = wa
    wb = wb
    Instances <- MCInstances
    Replicas <- MCReplicas
    MinReplicas <- MCMinReplicas
    Workers <- MCWorkers
    Home <- MCHome
    FileOrder <- MCFileOrder
    Vouches <- MCVouches
    Writes <- MCWrites
    Needs <- MCNeeds
    Serves <- MCServes
    Rewritten <- MCRewritten
    Allowed = {"overlap", "fail", "crash", "rot"}
    MaxVersion = 2
    MaxRequests = 5
    MaxCrashes = 1
    MaxTogether = 2
    MaxRot = 1
INVARIANTS AckedWhenAlone VerifyIsExact CapturesSurvive
PROPERTIES MarkerAfterData RepairHeals
CHECK_DEADLOCK FALSE
