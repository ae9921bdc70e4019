\* Two instances at work at once, nothing fails.
SPECIFICATION Spec
CONSTANTS
    a = a
    b = b
    wa = wa
    wb = wb
    Instances <- MCInstances
    Replicas <- MCReplicas
    MinReplicas <- MCMinReplicas
    Workers <- MCWorkers
    Home <- MCHome
    FileOrder <- MCFileOrder
    Vouches <- MCVouches
    Writes <- MCWrites
    Needs <- MCNeeds
    Serves <- MCServesOne
    Rewritten <- MCRewritten
    Allowed = {"overlap"}
    MaxVersion = 2
    MaxRequests = 4
    MaxCrashes = 1
    MaxTogether = 4
    MaxRot = 1
INVARIANTS AckedOnQuorum
CHECK_DEADLOCK FALSE
