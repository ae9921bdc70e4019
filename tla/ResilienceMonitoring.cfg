\* Any order of three notifications among five twins; sinks may raise anywhere.
SPECIFICATION FairSpec
CONSTANTS
    Rules <- MCRules
    Scenarios <- MCScenarios
    Graphs <- MCGraphs
    Twins <- MCTwins
    Topology <- MCTopology
    Sweep = TRUE
    MaxScenarios = 2
    SinksMayRaise = TRUE
    MayRaise = TRUE
    None = None
    NoTwin = NoTwin
    MinInterval = 1
    MaxNotifies = 3
INVARIANTS EdgeTriggered NotifiesAccounted
           FreshIdleMeansLatest IdleVerdict
PROPERTIES ResolvedForAReason WorkerServes
CHECK_DEADLOCK FALSE
