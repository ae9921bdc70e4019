\* One of the packets goes between two ports of one address.
SPECIFICATION Spec
CONSTANTS
    UdpIdle = 3
    WellKnown <- MCWellKnown
    Wire <- MCWire
    MaxChunk <- MCMaxChunk
    MaxArrived <- MCMaxArrived
    Window = 2
    ScoringStart = 1
    ZThreshold = 2
    Baselines <- MCBaselines
    Collectors <- MCCollectors
    Recording <- MCRecording
    Waves = {1, 3, 5, 7}
    CaptureTimes = {0, 1, 2, 5}
    MaxSnapshots = 3
    h = h
    k = k
    Handlers = {h, k}
    Captured = {"pcap", "export"}
    AllFlows <- MCFlows
    PageSize = 2
    Retries = 1
    MaxRequests = 3
    a = a
    b = b
    c = c
    Tolerance = 1
    MinAbsent = 1
    Clocks <- MCClocks
    Inactive = 2
    Active = 5
    PerMessage = 2
    V6 <- MCV6
    Exported <- MCExported
    Foreign <- MCForeign
    SnapshotsOf <- MCSnapshotsOf
    DependenciesOf <- MCDependenciesOf
    MaxClicks = 2
INVARIANT ReadAnswers
CHECK_DEADLOCK FALSE
