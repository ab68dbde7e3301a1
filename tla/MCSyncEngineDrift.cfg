SPECIFICATION Spec
CONSTANTS
    Connectors = {c1}
    Engines = {e1}
    Syncs = {s1, s2}
    Nobody = Nobody
    NoSnapshot = NoSnapshot
    LeaderElection = FALSE
    MaxConcurrency = 2
    Timeout = 1
    RetryDelays <- OneDelay
    Cadences = {}
    WindowLengths = {1}
    RequestKinds = {"own"}
    Labs <- ChangingLab
    Sections = {x1, x2}
    Values = {v1, v2}
    MaxEdits = 1
    MaxStops = 1
    MaxFaults = 0
SYMMETRY Symmetry
INVARIANTS
    TypeOK
    BaseIsLatest
    KeepsLastSeen
PROPERTIES
    DriftIsReported
    DocsCaughtUp
