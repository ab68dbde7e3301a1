SPECIFICATION Spec
CONSTANTS
    Connectors = {c1}
    Engines = {e1, e2}
    Syncs = {s1, s2}
    Nobody = Nobody
    NoSnapshot = NoSnapshot
    LeaderElection = TRUE
    MaxConcurrency = 1
    Timeout = 1
    RetryDelays <- OneDelay
    Cadences = {2}
    WindowLengths = {}
    RequestKinds = {}
    Labs <- SteadyLab
    Sections = {x1}
    Values = {v1}
    MaxEdits = 1
    MaxStops = 1
    MaxFaults = 1
SYMMETRY Symmetry
INVARIANTS
    SlotsAreExclusive
    LeaseHolds
