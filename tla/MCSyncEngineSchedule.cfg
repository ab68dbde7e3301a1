SPECIFICATION Spec
CONSTANTS
    Connectors = {c1}
    Engines = {e1}
    Syncs = {s1, s2}
    Nobody = Nobody
    NoSnapshot = NoSnapshot
    LeaderElection = FALSE
    MaxConcurrency = 1
    Timeout = 1
    RetryDelays <- OneDelay
    Cadences = {2, 4}
    WindowLengths = {}
    RequestKinds = {"manual"}
    Labs <- SteadyLab
    Sections = {x1}
    Values = {v1}
    MaxEdits = 1
    MaxStops = 0
    MaxFaults = 0
INVARIANTS
    ScheduleTakesEffect
