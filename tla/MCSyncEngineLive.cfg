SPECIFICATION FairSpec
CONSTANTS
    Connectors = {c1}
    Engines = {e1}
    Syncs = {s1, s2}
    Nobody = Nobody
    NoSnapshot = NoSnapshot
    LeaderElection = FALSE
    MaxConcurrency = 1
    Timeout = 1
    RetryDelays <- OneDelay
    Cadences = {2}
    WindowLengths = {}
    RequestKinds = {"own", "fields"}
    Labs <- SteadyLab
    Sections = {x1}
    Values = {v1}
    MaxEdits = 0
    MaxStops = 1
    MaxFaults = 0
PROPERTIES
    EverySyncEnds
    NeverForgotten
