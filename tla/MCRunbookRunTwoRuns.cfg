CONSTANTS
    Runs = {r1, r2}
    Runbooks = {b1}
    Users = {u1, u2}
    Readers = {c1}
    StepCount = 1
    Plans <- LifecyclePlans
    Nobody = Nobody
    Tasks = {t1, t2}
    Procs = {p1}
    LeaderElection = FALSE
    MaxResumes = 0
    MaxFaults = 0
SPECIFICATION Spec
SYMMETRY Symmetry
INVARIANTS
    OneOpenRunPerRunbook
PROPERTIES
    StoreSpec
    FinishedRunsAreFrozen
