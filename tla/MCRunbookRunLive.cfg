CONSTANTS
    Runs = {r1}
    Runbooks = {b1}
    Users = {u1, u2}
    Readers = {c1}
    StepCount = 2
    Plans <- LivePlans
    Nobody = Nobody
    Tasks = {t1, t2}
    Procs = {p1}
    LeaderElection = FALSE
    MaxResumes = 1
    MaxFaults = 0
SPECIFICATION FairSpec
INVARIANTS
    RunningIsDriven
PROPERTIES
    EveryRunStops
    EveryTaskEnds
