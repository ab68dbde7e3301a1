CONSTANTS
    Runs = {r1}
    Runbooks = {b1}
    Users = {u1, u2}
    Readers = {c1}
    StepCount = 1
    Plans <- OneStepPlans
    Nobody = Nobody
    Tasks = {t1}
    Procs = {p1}
    LeaderElection = FALSE
    MaxResumes = 1
    MaxFaults = 1
SPECIFICATION Spec
SYMMETRY Symmetry
INVARIANTS
    RunningIsDriven
