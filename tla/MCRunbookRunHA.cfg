CONSTANTS
    Runs = {r1}
    Runbooks = {b1}
    Users = {u1}
    Readers = {c1}
    StepCount = 2
    Plans <- HAPlans
    Nobody = Nobody
    Tasks = {t1, t2}
    Procs = {p1, p2}
    LeaderElection = TRUE
    MaxResumes = 1
    MaxFaults = 0
SPECIFICATION Spec
SYMMETRY Symmetry
INVARIANTS
    StepsInOrder
PROPERTIES
    SuccessIsFinal
