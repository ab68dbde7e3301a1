CONSTANTS
    Runs = {r1}
    Runbooks = {b1}
    Users = {u1, u2}
    Readers = {c1, c2}
    StepCount = 2
    Plans <- SafetyPlans
    Nobody = Nobody
    Tasks = {t1, t2}
    Procs = {p1}
    LeaderElection = FALSE
    MaxResumes = 2
    MaxFaults = 1
SPECIFICATION Spec
SYMMETRY Symmetry
INVARIANTS
    TypeOK
    OneDriver
    SucceededRunComplete
    PausedOnManualStep
    EffectVisible
    ActorIsCurrent
    ApprovalGate
    TruthfulRecord
    OneFaultAbsorbed
PROPERTIES
    NoBlindResend
    DecisionOnSeenRevision
