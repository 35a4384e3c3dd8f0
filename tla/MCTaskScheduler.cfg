SPECIFICATION Spec
CONSTANTS
    once = once
    every = every
    check = check
    nightly = nightly
    w1 = w1
    w2 = w2
    w3 = w3
    None = None
    Task <- TwoTasks
    Kind <- MCKind
    Gap <- MCGap
    Unparsed = {}
    CronAt <- MCCronAt
    Year = 1
    Week = 2
    Truth <- MCTruth
    Thread <- ThreeThreads
    MaxWorkers = 1
    InMain = TRUE
    MaxForces = 1
    MaxFaults = 1
SYMMETRY MCSymmetry
INVARIANTS
    WithinWorkers
    CancelHolds
PROPERTIES
    OnceOnly
    Spaced
CHECK_DEADLOCK FALSE
