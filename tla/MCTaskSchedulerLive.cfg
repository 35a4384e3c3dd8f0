SPECIFICATION FairSpec
CONSTANTS
    once = once
    every = every
    check = check
    nightly = nightly
    w1 = w1
    w2 = w2
    w3 = w3
    None = None
    Task <- Polled
    Kind <- MCKind
    Gap <- MCGap
    Unparsed = {}
    CronAt <- MCCronAt
    Year = 2
    Week = 2
    Truth <- MCTruth
    Thread <- TwoThreads
    MaxWorkers = 2
    InMain = TRUE
    MaxForces = 1
    MaxFaults = 0
INVARIANTS
    NoOverlap
PROPERTIES
    PoolServes
CHECK_DEADLOCK FALSE
