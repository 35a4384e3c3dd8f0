SPECIFICATION FairSpec
CONSTANTS
    None = None
    Outside = Outside
    N = 2
    Workers = 2
    Strategies <- MCStrategies
    Says <- MCSays
    MaxFaults = 1
INVARIANTS
    ResultsTell
    StopsLosersOnly
PROPERTIES
    AnswersKept
    EverythingEnds
CHECK_DEADLOCK FALSE
