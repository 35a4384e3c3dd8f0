SPECIFICATION Spec
CONSTANTS
    p1 = p1
    p2 = p2
    d1 = d1
    w1 = w1
    j1 = j1
    s1 = s1
    None = None
    Prompt <- TwoP
    Sweep <- OneW
    Delete <- OneD
    Job <- OneJ
    Stop = s1
    Casts <- MCCasts
    MaxFaults = 2
INVARIANTS
    OneSession
    LockLostHasCause
    ShutInPeace
PROPERTIES
    AllAnswered
CHECK_DEADLOCK FALSE
