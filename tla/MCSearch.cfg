SPECIFICATION Spec
CONSTANTS
    n1 = n1
    n2 = n2
    n3 = n3
    None = None
    Branches = 2
    Scripts <- MCScripts
    Blends <- MCBlends
    MinScore <- MCMinScore
    Weight <- MCWeight
    MaxDepth = 2
    Rounds = 2
    Elite = 2
    MaxSize = 2
    Calls = 2
INVARIANTS
    WinnerIsBest
    SeedIsBest
    ArchiveKeepsBest
CHECK_DEADLOCK FALSE
