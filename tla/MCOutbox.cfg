SPECIFICATION FairSpec
CONSTANTS
    m1 = m1
    m2 = m2
    m3 = m3
    Msg <- MCMsg
    Retries <- MCRetries
    Priority <- MCPriority
    Batch = 2
    MaxExits = 1
    MaxErrors = 1
INVARIANTS
    RowsTell
    FirstTriesInOrder
PROPERTIES
    Refines
    SettledUnlessFault
CHECK_DEADLOCK FALSE
