SPECIFICATION FairTokenSpec
CONSTANTS
    t1 = t1
    t2 = t2
    root = root
    child = child
    grandchild = grandchild
    c1 = c1
    Nothing = Nothing
    Thread <- MCThread
    Source <- MCSource
    Callback <- MCCallback
    ParentOf <- MCParentOf
    TokenOf <- MCTokenOf
INVARIANTS
    CalledOnce
    CancelFlows
PROPERTIES
    CancelPropagates
CHECK_DEADLOCK FALSE
