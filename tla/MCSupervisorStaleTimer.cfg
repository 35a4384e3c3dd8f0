SPECIFICATION Spec
CONSTANTS
    s1 = s1
    r1 = r1
    r2 = r2
    None = None
    Request <- MCRequest
    Async <- MCAsync
    Override <- MCOverride
    Session <- MCSession
    SessionOf <- MCSessionOf
    PoolSize = 1
    MayClose <- MCSession
INVARIANTS
    TimeoutIsOwn
CHECK_DEADLOCK FALSE
