SPECIFICATION Spec
CONSTANTS
    f = f
    g = g
    None = None
    Request <- Two
    Classes <- MCClasses
    Limit = 2
    Retries = 1
    Blocks = 2
    Asks = 1
INVARIANTS
    CallsBounded
    StopHonoured
    ModelRestored
    NothingLeftOver
PROPERTIES
    TurnEnds
CHECK_DEADLOCK FALSE
