SPECIFICATION FairSpec
CONSTANTS
    b1 = b1
    b2 = b2
    topicA = topicA
    topicB = topicB
    None = None
    Branch <- MCBranch
    Topic <- MCTopic
    MaxChannels = 1
    MaxSize = 2
    MaxSends = 2
INVARIANTS
    NothingLost
    WithinLimits
    Heard
PROPERTIES
    SignalReachesWaiter
CHECK_DEADLOCK FALSE
