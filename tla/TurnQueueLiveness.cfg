\* auto-compress on, a queue of one, fair goroutines
SPECIFICATION FairSpec
CONSTANTS
    m1 = m1
    m2 = m2
    m3 = m3
    s1 = s1
    s2 = s2
    s3 = s3
    s4 = s4
    NoState = NoState
    NoMsg = NoMsg
    Msgs <- ThreeMsgs
    Time <- Untimed
    States <- FourStates
    MaxQueued = 1
    AutoCompress = TRUE
    MaxStops = 0
INVARIANTS
    TypeOK
    NoOrphanQueue
PROPERTIES
    LockReleased
    QueuedIsDealtWith
CHECK_DEADLOCK FALSE
