\* two queued messages with increasing create times
SPECIFICATION Spec
CONSTANTS
    m1 = m1
    m2 = m2
    m3 = m3
    s1 = s1
    s2 = s2
    s3 = s3
    s4 = s4
    NoState = NoState
    NoMsg = NoMsg
    Msgs <- ThreeMsgs
    Time <- TwoTimed
    States <- FourStates
    MaxQueued = 2
    AutoCompress = FALSE
    MaxStops = 0
PROPERTIES
    SupersededOnlyByServed
CHECK_DEADLOCK FALSE
