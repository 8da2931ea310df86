\* two turns and a permission request beside a command, the reaper, /stop and shutdown
SPECIFICATION FairSpec
CONSTANTS
    m1 = m1
    m2 = m2
    Msgs <- TwoMsgs
    Cmd = Cmd
    Reaper = Reaper
    NStates = 4
    NProcs = 2
    NSessions = 2
    MaxEvents = 2
CONSTRAINT FirstComesFirst
INVARIANTS
    TypeOK
    LiveIsEntry
    NothingStartsAfterStop
    IdsNotShared
PROPERTIES
    ReplacementSurvives
    StoppedTurnEnds
CHECK_DEADLOCK FALSE
