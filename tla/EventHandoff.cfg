\* two turns, one background job, fair goroutines
SPECIFICATION FairSpec
CONSTANTS
    t1 = t1
    t2 = t2
    t3 = t3
    Background = Background
    NoTurn = NoTurn
    Turns <- TwoTurns
    MaxBackground = 1
INVARIANTS
    TypeOK
    HandoffExclusive
    ReaderCanBeStopped
PROPERTIES
    TurnEnds
CHECK_DEADLOCK FALSE
