\* a turn of four units, previews cut off after three, platforms that fail at will
SPECIFICATION FairSpec
CONSTANTS
    t1 = t1
    t2 = t2
    t3 = t3
    NoTimer = NoTimer
    MaxText = 4
    MaxChars = 3
    Platforms <- AllPlatforms
    Timers <- ThreeTimers
INVARIANTS
    TypeOK
    EveryUnitShown
    NoUnitTwice
PROPERTIES
    GoneStaysGone
    CatchesUp
CHECK_DEADLOCK FALSE
