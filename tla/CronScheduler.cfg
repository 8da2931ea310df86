\* one job that may be renamed, two requests at a time, one run, start-up, crashes,
\* saves that fail, expressions that do not parse
SPECIFICATION Spec
CONSTANTS
    j1 = j1
    j2 = j2
    x1 = x1
    x2 = x2
    bad = bad
    c1 = c1
    c2 = c2
    e1 = e1
    e2 = e2
    r1 = r1
    Main = Main
    NoEntry = NoEntry
    Jobs <- TwoIds
    Exprs <- ThreeExprs
    Valid <- TwoValid
    Requesters <- TwoRequests
    EntryIds <- TwoEntries
    Runs <- OneRun
CONSTRAINT Bounds
SYMMETRY Symmetric
INVARIANTS
    TypeOK
    OneEntryPerJob
    ScheduleFollowsStore
    FiresByStoredExpr
    FileIsCurrent
PROPERTIES
    OffStaysOff
CHECK_DEADLOCK FALSE
