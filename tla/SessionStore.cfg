SPECIFICATION Spec
CONSTANTS
    k1 = k1
    k2 = k2
    k3 = k3
    a1 = a1
    a2 = a2
    Keys = {k1, k2, k3}
    Chat <- MCChat
    AgentIds = {a1, a2}
    KindOf <- MCKindOf
    NoId = NoId
    Savers = {w1, w2}
    Null = Null
    MaxSessions = 3
    MaxChanges = 1
    MaxSaves = 2
    Files <- MCFiles
    MaxFaults = 2
    FirstKind = "claude"
SYMMETRY MCSymmetry
INVARIANTS
    TypeOK
    StructureIsCurrent
    DurableIsSaved
    OneOwner
    ActiveInChat
PROPERTY
    KnownStaysKnown
CHECK_DEADLOCK FALSE
