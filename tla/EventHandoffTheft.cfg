\* a reader against the turn after it
SPECIFICATION Spec
CONSTANTS
    t1 = t1
    t2 = t2
    t3 = t3
    Background = Background
    NoTurn = NoTurn
    Turns <- ThreeTurns
    MaxBackground = 1
INVARIANTS
    NoTheft
CHECK_DEADLOCK FALSE
