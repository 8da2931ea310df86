CONSTANTS
    t1 = t1
    t2 = t2
    c1 = c1
    w1 = w1
    w2 = w2
    NoObject = NoObject
    Turns <- TwoTurns
    ConvOf <- OneConv
    Objects <- TwoObjects
SPECIFICATION Spec
SYMMETRY PoolSymmetry
INVARIANTS
    TypeOK
    ReaperSeesTurns
