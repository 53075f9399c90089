CONSTANTS
    c1 = c1
    c2 = c2
    Callers <- MCCallers
    N = 2
    IdxMod = 8
SPECIFICATION HSpec
INVARIANTS NoFalseUnavailable
