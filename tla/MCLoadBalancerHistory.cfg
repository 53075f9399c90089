CONSTANTS
    c1 = c1
    c2 = c2
    Callers <- MCCallers
    N = 2
    IdxMod = 3
SPECIFICATION HSpec
SYMMETRY Symmetry
INVARIANTS TypeOK ReturnedWasGood SweepIsComplete
PROPERTY RotationAdvances
