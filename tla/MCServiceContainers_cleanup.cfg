SPECIFICATION Spec
CONSTANTS
    Slots = {r1, r2}
    Ids = {c1, c2, c3, c4}
    MaxVersion = 2
    MaxOps = 3
    MaxFaults = 1
    Kinds <- MCKinds
    None = None
SYMMETRY MCSymmetry
CHECK_DEADLOCK FALSE
PROPERTY CleanupRemovesOwn
