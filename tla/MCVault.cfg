SPECIFICATION Spec
CONSTANTS
    Titles = {t1}
    Embedders = {m1, m2}
    Callers = {c1, c2}
    MaxSaves = 2
    MaxFaults = 1
    MaxCalls = 2
SYMMETRY Sym
INVARIANTS TypeOK AnswersAreTrue
PROPERTIES SearchSeesTheVault
CHECK_DEADLOCK FALSE
