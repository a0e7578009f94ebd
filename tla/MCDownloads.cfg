SPECIFICATION Spec
CONSTANTS
    Files = {f1, f2}
    Runs = {w1, w2}
    Concurrency = 2
    MaxAttempts = 2
    Clients = {c1, c2}
    MaxOps = 3
    MaxFaults = 1
    Kinds = {"download", "update", "cancel", "dismiss", "delete"}
    None = None
SYMMETRY Alike
INVARIANTS
    TypeOK
    RecordHasFile
    OneWriter
    ActiveIsWorkedOn
PROPERTIES
    FinishedIsDelivered
CHECK_DEADLOCK FALSE
