SPECIFICATION Spec

CONSTANTS
    z1 = z1
    u1 = u1
    d1 = d1
    c1 = c1
    c2 = c2
    k1 = k1
    k2 = k2
    k3 = k3
    k4 = k4
    k5 = k5
    Zims = {z1}
    Uploads = {u1}
    Docs = {}
    Preloaded = {z1}
    NumBatches <- MCTwoBatches
    AutoIds = {k1, k2, k3}
    Concurrency = 2
    MaxAttempts = 2
    KeepCompleted = 1
    KeepFailed = 1
    MaxFaults = 1
    Clients = {c1}
    Ops = {"upload", "zim", "zimDelete", "scan", "embed", "reembed", "reset", "delete", "cleanup"}
    Policies = {"Always"}
    MaxRequests = 2

INVARIANTS
    TypeOK
    PrefixRan
    CountedRowIsComplete
    NoSilentStop

CHECK_DEADLOCK FALSE
