SPECIFICATION Spec

CONSTANTS
    z1 = z1
    u1 = u1
    d1 = d1
    c1 = c1
    c2 = c2
    k1 = k1
    k2 = k2
    k3 = k3
    k4 = k4
    k5 = k5
    Zims = {z1}
    Uploads = {}
    Docs = {d1}
    Preloaded = {}
    NumBatches <- MCTwoBatches
    AutoIds = {k1, k2, k3, k4, k5}
    Concurrency = 2
    MaxAttempts = 2
    KeepCompleted = 5
    KeepFailed = 5
    MaxFaults = 0
    Clients = {c1, c2}
    Ops = {"zim", "scan", "reembed", "docs", "policy", "embed"}
    Policies = {"Always", "Manual"}
    MaxRequests = 3

INVARIANTS
    NoLostChunks
    NoDuplicateChunks

CHECK_DEADLOCK FALSE
