SPECIFICATION FairSpec
CONSTANTS
    Kinds = {"sidecar", "daemon"}
    Pages = {p1}
    Watcher = watcher
    Callers = {c1}
    NoOne = NoOne
    Services = 2
    MaxVersion = 2
    Latest = Latest
    Blank = Blank
    NoFile = NoFile
    Empty = Empty
    MaxRequests = 2
    MaxChecks = 1
    MaxFaults = 1
INVARIANTS
    TypeOK
    StatusTellsTruth
    OneRunAtATime
CHECK_DEADLOCK FALSE
PROPERTIES PageSettles
