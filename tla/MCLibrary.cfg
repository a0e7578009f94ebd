SPECIFICATION FairSpec
CONSTANTS
    Parts = {"maps", "wiki", "explorer", "life", "bench"}
    MaxFaults = 1
    Curated = {"cur"}
    Global = {"glob"}
    Regions = {"reg"}
    Versions = {1, 2}
    Requests = {"q1", "q2"}
    Slots = {1, 2}
    Attempts = 2
    MapsAsked = 2
    Options = {"oa", "ob"}
    WikiPages = {"p1"}
    WikiAsked = 2
    MaxMoves = 1
    Total = 4
    PageSize = 2
    MaxFetches = 2
    Count = 2
    Screen = 2
    ListAsked = 2
    Texts = {"a", "b"}
    LifePages = {"notes"}
    LifeCalls = 2
    LifeClicks = 1
    BenchPages = {"p1"}
    Runs = {1, 2}
    Tags = {"t1"}
    Types = {"full"}
    Tests = 1
    MaxShares = 2
INVARIANTS TypesOK RowsTellTruth
PROPERTIES Settles
CHECK_DEADLOCK FALSE
