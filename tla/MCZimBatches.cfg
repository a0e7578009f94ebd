SPECIFICATION FairSpec

CONSTANTS
    MaxEntries = 6
    Archives <- MCArchives
    BatchSize = 2
    MaxFaults = 2

INVARIANTS
    TypeOK
    NothingSkipped
    StoredOnce
    CompleteWithoutBlanks

PROPERTIES
    ChainEnds
    RunsItsBatches

CHECK_DEADLOCK FALSE
