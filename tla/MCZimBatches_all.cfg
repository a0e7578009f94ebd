SPECIFICATION Spec

CONSTANTS
    MaxEntries = 4
    Archives <- MCArchives
    BatchSize = 2
    MaxFaults = 0

INVARIANTS
    AllArticlesEmbedded

CHECK_DEADLOCK FALSE
