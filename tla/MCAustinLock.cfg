SPECIFICATION FairSpec
CONSTANTS
    Keys <- MCKeys
    Jobs = {j1, j2, j3}
    NoJob = NoJob
    Called <- OneOfEachKind
    MaxCalls = 2
CHECK_DEADLOCK FALSE
INVARIANTS
    TypeOK
    HoldersOwn
    SectionsExclusive
    NothingLeftBehind
    QueueWellFormed
PROPERTIES
    SetupUndisturbed
    FifoHandOver
    NobodyPushedBack
    InsistentProceeds
