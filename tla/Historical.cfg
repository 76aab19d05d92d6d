SPECIFICATION FairSpec
CONSTANTS
    MaxHeight = 4
    MaxReorgs = 2
    InitialHeight = 2
    MaxU64 = 10
    MaxBlockRange = 2
INVARIANTS
    TypeOK
    EndsComplete
    EndsForAReason
PROPERTIES
    EndsSettled
    KeepsPromise
    Completes
CHECK_DEADLOCK FALSE
