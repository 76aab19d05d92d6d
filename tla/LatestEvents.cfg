SPECIFICATION FairSpec
CONSTANTS
    MaxHeight = 3
    MaxReorgs = 2
    InitialHeight = 3
    Infinite = Infinite
    Capacity = 2
    MaxU64 = 10
    MaxBlockRange = 2
    Count = 2
    FinalityWaits = TRUE
    PipeCapacity = 1
INVARIANTS
    TypeOK
    CollectsWhatStands
    RewindCovers
PROPERTIES
    TipVouchesForAll
    AnswerArrives
CHECK_DEADLOCK FALSE
