SPECIFICATION Spec
CONSTANTS
    MaxHeight = 4
    MaxReorgs = 2
    InitialHeight = 2
    Infinite = Infinite
    Capacity = 2
    MaxU64 = 10
    MaxBlockRange = 2
    Confirmations = 1
    SubscriptionBuffer = 2
    FinalityWaits = TRUE
INVARIANTS
    TypeOK
    GapFree
    BatchConfirmed
    NoticeUndoesOrphan
    MemoryFollowsStream
    TipSettled
    StreamSettled
    EndsForAReason
PROPERTY
    ErrorsAreTerminal
CHECK_DEADLOCK FALSE
