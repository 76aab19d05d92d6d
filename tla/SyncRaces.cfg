SPECIFICATION FairSyncSpec
CONSTANTS
    MaxHeight = 3
    MaxReorgs = 2
    InitialHeight = 2
    Infinite = Infinite
    Capacity = 2
    MaxU64 = 10
    MaxBlockRange = 2
    Confirmations = 0
    SubscriptionBuffer = 1
    FinalityWaits = TRUE
INVARIANTS
    SyncTypeOK
    SwitchesSeamlessly
    SyncGapFree
PROPERTY SyncCatchesUp
CHECK_DEADLOCK FALSE
