SPECIFICATION FairSyncSpec
CONSTANTS
    MaxHeight = 4
    MaxReorgs = 1
    InitialHeight = 2
    Infinite = Infinite
    Capacity = 2
    MaxU64 = 10
    MaxBlockRange = 2
    Confirmations = 0
    SubscriptionBuffer = 1
    FinalityWaits = TRUE
PROPERTY SyncErrorsAreTerminal
CHECK_DEADLOCK FALSE
