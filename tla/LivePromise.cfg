SPECIFICATION FairSpec
CONSTANTS
    MaxHeight = 3
    MaxReorgs = 2
    InitialHeight = 1
    Infinite = Infinite
    Capacity = 0
    MaxU64 = 10
    MaxBlockRange = 2
    Confirmations = 0
    SubscriptionBuffer = 1
    FinalityWaits = TRUE
PROPERTIES
    CatchesUp
    KeepsPromise
CHECK_DEADLOCK FALSE
