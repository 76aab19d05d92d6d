SPECIFICATION FairSpec
CONSTANTS
    MaxHeight = 4
    MaxReorgs = 1
    InitialHeight = 2
    Infinite = Infinite
    Capacity = Infinite
    MaxU64 = 10
    MaxBlockRange = 2
    Confirmations = 0
    SubscriptionBuffer = 2
    FinalityWaits = TRUE
PROPERTY ContinuousOperation
CHECK_DEADLOCK FALSE
