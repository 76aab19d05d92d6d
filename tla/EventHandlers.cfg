SPECIFICATION MCFairSpec
CONSTANTS
    Listeners = {a, b}
    MaxMessages = 3
    MaxMessagesForTwo = 2
    MaxConcurrentFetches = 2
    BroadcastCapacity = 1
INVARIANTS
    TypeOK
    HandsEverythingOn
    LoyalListenersAreServed
PROPERTIES
    NothingLostSilently
    EverythingArrives
    CollectionsArrive
CHECK_DEADLOCK FALSE
