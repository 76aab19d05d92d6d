SPECIFICATION MCSpec
CONSTANTS
    Listeners = {a, b}
    MaxMessages = 3
    MaxMessagesForTwo = 2
    MaxConcurrentFetches = 2
    BroadcastCapacity = 1
INVARIANT CollectorOutlivesLoop
CHECK_DEADLOCK FALSE
