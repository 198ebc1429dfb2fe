SPECIFICATION FairSpec
CONSTANTS
    MaxBuffer = 2
    MaxRequests = 4
    MaxInits = 1
    MaxFailures = 1
INVARIANTS OnlyStrayRootsLeak DeliveredInOrder
PROPERTY FullEventFlushes ImplementsRelay
CHECK_DEADLOCK FALSE
