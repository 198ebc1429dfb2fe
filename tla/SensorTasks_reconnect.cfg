SPECIFICATION FairSpec
CONSTANTS
    QueueLength = 2
    MaxReadings = 3
    MaxConnects = 2
INVARIANTS TypeOK HeldIsLive LeakOnlyFullOrReplaced DeliveredOnce
PROPERTY QueuedIsPosted
CHECK_DEADLOCK FALSE
