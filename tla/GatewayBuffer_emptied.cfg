SPECIFICATION Spec
CONSTANTS
    MaxBuffer = 2
    MaxRequests = 4
    MaxInits = 1
    MaxFailures = 1
INVARIANT EmptiedIsFlushed
CHECK_DEADLOCK FALSE
