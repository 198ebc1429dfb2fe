SPECIFICATION Spec
CONSTANTS
    MaxBuffer = 2
    MaxRequests = 4
    MaxInits = 2
    MaxFailures = 1
INVARIANTS TypeOK AccountedFor DanglingOnlyWhileReplacing
CHECK_DEADLOCK FALSE
