SPECIFICATION Spec
CONSTANTS
    Creds = {good, bad}
    GoodCreds = {good}
    QueueLength = 3
    MaxRetry = 1
    MaxEvents = 1
    MaxReboots = 0
    MaxImpolite = 1
    NoCred = NoCred
INVARIANT Recoverable
CHECK_DEADLOCK FALSE
