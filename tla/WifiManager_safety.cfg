SPECIFICATION Spec
CONSTANTS
    Creds = {good, bad}
    GoodCreds = {good}
    QueueLength = 3
    MaxRetry = 1
    MaxEvents = 1
    MaxReboots = 1
    MaxImpolite = 1
    NoCred = NoCred
INVARIANTS TypeOK BitsFollowDriver ScanBitClears PoliteRecoverable SavedIsVerified SavedIsCurrent DnsOffWhenConnected NoStaleRequest
CHECK_DEADLOCK FALSE
