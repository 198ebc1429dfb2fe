SPECIFICATION FairSpec
CONSTANTS
    Creds = {good}
    GoodCreds = {good}
    QueueLength = 3
    MaxRetry = 1
    MaxEvents = 1
    MaxReboots = 0
    MaxImpolite = 0
    NoCred = NoCred
PROPERTY RequestIsProcessed
CHECK_DEADLOCK FALSE
