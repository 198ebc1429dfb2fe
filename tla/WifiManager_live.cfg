SPECIFICATION FairSpec
CONSTANTS
    Creds = {good, bad}
    GoodCreds = {good}
    QueueLength = 3
    MaxRetry = 1
    MaxEvents = 1
    MaxReboots = 0
    MaxImpolite = 0
    NoCred = NoCred
PROPERTIES ReachableAgain UserIsAnswered ApShutsDown
CHECK_DEADLOCK FALSE
