SPECIFICATION FairSpec
CONSTANTS
    Names = {"a"}
    Auths = {2, 3}
    Rssis = {1, 2}
    MaxAps = 3
    QueueLength = 1
INVARIANTS TypeOK NoTornAnswer UrlsWhole ListIsUnique
PROPERTY RequestEnds
CHECK_DEADLOCK FALSE
