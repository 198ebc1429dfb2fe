SPECIFICATION FairSpec
CONSTANTS
    FirstSegment = 4
    LastSegment = 6
    Networks <- MCNetworks
    Creds = {good, wrong}
    Good = {good}
    NoSsid = NoSsid
    MaxCount = 3
    MaxPosts = 3
    MaxEvents = 3
INVARIANTS TypeOK OwnTimerOnly OkHasAddress StationComesBack SoftapApart
PROPERTIES SoftapStays AnswerAgrees StatusSettles
