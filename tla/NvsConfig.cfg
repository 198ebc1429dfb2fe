SPECIFICATION FairSpec
CONSTANTS
    Ssids = {s1, s2}
    Passwords = {p1, p2}
    Blank = Blank
    NotFound = NotFound
INVARIANTS TypeOK FlashIsSaved
PROPERTIES BootFollowsSaved SaveReturns
