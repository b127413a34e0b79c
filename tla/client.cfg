SPECIFICATION FairSpec
CONSTANTS
    w1 = w1
    w2 = w2
    p1 = p1
    Socket = {w1, w2}
    First = w1
    Password = {p1, Empty}
    Empty = Empty
    NoPassword = NoPassword
    MaxEnters = 1
    MaxTexts = 1
    MaxBreaks = 1
CHECK_DEADLOCK FALSE
INVARIANTS
    TypeOK
    StatusIsTrue
    OkIsRegistered
    OkTextsPass
PROPERTIES
    ComesBack
    GetsIn
