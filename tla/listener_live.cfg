SPECIFICATION FairSpec
CONSTANTS
    c1 = c1
    c2 = c2
    c3 = c3
    p1 = p1
    p2 = p2
    Channel = {c1, c2}
    Password = {p1}
    NoPassword = NoPassword
    HashCode <- DistinctCodes
    Kinds = {"password", "text"}
    MaxFrames = 3
CONSTRAINT Undamaged
PROPERTIES
    FailingLeave
