SPECIFICATION FairSpec
CONSTANTS
    c1 = c1
    c2 = c2
    c3 = c3
    Client = {c1, c3}
    Members = {c1}
    MaxRequest = 1
    Window = 1
    Begin <- Returning
    MaxSends = 1
    MaxLeaves = 1
    MaxAnswers = 3
    MaxWire = 2
CHECK_DEADLOCK FALSE
INVARIANTS
    TypeOK
    OffersAreHonest
    NothingAskedTwice
PROPERTIES
    OfferedIsRecalled
