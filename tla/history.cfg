SPECIFICATION FairSpec
CONSTANTS
    c1 = c1
    c2 = c2
    c3 = c3
    Client = {c1, c2, c3}
    Members = {c1, c2}
    MaxRequest = 1
    Window = 1
    Begin <- Overlapping
    MaxSends = 0
    MaxLeaves = 0
    MaxAnswers = 1
    MaxWire = 2
CHECK_DEADLOCK FALSE
INVARIANTS
    ShownOnce
    RequestsAreHonest
    NothingAskedTwice
PROPERTIES
    OfferedIsRecalled
