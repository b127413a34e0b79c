SPECIFICATION Spec
CONSTANTS
    c1 = c1
    c2 = c2
    c3 = c3
    Client = {c1, c2, c3}
    Members = {c1, c2}
    MaxRequest = 1
    Window = 1
    Begin <- One
    MaxSends = 2
    MaxLeaves = 0
    MaxAnswers = 1
    MaxWire = 1
CHECK_DEADLOCK FALSE
INVARIANTS
    SameSequencesSameMessages
