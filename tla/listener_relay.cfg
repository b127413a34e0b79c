SPECIFICATION Spec
CONSTANTS
    c1 = c1
    c2 = c2
    c3 = c3
    p1 = p1
    p2 = p2
    Channel = {c1, c2, c3}
    Password = {p1}
    NoPassword = NoPassword
    HashCode <- DistinctCodes
    Kinds = {"text"}
    MaxFrames = 3
SYMMETRY Alike
CONSTRAINT OneInTrouble
INVARIANTS
    RelayMissesNobody
