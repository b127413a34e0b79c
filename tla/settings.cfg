SPECIFICATION Spec
CONSTANTS
    t1 = t1
    t2 = t2
    here = here
    there = there
    p1 = p1
    Tab = {t1, t2}
    Name = {here, there}
    Password = {p1}
    NoPassword = NoPassword
    NoChat = NoChat
    None = None
SYMMETRY Tabs
INVARIANTS
    TypeOK
    SavedIsRestored
    NoStaleCopy
