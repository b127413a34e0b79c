SPECIFICATION FairSpec
CONSTANTS
    r1 = r1
    r2 = r2
    r3 = r3
    r4 = r4
    here = here
    there = there
    Main = Main
    None = None
    Request = {r1, r2, r3, r4}
    Path = {here, there}
    PathOf <- SomePaths
    Upgrades = {r1, r2, r3}
CHECK_DEADLOCK FALSE
INVARIANTS
    TypeOK
    OneChatPerPath
    AllAreCounted
PROPERTIES
    ChatsAreKept
    UpgradesJoin
