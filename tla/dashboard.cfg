CONSTANTS
    a1 = a1
    a2 = a2
    r1 = r1
    r2 = r2
    r3 = r3
    Requests = {r1, r2, r3}
    Addresses = {a1, a2}
    Address <- TwoFromOne
    Window = 2
    Limit = 2
    NoBucket = NoBucket
    NoRequest = NoRequest
    MaxTime = 4
    Modes = {"process", "menu"}
SPECIFICATION Spec
INVARIANTS
    TypeOK
    AtMostTwiceTheRate
    MutexIsNotKept
PROPERTIES
    RefusalsAreEarned
    OnlyRecentClientsKept
    EveryClientIsTaken
