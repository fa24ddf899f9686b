SPECIFICATION Spec
CONSTANTS
    d1 = d1
    c1 = c1
    c2 = c2
    s1 = s1
    s2 = s2
    NoDevice = NoDevice
    NoStore = NoStore
    NoCall = NoCall
    Devices = {d1}
    Stores = {s1, s2}
    Calls = {c1, c2}
    MaxTokens = 3
    MaxRequests = 2
    MaxRows = 6
SYMMETRY Symmetry
CHECK_DEADLOCK FALSE
INVARIANTS
    TypeOK
    OneWorkplace
    
    FamiliesAreSound
PROPERTIES
    SessionsAreKept
