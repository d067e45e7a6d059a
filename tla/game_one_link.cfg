SPECIFICATION FairSpec
CONSTANTS
    Workers = {w1}
    Players = {p1}
    Sessions = {s1, s2}
    NoPlayer = NoPlayer
    NoSession = NoSession
    MaxObjects = 2
    MaxCalls = 2
    InboxCap = 1
    Destroyable = {}
CHECK_DEADLOCK FALSE
INVARIANTS
    OneObjectPerPlayer
PROPERTIES
    PostedIsHandled
