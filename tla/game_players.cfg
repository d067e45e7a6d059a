SPECIFICATION Spec
CONSTANTS
    Workers = {w1, w2}
    Players = {p1}
    Sessions = {s1}
    NoPlayer = NoPlayer
    NoSession = NoSession
    MaxObjects = 2
    MaxCalls = 2
    InboxCap = 1
    Destroyable = {p1}
SYMMETRY Symmetry
CHECK_DEADLOCK FALSE
INVARIANTS
    TypeOK
    DestroyedIsForgotten
PROPERTIES
    MailboxSpec
