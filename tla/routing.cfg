SPECIFICATION FairSpec
CONSTANTS
    Links = {l1, l2, l3}
    Sessions = {s1, s2}
    NoLink = NoLink
    NoSession = NoSession
    MaxReads = 2
    MaxAsked = 1
CHECK_DEADLOCK FALSE
INVARIANTS
    TypeOK
    SessionGateLive
    AskerIsFound
    DeliveredToOwn
PROPERTY BrokenIsForgotten
