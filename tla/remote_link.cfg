SPECIFICATION FairSpec
CONSTANTS
    Senders = {s1, s2}
    QueueCap = 2
    RetryMax = 1
    MaxSent = 4
    MaxLinks = 2
    MaxPings = 1
CHECK_DEADLOCK FALSE
INVARIANTS
    TypeOK
    InOrder
PROPERTIES
    LossySpec
    QueueDrains
