SPECIFICATION Spec
CONSTANTS
    Conns = {c1, c2, c3}
    Players = {p1}
    NoConn = NoConn
    NoPlayer = NoPlayer
    MaxSession = 2
    MaxLogins = 1
    KickLimit = 2
    MaxUnknown = 2
CHECK_DEADLOCK FALSE
INVARIANT OneSessionPerPlayer
