SPECIFICATION Spec
CONSTANTS
    Conns = {c1, c2}
    Players = {p1}
    NoConn = NoConn
    NoPlayer = NoPlayer
    Heart = Heart
    Collector = Collector
    PoolSize = 1
    MaxSession = 2
    MaxLogins = 1
    MaxBusy = 2
CHECK_DEADLOCK FALSE
INVARIANTS
    RepliesGoHome
    UnracedIsCoherent
    NoConnLeaked
