SPECIFICATION FairSpec
CONSTANTS
    Conns = {c1, c2}
    Players = {p1, p2}
    NoConn = NoConn
    NoPlayer = NoPlayer
    MaxSession = 2
    MaxLogins = 2
    KickLimit = 2
    MaxUnknown = 2
CHECK_DEADLOCK FALSE
INVARIANTS
    TypeOK
    LinkCoherent
    StateCoherent
    OfflineIsNotified
    AttachedNotOffline
    KickLimitEnforced
    IndexNotDangling
PROPERTIES
    DisplacedIsDetached
    LifecycleSpec
    ClosedConnReleased
    QuietGateReclaims
