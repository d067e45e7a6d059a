SPECIFICATION Spec
CONSTANTS
    HeartbeatInterval = 2
    HeartbeatTimeout = 2
    GcInterval = 3
    LoginTimeout = 2
    LoginRateLimitCount = 2
    LoginRateLimitWindow = 2
    ReadTimeout = 3
    PongTimeout = 3
    MaxLogins = 2
CHECK_DEADLOCK FALSE
INVARIANTS
    PassesBounded
    LoginResolved
    SilentIsFound
    OfflineIsCollected
PROPERTY KeptForResume
