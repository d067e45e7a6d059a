SPECIFICATION Spec
CONSTANTS
    Players = {p1, p2}
    NoPlayer = NoPlayer
    PoolSize = 2
    MaxSession = 2
    MaxReads = 1
    MaxFlight = 2
    MaxRuns = 2
    MaxFaults = 1
SYMMETRY Symmetry
CHECK_DEADLOCK FALSE
INVARIANTS
    HandledForSender
    BoundToOwn
    QuietAgrees
