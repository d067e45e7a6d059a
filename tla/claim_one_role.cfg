SPECIFICATION Spec
CONSTANTS
    Workers = {w1, w2}
    GameWorkers = {g1}
    Accounts = {a1, a2}
    NoAccount = NoAccount
    NoProfile = NoProfile
    MaxRole = 2
    MayFail = FALSE
CHECK_DEADLOCK FALSE
INVARIANT OneRolePerAccount
