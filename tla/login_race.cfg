SPECIFICATION Spec
CONSTANTS
    Workers = {w1, w2}
    GameWorkers = {g1}
    Accounts = {a1, a2}
    NoAccount = NoAccount
    NoProfile = NoProfile
    MaxRole = 3
    MayFail = TRUE
CHECK_DEADLOCK FALSE
SYMMETRY Symmetry
INVARIANTS
    TypeOK
    RolesNotShared
    ProfileOfClaimant
    AnsweredRoleStays
