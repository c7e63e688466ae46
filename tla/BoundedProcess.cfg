SPECIFICATION Spec
CONSTANTS
    leader = leader
    k1 = k1
    k2 = k2
    Leader = leader
    Descendants = {k1}
    Budget = 2
    MaxChunk = 1
    MaxBytes = 2
\* A supervised process may exit or wait for good.
CHECK_DEADLOCK FALSE
INVARIANTS
    CrashIsTheWorkersOwn
    KillReachesGroup
    NothingUnread
    ResponseIsWhole
    BudgetIsShared
PROPERTY AlwaysReturns
