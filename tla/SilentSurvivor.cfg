SPECIFICATION Spec
CONSTANTS
    leader = leader
    k1 = k1
    k2 = k2
    Leader = leader
    Descendants = {k1}
    Budget = 1
    MaxChunk = 1
    MaxBytes = 1
CHECK_DEADLOCK FALSE
INVARIANT NoSilentSurvivor
