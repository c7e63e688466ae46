CONSTANTS
    Writes = {w1, w2, w3}
    Names = {n1, n2}
    Size = 2
SPECIFICATION Spec
INVARIANTS
    PrivateUntilPublished
PROPERTIES
    FollowsContract
