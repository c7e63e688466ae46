SPECIFICATION Spec
CONSTANTS
    Processes = 4
    Workers = 2
    EvidenceValues = {"a", "b"}
\* run_job returns.
CHECK_DEADLOCK FALSE
INVARIANTS
    NothingRunsAfterReturn
PROPERTIES
    FollowsContract
    AlwaysDecided
