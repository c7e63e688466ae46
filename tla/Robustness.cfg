CONSTANTS
    Cases = 1
    Mutations = 1
    Budgets = {11, 20}
    Reserve = 1
    OutputCap = 1
    FileSizes = {2}
    MaxAttempts = 2
    Expectations = {"MUST_ROUNDTRIP", "MUST_REJECT", "MUST_NOT_CRASH"}
    Inherited = {1, 2, 3}
    Selected <- SelectedTargets
    Available = {"arrow", "fastlanes"}
    CoreTargets = {"arrow"}
    WithCorpus = {"arrow"}
    Seeded = {"fastlanes"}
    Budget = 12
    NativeSizes = {1, 2}
SPECIFICATION MCSpec
INVARIANTS
    MCTypeOK
    BudgetIsKept
    ResultsAreFounded
    GreenIsEarned
    PassIsEarned
    FailIsTheTargets
\* A suite that was published, or started as often as allowed, stops.
CHECK_DEADLOCK FALSE
