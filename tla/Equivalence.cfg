CONSTANTS
    RunPairs <- RowPairs
    Reference <- RowReference
    Candidates <- RowCandidates
    Expected = 2
    One = 10
    Delta = 2
    Intervals <- SomeIntervals
    Descriptive <- SomeDescriptive
    FormatNames <- ShardFormats
    Pairs = {"p1", "p2", "p3"}
    FormatsOf <- ShardPairs
    Selections <- ShardSelections
    Failures <- ShardFailures
    Shards = 2
    Terminal = {"unsupported"}
    Protocols = {"one", "other"}
    Merges = {m1, m2}
    None = None
SYMMETRY MergeSymmetry
SPECIFICATION MCSpec
INVARIANTS
    MCTypeOK
    ConclusionsAgree
    VerdictIsFounded
    MergedIsARun
    OneMergeInOutput
\* A run that has concluded and a merge that has ended stop.
CHECK_DEADLOCK FALSE
