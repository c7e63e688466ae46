SPECIFICATION Spec
CONSTANTS
    Ids = {1, 2, 3}
    Content = {"x", "y"}
    Target = 2
    MaxRevision = 2
    Nothing = Nothing
\* A capture ends.
CHECK_DEADLOCK FALSE
INVARIANTS
    RowsHaveEvidence
    CompleteIsWhole
PROPERTIES
    OutputIsSnapshot
    FinalIsFinal
    AlwaysEnds
