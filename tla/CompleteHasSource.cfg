SPECIFICATION Spec
CONSTANTS
    Ids = {1, 2}
    Content = {"x"}
    Target = 1
    MaxRevision = 0
    Nothing = Nothing
\* A capture ends.
CHECK_DEADLOCK FALSE
INVARIANTS
    CompleteHasSource
