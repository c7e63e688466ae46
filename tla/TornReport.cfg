SPECIFICATION Spec
CONSTANTS
    csv = csv
    db = db
    Formats <- MCFormats
    FairFormats <- MCFairFormats
    Pairs <- MCPairs
    Profiles <- MCProfiles
    MaxRuns = 2
CHECK_DEADLOCK FALSE
INVARIANT ArchivedReportAgrees
