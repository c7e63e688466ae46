SPECIFICATION Spec
CONSTANTS
    csv = csv
    db = db
    Formats <- MCFormats
    FairFormats <- MCFairFormats
    Pairs <- MCPairs
    Profiles <- MCProfiles
    MaxRuns = 2
\* A directory whose prepare stopped before its manifest, or a run that has
\* been packaged twice over, may really stop.
CHECK_DEADLOCK FALSE
INVARIANTS
    RankedPassedRoundTrip
    SpoiledNeverCompared
    ReportShowsEvidence
    ManifestNotAheadOfResults
    MetadataBeforeJobs
PROPERTY EntriesFollowContract
