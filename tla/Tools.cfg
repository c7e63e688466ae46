CONSTANTS
    Threads = {t1, t2}
    MaxFailures = 2
    MaxEdits = 2
    Edits = {"resolve", "reopen", "outdate", "unsound", "escalate", "merge"}
    Foundation = {"label", "milestone"}
    Keys = {"first", "second"}
    Commands = {c1}
    Faults = 2
    AuditEdits = 2
    Absent = Absent
    Runs = {"current", "legacy"}
    Slots = 2
    Candidates <- MCCandidates
    Measurements <- MCMeasurements
    Required = {"legacy"}
    Kills = 1
    None = None
SPECIFICATION MCSpec
INVARIANTS
    MCTypeOK
    NothingTwice
    BrokenSweepIsTakenUp
    ArchiveIsFounded
PROPERTIES
    AuditWritesWhatIs
    BothConverge
    EventuallyPackaged
\* A release that was made stops.
CHECK_DEADLOCK FALSE
