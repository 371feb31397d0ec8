SPECIFICATION FairSpec
CONSTANTS
    Process = {p1}
    Calls = {"raw", "list", "sync", "refused"}
    MaxFileNum = 2
    Faults = {"create", "dump", "metadata"}
    MaxDumps = 3
INVARIANTS OneDumpKept SnapshotHashMatches
PROPERTIES ReportedFilesExist DumpAnswered
CHECK_DEADLOCK FALSE
