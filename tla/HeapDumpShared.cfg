SPECIFICATION Spec
CONSTANTS
    Process = {p1, p2}
    Calls = {"raw", "sync"}
    MaxFileNum = 2
    Faults = {"metadata"}
    MaxDumps = 3
SYMMETRY Symmetry
INVARIANTS TypeOK ListCoversHeap KeptInPairs OrphansSwept DirectoryBounded
PROPERTIES OthersKept ReportedFilesExist
CHECK_DEADLOCK FALSE
