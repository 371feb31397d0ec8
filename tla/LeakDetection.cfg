SPECIFICATION FairSpec
CONSTANTS
    Object = {o1, o2}
    Thresholds <- SomeThresholds
    ProcessStates = {"absent", "foreground"}
    EarlyInit = TRUE
    MaxSessions = 1
    MaxBacklog = 2
    MaxQueries = 1
INVARIANTS TypeOK DumpedHaveSurvived
PROPERTIES LeakRecorded
CHECK_DEADLOCK FALSE
