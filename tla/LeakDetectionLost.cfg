SPECIFICATION Spec
CONSTANTS
    Object = {o1, o2}
    Thresholds <- SomeThresholds
    ProcessStates = {"foreground", "background"}
    EarlyInit = FALSE
    MaxSessions = 1
    MaxBacklog = 2
    MaxQueries = 1
PROPERTIES NotNewIsDumped
CHECK_DEADLOCK FALSE
