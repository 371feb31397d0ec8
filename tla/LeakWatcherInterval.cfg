SPECIFICATION Spec
CONSTANTS
    MinCheckInterval = 4
    DefaultDumpWait = 2
    NativeGcDelay = 4
    NativeDumpDelay = 1
    WordSize = 16
    ObjectConfigs <- NoObjects
    LegacyArgs <- NoArgs
    ContextKnown = TRUE
    MaxSessions = 2
    MaxWait = 5
PROPERTIES CheckEvery90s
