SPECIFICATION FairSpec
CONSTANTS
    MinCheckInterval = 3
    DefaultDumpWait = 2
    NativeGcDelay = 3
    NativeDumpDelay = 1
    WordSize = 6
    ObjectConfigs <- SomeObjects
    LegacyArgs = {TRUE, FALSE}
    ContextKnown = TRUE
    MaxSessions = 2
    MaxWait = 3
INVARIANTS TypeOK TasksAreCurrent GcScheduled NoDumpBacklog DumpAfterGc
PROPERTIES GcThenDump ChecksSpaced ChecksGoOn KeepsSchedule
