SPECIFICATION FairSpec
CONSTANTS
    Context = {c1, c2}
    NoContext = NoContext
    Configs <- SomeConfigs
    MaxSessions = 3
    MaxBacklog = 2
INVARIANTS TypeOK SilentAfterShutdown ReferencesKept
PROPERTIES RegisteredOrGivenUp
CHECK_DEADLOCK FALSE
