SPECIFICATION Spec
CONSTANTS
    t1 = t1
    t2 = t2
    Thread = {t1, t2}
    NoThread = NoThread
    RuleArgs <- MixedArgs
    ParamValues <- NoParams
    Triggers <- MixedTriggers
INVARIANT CrashOnAlarm
CHECK_DEADLOCK FALSE
