SPECIFICATION Spec
CONSTANTS
    t1 = t1
    t2 = t2
    Thread = {t1, t2}
    NoThread = NoThread
    RuleArgs <- MixedArgs
    ParamValues <- NoParams
    Triggers <- MixedTriggers
SYMMETRY Symmetry
INVARIANTS TypeOK IInv SlowEventModeAgrees NoTornMask AlarmJustified AlarmNotLost CrashJustified CrashHonoured
CHECK_DEADLOCK FALSE
