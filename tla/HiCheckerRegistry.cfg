SPECIFICATION BindingsSpec
CONSTANTS
    t1 = t1
    t2 = t2
    Thread = {t1, t2}
    NoThread = NoThread
    RuleArgs <- BindingArgs
    ParamValues <- BindingParams
    Triggers <- BindingTriggers
    JsValues <- BindingValues
INVARIANTS RuleWordRoundTrips
PROPERTIES RegistryAtomic ThrownIsRefused LockReleased NotifyFinishes
CHECK_DEADLOCK FALSE
