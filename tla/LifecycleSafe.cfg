CONSTANTS
    t1 = t1
    t2 = t2
    t3 = t3
    NULL = NULL
    Callers = {c1, c2}
    Tasks = {t1, t2, t3}
    Prio <- PrioTasksAbove
    LateSubscribers = FALSE
SPECIFICATION Spec
INVARIANTS
    SubscribersListed
    SafeShutdown
    OneTransition
    RunningHasTick
PROPERTIES
    DeinitCompletes
    SafeStopSpec
CHECK_DEADLOCK FALSE
