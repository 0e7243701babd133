CONSTANTS
    t1 = t1
    t2 = t2
    t3 = t3
    NULL = NULL
    Callers = {c1}
    Tasks = {t1, t2, t3}
    Prio <- PrioRanked
    LateSubscribers = FALSE
SPECIFICATION Spec
INVARIANTS
    SubscribersListed
CHECK_DEADLOCK FALSE
