CONSTANTS
    t1 = t1
    t2 = t2
    t3 = t3
    NULL = NULL
    Callers = {c1}
    Tasks = {t1, t2, t3}
    Prio <- PrioEqual
    LateSubscribers = TRUE
SPECIFICATION Spec
INVARIANTS
    AllSignaled
CHECK_DEADLOCK FALSE
