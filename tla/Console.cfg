CONSTANTS
    Budgets = {50, 250}
    QueueLen = 1
    MaxKeys = 3
    MaxResets = 3
SPECIFICATION Spec
INVARIANTS
    NoUseBeforeAttach
    NoStaleKey
    Enumerates
PROPERTIES
    ChannelSpec
    KeyAnswered
CHECK_DEADLOCK FALSE
