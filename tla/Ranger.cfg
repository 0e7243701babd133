CONSTANTS
    Euis = {"0c0412000ba3", "5ffc11000ba3", "120b12000ba3", "110812000ba3", "c0ffee000ba3"}
    LoopsPerRecovery = 4
    Sleep = 1
    RangeDelay = 2
SPECIFICATION Spec
INVARIANTS
    TypeOK
    MisreadNeverAnchor
    AsksOnlyAnchors
    DeafnessBounded
PROPERTIES
    AnswerHasTime
    ReceiverRecovers
    EveryAnchorAsked
