CONSTANTS
    Eui <- EuiBytes
    MaxResets = 2
SPECIFICATION Spec
INVARIANTS
    TypeOK
    OneHangPerRequest
    RadioFresh
    HeaderExpected
    IdOfThisBoard
    ChipsDeselected
    NoContention
    DriversWired
PROPERTIES
    WritesReachPads
    Settles
CHECK_DEADLOCK FALSE
