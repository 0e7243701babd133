CONSTANTS
    Writers = {w1, w2}
    Pump = pumpThread
    Prio <- PrioEqual
    QueueFrames = 1
    MaxCalls = 4
SPECIFICATION Spec
INVARIANTS
    TypeOK
    NoTornFrame
PROPERTIES
    ReportsSpec
