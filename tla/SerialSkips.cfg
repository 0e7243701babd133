CONSTANTS
    Writers = {w1}
    Pump = pumpThread
    Prio <- PrioEqual
    QueueFrames = 2
    MaxCalls = 3
SPECIFICATION Spec
PROPERTIES
    NoRecordSkipped
