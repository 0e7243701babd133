CONSTANTS
    Writers = {irqThread}
    Pump = pumpThread
    Prio <- PrioIrq
    QueueFrames = 1
    MaxCalls = 4
SPECIFICATION Spec
PROPERTIES
    FramesAdvance
    StoredIsReported
