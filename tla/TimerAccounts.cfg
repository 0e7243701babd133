CONSTANTS
    VecLen = 3
    WordModulus = 8
    CyclesPerUs = 2
    MaxNow = 18
    MaxSamples = 4
    Preemptible = TRUE
    CallsInTime = TRUE
    StopsOnce = TRUE
SPECIFICATION Spec
INVARIANTS
    TypeOK
    InBounds
    Accounting
    
CHECK_DEADLOCK FALSE
