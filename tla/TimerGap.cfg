CONSTANTS
    VecLen = 3
    WordModulus = 16
    CyclesPerUs = 3
    MaxNow = 20
    MaxSamples = 4
    Preemptible = TRUE
    CallsInTime = TRUE
    StopsOnce = TRUE
SPECIFICATION Spec
INVARIANTS
    ReturnsTimeFromStart
CHECK_DEADLOCK FALSE
