CONSTANTS
    Interval = 4
    Grace = 6
    RetryLoop = 1
    CycleTime = 0
    Latency = 2
    MaxStall = 4
    MaxPartials = 1
    Horizon = 30
SPECIFICATION Spec
INVARIANT ServerLossDetected
CHECK_DEADLOCK FALSE
