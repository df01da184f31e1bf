CONSTANTS
    Interval = 10
    Grace = 15
    RetryLoop = 1
    CycleTime = 3
    Latency = 3
    MaxStall = 10
    MaxPartials = 2
    Horizon = 20
SPECIFICATION Spec
INVARIANTS TypeOK AliveKept DeadDetected ServerHears
CHECK_DEADLOCK FALSE
