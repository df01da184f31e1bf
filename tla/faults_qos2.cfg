SPECIFICATION Spec
CONSTANTS
    QOS = 2
    MAX_ITER = 1
    Subs <- OneSub
    Pubs <- OnePub
    Others = TRUE
    MaxKills = 0
    Faults <- AllFaults
    MaxInTransit = 2
    MAX_MSG_ID = 3
    NULL = NULL
    s1 = s1
    p1 = p1
    p2 = p2
INVARIANT SummaryInv
INVARIANT AckNeverBlocks
INVARIANT ConfirmedWhenDelivered
INVARIANT SampleHasBuffer
CHECK_DEADLOCK FALSE
