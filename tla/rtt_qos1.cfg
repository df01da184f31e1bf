SPECIFICATION FairSpec
CONSTANTS
    QOS = 1
    MAX_ITER = 2
    Subs <- OneSub
    Pubs <- OnePub
    Others = FALSE
    MaxKills = 0
    Faults <- NoFault
    MaxInTransit = 2
    MAX_MSG_ID = 3
    NULL = NULL
    s1 = s1
    p1 = p1
    p2 = p2
INVARIANT TypeOK
INVARIANT SummaryComplete
INVARIANT OwnAck
PROPERTY Terminates
