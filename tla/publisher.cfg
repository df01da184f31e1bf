SPECIFICATION FairSpec
CONSTANTS
    QOS = 1
    MAX_ITER = 0
    Subs <- NoThread
    Pubs <- OnePub
    Others = FALSE
    MaxKills = 2
    Faults <- NoFault
    MaxInTransit = 3
    MAX_MSG_ID = 3
    NULL = NULL
    s1 = s1
    p1 = p1
    p2 = p2
INVARIANT CallbackOwnsEntry
PROPERTY StopsOnKill
