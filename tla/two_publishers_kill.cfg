SPECIFICATION FairSpec
CONSTANTS
    QOS = 0
    MAX_ITER = 0
    Subs <- NoThread
    Pubs <- TwoPubs
    Others = FALSE
    MaxKills = 1
    Faults <- NoFault
    MaxInTransit = 2
    MAX_MSG_ID = 3
    NULL = NULL
    s1 = s1
    p1 = p1
    p2 = p2
PROPERTY KillStopsPublishers
