CONSTANTS
    NOps = 3
    OpType <- MCOpType
    AutoReconnect = TRUE
    SendWhileDisconnected = TRUE
    MaxBuffered = 1
    DeleteOldest = TRUE
    MaxInflight = 2
    MaxMsgId = 4
    ServerURIcount = 0
    VersionDefault = TRUE
    MaxConnects = 1
    MaxCalls = 1
    MaxFaults = 1
    MaxDelays = 1
SPECIFICATION Spec
INVARIANTS TypeOK OneReply TokensUnique SuccessIsReal StoreMatchesQueue InOrder CompleteIsAnswered
PROPERTIES EventuallyAnswered Reconnects
CHECK_DEADLOCK FALSE
