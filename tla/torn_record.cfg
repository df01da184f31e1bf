CONSTANTS
    NOut = 1
    OutQos <- MCOneQos2
    NIn = 0
    InQos <- MCNoMessages
    MaxMsgId = 3
    LastIds = {0}
    MaxInflight = 1
    SeqnoLimit = 10
    CleanSession = FALSE
    MaxMessages = 1
    MaxDelays = 0
    MaxCrashes = 1
    MaxBreaks = 1
SPECIFICATION Spec
INVARIANT ExactlyOnce
CHECK_DEADLOCK FALSE
