CONSTANTS
    NOut = 2
    OutQos <- MCOutQos
    NIn = 2
    InQos <- MCInQos
    MaxMsgId = 3
    LastIds = {0, 2}
    MaxInflight = 2
    SeqnoLimit = 10
    CleanSession = FALSE
    MaxMessages = 3
    MaxDelays = 1
    MaxCrashes = 1
    MaxBreaks = 1
SPECIFICATION Spec
INVARIANTS TypeOK AcknowledgedIsKept Recoverable ArrivesOnce
PROPERTIES ImplementsDelivery Delivers
CHECK_DEADLOCK FALSE
