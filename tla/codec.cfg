CONSTANTS
    Base = 3
    ByteBase = 8
    MaxLenBytes = 4
    MaxPackets = 3
    Stray <- MCStray
    Packets <- MCPackets
    Followers <- MCFollowers
SPECIFICATION Spec
INVARIANTS TypeOK ReadsWhatWasSent ErrorOnlyIfBad RoomIsExact ReadInTime
CHECK_DEADLOCK FALSE
