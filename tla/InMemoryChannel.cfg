CONSTANTS
    Byte = {0, 1}
    MaxPacket = 2
    MaxRecv = 3
    MaxSent = 4
    MaxQueue = 3
SPECIFICATION FairSpec
INVARIANTS
    RecvInOrder
    FlushNeverWaits
PROPERTIES
    ImplementsStream
    RecvReturns
CHECK_DEADLOCK FALSE
