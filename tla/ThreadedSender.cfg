CONSTANTS
    MaxSend = 3
    PacketSize = 2
    Cap = 3
    MaxRecv = 2
SPECIFICATION FairSpec
INVARIANTS
    PeerSeesPrefix
    ThreadEndsForCause
PROPERTIES
    ImplementsStream
    SentArrives
    CloseReturns
CHECK_DEADLOCK FALSE
