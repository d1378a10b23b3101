SPECIFICATION Spec
CONSTANTS
    Packets <- MCPackets
    SenderVersion = 1
    LengthModulus = 4
    SocketCapacity = 6
    Garbage <- MCGarbage
    Receiver = "session"
    MaxSent = 2
    MaxConnections = 1
INVARIANT IntactDelivery
CHECK_DEADLOCK FALSE
