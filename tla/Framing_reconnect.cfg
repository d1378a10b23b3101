SPECIFICATION Spec
CONSTANTS
    Packets <- MCPackets
    SenderVersion = 1
    LengthModulus = 4
    SocketCapacity = 20
    Garbage <- MCGarbage
    Receiver = "client"
    MaxSent = 2
    MaxConnections = 2
INVARIANT WholeMessages
CHECK_DEADLOCK FALSE
