SPECIFICATION FairSpec
CONSTANTS
    Packets <- MCPackets
    SenderVersion = 1
    LengthModulus = 4
    SocketCapacity = 9
    Garbage <- MCGarbage
    Receiver = "session"
    MaxSent = 3
    MaxConnections = 2
INVARIANTS TypeOK InOrder BufferIsBacklog NothingLeftBehind
PROPERTIES ImplementsPacketStream EveryPacketDispatched
CHECK_DEADLOCK FALSE
