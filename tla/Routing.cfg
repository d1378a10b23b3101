SPECIFICATION Spec
CONSTANTS
    MaxPackets = 3
    MaxChunk = 2
    MaxSettings = 2
INVARIANTS TypeOK DispatchedOnce EntitledOnly
PROPERTY QuietAfterReport
CHECK_DEADLOCK FALSE
