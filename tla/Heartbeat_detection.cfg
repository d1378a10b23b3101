SPECIFICATION FairSpec
CONSTANTS
    Interval = 3
    Timeout = 9
    MaxLate = 2
    MaxDelay = 2
INVARIANTS TypeOK SessionTrustsLiveClient SilenceIsNoticed
PROPERTY DeadPeerIsDropped
CHECK_DEADLOCK FALSE
