SPECIFICATION Spec
CONSTANTS
    Interval = 3
    Timeout = 9
    MaxLate = 2
    MaxDelay = 2
INVARIANT ClientTrustsLiveServer
CHECK_DEADLOCK FALSE
