SPECIFICATION Spec
CONSTANTS
    Callers = {"thread"}
    RawReadings = {"inactive"}
    MaxConnects = 4
    MaxStarts = 3
INVARIANT ConnectingIffPending
CHECK_DEADLOCK FALSE
