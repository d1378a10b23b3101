SPECIFICATION ConnectionSpec
CONSTANTS
    Callers = {"handler"}
    RawReadings = {"inactive"}
    MaxConnects = 2
    MaxStarts = 2
INVARIANTS ConnectionTypeOK ConnectedThroughLast
PROPERTIES NoSessionIsAbandoned LossIsLearned
CHECK_DEADLOCK FALSE
