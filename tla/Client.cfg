SPECIFICATION FairSpec
CONSTANTS
    Callers = {"handler", "thread"}
    RawReadings = {"inactive", "active", "active_closing"}
    MaxConnects = 4
    MaxStarts = 3
INVARIANTS TypeOK HandlersConnectingExact ConnectedIffReading
    TimerImpliesConnected ReportsAreDue
PROPERTIES ImplementsLifecycle NothingStaysPending StopReturns
CHECK_DEADLOCK FALSE
