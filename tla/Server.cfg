SPECIFICATION FairSpec
CONSTANTS
    Sessions = {s1, s2}
    Callers = {"handler", "thread"}
    MaxSends = 1
    MaxStarts = 2
INVARIANTS TypeOK ListedUntilClosed ClosingFlagExact AudienceReached HandlersAreSafe
PROPERTIES ImplementsRegistry SilentClientIsDropped
CHECK_DEADLOCK FALSE
