SPECIFICATION Spec
CONSTANTS
    Sessions = {s1, s2}
    Callers = {"handler", "thread"}
    MaxSends = 1
    MaxStarts = 1
INVARIANTS ListIsGuarded
CHECK_DEADLOCK FALSE
