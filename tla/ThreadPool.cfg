SPECIFICATION FairSpec
CONSTANTS
    Workers = {w1, w2, w3}
    Submitters = {a, b}
    MaxTasks = 4
INVARIANTS TypeOK EachTaskOnce WorkConserving NobodyMissesStop DestructorDrains
PROPERTIES ImplementsTaskQueue PoolFinishes
CHECK_DEADLOCK FALSE
