CONSTANTS
    NumWorkers = 2
    QueueSize = 2
    BatchSize = 2
    MaxTasks = 6
    High = {}
SPECIFICATION Spec
INVARIANT FullMeansSync
CHECK_DEADLOCK FALSE
