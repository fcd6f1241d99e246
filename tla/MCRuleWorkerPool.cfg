CONSTANTS
    NumWorkers = 2
    QueueSize = 2
    BatchSize = 2
    MaxTasks = 4
    High = {4}
SPECIFICATION Spec
INVARIANTS TypeOK ExactlyOnce CountersBalance PerWorkerOrder
PROPERTIES CallbackReturns TaskSettled StopReturns
CHECK_DEADLOCK FALSE
