SPECIFICATION Spec
CONSTANTS
    Tasks = {"t1", "t2", "t3", "t4"}
    Callers = {1, 2}
    Batch <- FourTasks
    Cores = 3
    MaxThreadCount = 4
    QueueMaxSize = 3
    Flexible = TRUE
    CloseStrategies = {"DiscardAllTasks", "WaitAllTaskFinish", "ReturnTaskAndClose"}
    CloseAfterStart = TRUE
    SpawnMayFail = TRUE
    MaxSpurious = 0
    NoTask = NoTask
    NoSlot = 0
INVARIANT VacantAccounting
INVARIANT DynamicAccounting
INVARIANT TerminatedMeansStopped
CHECK_DEADLOCK FALSE
