SPECIFICATION FairSpec
CONSTANTS
    Tasks = {"t1", "t2"}
    Callers = {1, 2}
    Batch <- TwoSingles
    Cores = 1
    MaxThreadCount = 1
    QueueMaxSize = 2
    Flexible = FALSE
    CloseStrategies = {"WaitAllTaskFinish"}
    CloseAfterStart = TRUE
    SpawnMayFail = FALSE
    MaxSpurious = 0
    NoTask = NoTask
    NoSlot = 0
PROPERTY CloseTerminates
CHECK_DEADLOCK FALSE
