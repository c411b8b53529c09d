SPECIFICATION FairSpec
CONSTANTS
    Tasks = {"t1", "t2", "t3"}
    Callers = {1, 2}
    Batch <- TwoCallers
    Cores = 2
    MaxThreadCount = 2
    QueueMaxSize = 2
    Flexible = FALSE
    CloseStrategies = {"DiscardAllTasks"}
    CloseAfterStart = TRUE
    SpawnMayFail = FALSE
    MaxSpurious = 1
    NoTask = NoTask
    NoSlot = 0
INVARIANT TypeOK
INVARIANT TaskInOnePlace
INVARIANT OnlyLateTasksLeft
PROPERTY CloseTerminates
PROPERTY AcceptedSettles
