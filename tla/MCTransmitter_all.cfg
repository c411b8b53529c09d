SPECIFICATION FairSpec
CONSTANTS
    PieceCount = 1
    ResponsePieces = 2
    MaxFaults = 0
    PoolMayRefuse = FALSE
    BufferReuse = FALSE
    MaxExpiry = 1
    MaxStray = 0
    TryTime = 1
    CommitMayFail = TRUE
    MaxTimers = 1
    MaxInFlight = 2
CHECK_DEADLOCK FALSE
INVARIANT TypeOK
INVARIANT CallbackSound
PROPERTY ImplementsCall
PROPERTY TriggerSettles
