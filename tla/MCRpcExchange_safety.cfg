SPECIFICATION Spec
CONSTANTS
    PieceCount = 2
    ResponsePieces = 2
    MaxFaults = 0
    PoolMayRefuse = TRUE
    BufferReuse = FALSE
    MaxExpiry = 2
    MaxStray = 1
    TryTimes = 2
INVARIANT TypeOK
INVARIANT OneExecutionPerRequest
INVARIANT ResponseAckSound
INVARIANT SuccessIsReal
PROPERTY ImplementsCall
