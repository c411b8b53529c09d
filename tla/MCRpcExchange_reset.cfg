SPECIFICATION FairSpec
CONSTANTS
    PieceCount = 2
    ResponsePieces = 1
    MaxFaults = 0
    PoolMayRefuse = FALSE
    BufferReuse = FALSE
    MaxExpiry = 1
    MaxStray = 1
    TryTimes = 2
PROPERTY CallReturns
