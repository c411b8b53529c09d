SPECIFICATION FairSpec
CONSTANTS
    PieceCount = 4
    ResponsePieces = 1
    MaxFaults = 1
    PoolMayRefuse = TRUE
    BufferReuse = TRUE
    MaxExpiry = 0
    MaxStray = 0
    TryTimes = 2
INVARIANT WaitsOnlyAfterDelivery
PROPERTY CallReturns
