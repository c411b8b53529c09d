SPECIFICATION Spec
CONSTANTS
    Peers = {p1, p2, p3}
    SubReactorCount = 1
    OpenMaxConnection = 2
    MaxFd = 2
    MaxSends = 3
    MaxErrors = 1
    MaxFailures = 2
    MaxTasks = 1
    NoPeer = none
SYMMETRY Symmetry
INVARIANTS
    TypeOK
    CountCoversSlots
    NoDescriptorLeak
    NoStaleRoute
    OwnConnections
    WatchedConnections
CHECK_DEADLOCK FALSE
