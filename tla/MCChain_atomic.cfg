SPECIFICATION Spec
CONSTANTS
    Addresses = {"alice", "bob"}
    Assets = {1, 2}
    AssetMax = 4
    Wrap = 16
    MaxTransactions = 3
    MinTransactions = 1
    MaxAffairs = 2
    MinAffairs = 0
    Node = "alice"
    MayExpire <- ShortLived
    MaxBlocks = 2
    MaxCrashes = 0
    NoState = NoState
    Inputs <- MixedInputs
    AffairInputs <- MixedAffairs
    MaxSubmits = 3
PROPERTY InsertIsAtomic
CHECK_DEADLOCK FALSE
