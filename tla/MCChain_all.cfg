SPECIFICATION Spec
CONSTANTS
    Addresses = {"alice", "bob"}
    Assets = {1, 2}
    AssetMax = 4
    Wrap = 16
    MaxTransactions = 2
    MinTransactions = 1
    MaxAffairs = 2
    MinAffairs = 0
    Node = "alice"
    MayExpire <- ShortLived
    MaxBlocks = 3
    MaxCrashes = 1
    NoState = NoState
    Inputs <- MixedInputs
    AffairInputs <- MixedAffairs
    MaxSubmits = 3
INVARIANTS
    TypeOK
    NoOverspend
    FreshNonces
    BalancesAreHistory
    SupplyConserved
    NoReplay
    CommitComplete
    StoredFilterKnowsAssets
PROPERTY ImplementsDurable
CHECK_DEADLOCK FALSE
