----------------------------- MODULE BlockStore -----------------------------
(***************************************************************************)
(* The block connector (include/db/connector_block.cpp), the writes of the *)
(* account connector, the genesis block of application.cpp, and a crash    *)
(* between any two writes.                                                 *)
(*                                                                         *)
(* There are five LevelDB databases.  A batch is written atomically and a  *)
(* write that has returned survives a crash of the process.  Writes do not *)
(* fail: what the code does after one that does (it has already dropped    *)
(* what it could not write) is not in the model.                           *)
(***************************************************************************)
EXTENDS Ledger

CONSTANTS
    MaxCrashes,       \* bound: restarts of the process
    NoState           \* a null value

ASSUME StoreAssumption == MaxCrashes \in Nat /\ NoState \notin [height : Nat, top : Nat]

VARIABLES
    currentHeight, topBlock,   \* connector_block's view of the chain
    diskTrie,         \* extensions_db: the root of the stored trie
    diskAccounts,     \* accounts_db
    diskFilters,      \* assets_db: filters by <<block, height>>
    diskBlocks,       \* blocks_db: blocks by height
    diskState,        \* the application_state in chain_db
    crashes,          \* restarts so far
    torn              \* history: a crash fell between accounts and state

connectorVars == <<currentHeight, topBlock>>
diskVars == <<diskTrie, diskAccounts, diskFilters, diskBlocks, diskState>>
storeVars == <<connectorVars, diskVars, crashes, torn>>

Genesis == 0      \* the hash of the genesis block

\* application::initialize finds no state: the state is written first ...
GenesisState ==
    /\ step = "genesis"
    /\ diskState' = [height |-> 0, top |-> Genesis]
    /\ step' = "genesisBlock"
    /\ UNCHANGED <<blk, ledgerVars, connectorVars, diskTrie, diskAccounts, diskFilters,
                   diskBlocks, crashes, torn>>

\* ... then the block, whose header says height 1 and whose key is 0.  Its
\* affairs, the initial public keys, are left out: no account comes from them.
GenesisBlock ==
    /\ step = "genesisBlock"
    /\ diskBlocks' = Put(diskBlocks, 0, [transactions |-> <<>>, affairs |-> <<>>,
                                         height |-> 1, prev |-> 0, id |-> Genesis])
    /\ step' = "idle"
    /\ UNCHANGED <<blk, ledgerVars, connectorVars, diskTrie, diskAccounts, diskFilters,
                   diskState, crashes, torn>>

\* total_commit_to_leveldb, one write at a time: the trie ...
CommitExtensions ==
    /\ step = "packed"
    /\ diskTrie' = IF extensions = <<>> THEN diskTrie ELSE Last(extensions)
    /\ extensions' = <<>>
    /\ step' = "accounts"
    /\ UNCHANGED <<blk, accounts, assetFilter, rootHash, height, top, threw, commits, rollbacks, filters,
                   connectorVars, diskAccounts, diskFilters, diskBlocks, diskState, crashes, torn>>

Overwrite(f, g) == [x \in DOMAIN f \cup DOMAIN g |-> IF x \in DOMAIN g THEN g[x] ELSE f[x]]

\* ... the accounts ...
CommitAccounts ==
    /\ step = "accounts"
    /\ diskAccounts' = FoldLeft(LAMBDA f, c : Overwrite(f, c.accounts), diskAccounts, commits)
    /\ commits' = <<>>
    /\ step' = "filter"
    /\ UNCHANGED <<blk, accounts, assetFilter, rootHash, height, top, threw, rollbacks, filters, extensions,
                   connectorVars, diskTrie, diskFilters, diskBlocks, diskState, crashes, torn>>

\* ... and one filter, under the hash and the height it was given; then the
\* rollbacks are dropped.
CommitFilter ==
    /\ step = "filter"
    /\ diskFilters' = IF filters = <<>> THEN diskFilters
                      ELSE Put(diskFilters, <<top, height>>, Head(filters))
    /\ filters' = IF filters = <<>> THEN filters ELSE Tail(filters)
    /\ rollbacks' = <<>>
    /\ step' = "block"
    /\ UNCHANGED <<blk, accounts, assetFilter, rootHash, height, top, threw, commits, extensions,
                   connectorVars, diskTrie, diskAccounts, diskBlocks, diskState, crashes, torn>>

\* input_block_cache, and the first write of insert_block_save_to_disk.
SaveBlock ==
    /\ step = "block"
    /\ diskBlocks' = Put(diskBlocks, blk.height, blk)
    /\ step' = "state"
    /\ UNCHANGED <<blk, ledgerVars, connectorVars, diskTrie, diskAccounts, diskFilters,
                   diskState, crashes, torn>>

\* The second write: the chain has grown.
SaveState ==
    /\ step = "state"
    /\ diskState' = [height |-> blk.height, top |-> blk.id]
    /\ step' = "idle" /\ blk' = NoWork
    /\ UNCHANGED <<ledgerVars, connectorVars, diskTrie, diskAccounts, diskFilters,
                   diskBlocks, crashes, torn>>

\* update_connector, with the account connector's view.
UpdateConnector ==
    /\ step = "idle"
    /\ currentHeight' = height /\ topBlock' = top
    /\ UNCHANGED <<step, blk, ledgerVars, diskVars, crashes, torn>>

\* The accounts were written for a block the state does not know.
AccountsAhead == step \in {"filter", "block", "state"}

\* Mutant of LoadedFilter: the stored filter is not found.
NoLoadedFilter(key) == {}

\* connector_account's constructor.  StoredFilterKnowsAssets says that the filter
\* of a stored block is found; were it not, the constructor would log it and leave
\* the root hash without a value.
LoadedFilter(key) == IF key \in DOMAIN diskFilters THEN diskFilters[key] ELSE {}

\* The process ends, at any point, and is started again: what was in memory is
\* read from the disk.  A trie that does not belong to the stored accounts makes
\* later operations throw; the model stops there ("damaged").
Restart ==
    /\ crashes < MaxCrashes
    /\ crashes' = crashes + 1
    /\ torn' = (torn \/ AccountsAhead)
    /\ commits' = <<>> /\ rollbacks' = <<>> /\ filters' = <<>> /\ extensions' = <<>>
    /\ accounts' = diskAccounts /\ rootHash' = diskTrie
    /\ \/ /\ diskState = NoState
          /\ step' = "genesis"
          /\ height' = 0 /\ top' = Genesis /\ assetFilter' = {}
       \/ /\ diskState # NoState
          /\ step' = IF diskTrie = RootOf(diskAccounts) THEN "idle" ELSE "damaged"
          /\ height' = diskState.height /\ top' = diskState.top
          /\ assetFilter' = LoadedFilter(<<top', height'>>)
    /\ currentHeight' = height' /\ topBlock' = top'
    /\ blk' = NoWork
    /\ UNCHANGED <<diskVars, threw>>

StoreNext ==
    \/ GenesisState \/ GenesisBlock
    \/ CommitExtensions \/ CommitAccounts \/ CommitFilter \/ SaveBlock \/ SaveState
    \/ UpdateConnector
=============================================================================
