------------------------------- MODULE Chain -------------------------------
(***************************************************************************)
(* A node that produces blocks, as docs/workflow/create_block_flow.md runs *)
(* the connectors: submit, package a body, fill the header, insert into    *)
(* the trie, write the data, the block and the state.  The node is one     *)
(* thread; a crash can fall between any two of its writes.                 *)
(***************************************************************************)
EXTENDS BlockPackager, BlockStore

CONSTANTS
    Inputs,           \* the transactions clients may submit
    AffairInputs,     \* the affairs clients may submit
    MaxSubmits        \* bound: submissions

ASSUME InputAssumption ==
    /\ Inputs \subseteq Transactions /\ AffairInputs \subseteq Affairs
    /\ MaxSubmits \in Nat

VARIABLE submits      \* submissions so far

vars == <<step, blk, ledgerVars, queueVars, packVars, storeVars, submits>>

Init ==
    /\ step = "genesis" /\ blk = NoWork
    /\ accounts = Nothing /\ assetFilter = {} /\ rootHash = Nothing
    /\ height = 0 /\ top = Genesis
    /\ commits = <<>> /\ rollbacks = <<>> /\ filters = <<>> /\ extensions = <<>>
    /\ transactionsQueue = <<>> /\ affairsQueue = <<>>
    /\ start = 1 /\ added = FALSE /\ receipts = Nothing /\ filter = {}
    /\ expired = {} /\ trying = FALSE /\ serial = 0
    /\ currentHeight = 0 /\ topBlock = Genesis
    /\ diskTrie = Nothing /\ diskAccounts = Nothing /\ diskFilters = Nothing
    /\ diskBlocks = Nothing /\ diskState = NoState
    /\ crashes = 0 /\ torn = FALSE /\ threw = FALSE /\ submits = 0

\* The queues are public lists: an item is appended without a check.
Submit ==
    /\ step = "idle" /\ submits < MaxSubmits
    /\ submits' = submits + 1
    /\ \/ \E t \in Inputs : /\ transactionsQueue' = Append(transactionsQueue, t)
                            /\ UNCHANGED affairsQueue
       \/ \E air \in AffairInputs : /\ affairsQueue' = Append(affairsQueue, air)
                                    /\ UNCHANGED transactionsQueue
    /\ UNCHANGED <<step, blk, ledgerVars, packVars, storeVars>>

\* Items that have expired are also erased when the waiting ones are counted; the
\* count reads the time for itself.
Waiting(q, late) == FoldLeft(LAMBDA kept, item : IF item \in late THEN kept ELSE Append(kept, item), <<>>, q)

transaction_pool_waiting_count ==
    /\ step = "idle"
    /\ \E late \in SUBSET MayExpire : expired' = expired \cup late
    /\ transactionsQueue' = Waiting(transactionsQueue, expired')
    /\ affairsQueue' = Waiting(affairsQueue, expired')
    /\ UNCHANGED <<step, blk, ledgerVars, start, added, receipts, filter, trying, serial, storeVars, submits>>

\* package_next_block_header: outside the limits the block is given up.
PackageHeader ==
    /\ step = "header"
    /\ \/ /\ WithinLimits(blk)
          /\ blk' = [blk EXCEPT !.height = currentHeight + 1, !.prev = topBlock]
          /\ step' = "root"
       \/ /\ ~WithinLimits(blk)
          /\ step' = "idle" /\ blk' = NoWork
    /\ UNCHANGED <<ledgerVars, queueVars, packVars, storeVars, submits>>

\* What a process loses when it ends, beside the connectors' state.
LosePool ==
    /\ transactionsQueue' = <<>> /\ affairsQueue' = <<>>
    /\ start' = 1 /\ added' = FALSE /\ receipts' = Nothing /\ filter' = {}
    /\ UNCHANGED <<expired, trying, serial, submits>>

Next ==
    \/ Submit
    \/ transaction_pool_waiting_count
    \/ PackagerNext /\ UNCHANGED <<storeVars, submits>>
    \/ PackageHeader
    \/ (PackageRoot \/ TotalRollback) /\ UNCHANGED <<queueVars, packVars, storeVars, submits>>
    \/ StoreNext /\ UNCHANGED <<queueVars, packVars, submits>>
    \/ Restart /\ LosePool

Spec == Init /\ [][Next]_vars

-----------------------------------------------------------------------------
(* Views of the chain *)

\* No block: what a missing one would read as.
NoBlock == [NoWork EXCEPT !.prev = -1]

\* The blocks on disk up to the stored state.
Durable == IF diskState = NoState THEN <<>>
           ELSE [i \in 1 .. diskState.height |->
                    IF i \in DOMAIN diskBlocks THEN diskBlocks[i] ELSE NoBlock]

\* The chain the accounts in memory belong to: also the block that is inserted
\* and not yet on disk.
InMemory == IF diskState # NoState /\ height > diskState.height
            THEN Append(Durable, blk) ELSE Durable

TransactionsOf(chain) == FoldLeft(LAMBDA txs, b : txs \o b.transactions, <<>>, chain)

Total(amounts) == FoldLeft(LAMBDA n, m : n + m, 0, amounts)

Sent(txs, x, a) ==
    Total([i \in 1 .. Len(txs) |->
              IF txs[i].op = "Append" /\ txs[i].sender = x /\ txs[i].asset = a THEN txs[i].count ELSE 0])

Received(txs, x, a) ==
    LET to(t) == [i \in 1 .. Len(t.outs) |-> IF t.outs[i].receiver = x THEN t.outs[i].count ELSE 0]
    IN  Total([i \in 1 .. Len(txs) |->
                  IF txs[i].op = "Append" /\ txs[i].asset = a THEN Total(to(txs[i])) ELSE 0])

Established(txs, x, a) ==
    Total([i \in 1 .. Len(txs) |->
              IF txs[i].op = "Establish" /\ txs[i].sender = x /\ txs[i].asset = a THEN AssetMax ELSE 0])

\* The outputs of a transfer add up to its count, without wrapping; check_block_body
\* compares them modulo 2^64, and only for a sender that has an account.
OutAmounts(outs) == [i \in 1 .. Len(outs) |-> outs[i].count]
WellFormed(t) == t.op = "Append" => Total(OutAmounts(t.outs)) = t.count
WellFormedInputs == \A t \in Inputs : WellFormed(t)

BalanceOf(x, a) == IF x \in DOMAIN accounts THEN get_balance(accounts[x], a) ELSE 0

\* The accounts stand for the chain: no total_rollback or insert_block has
\* thrown, and no crash fell between two writes that belong together.
Sound == step \notin {"failed", "damaged"} /\ ~torn /\ ~threw

-----------------------------------------------------------------------------
(* Properties *)

Steps == {"genesis", "genesisBlock", "idle", "transactions", "affairs", "tried", "header", "root",
          "packed", "accounts", "filter", "block", "state", "failed", "damaged"}

TypeOK ==
    /\ step \in Steps
    /\ height \in Nat /\ currentHeight \in Nat
    /\ \A x \in DOMAIN accounts : /\ x \in Addresses
                                  /\ accounts[x].nonce \in Uint64
                                  /\ \A a \in DOMAIN accounts[x].balances :
                                        a \in Assets /\ accounts[x].balances[a] \in Uint64
    /\ transactionsQueue \in Seq(Inputs)
    /\ start \in 1 .. Len(transactionsQueue) + Len(affairsQueue) + 1
    /\ filter \subseteq Assets /\ assetFilter \subseteq Assets

\* A body never spends more than its senders have: over all passes and all
\* refused transfers whose amounts package_next_block_body takes back, what the
\* accepted transfers of one account spend of one asset, as a uint64_t adds it up,
\* is covered by its balance and by what the body itself establishes.
NoOverspend ==
    step \in {"transactions", "affairs", "tried", "header"} =>
        \A x \in Addresses, a \in Assets :
            Sent(blk.transactions, x, a) % Wrap <= BalanceOf(x, a) + Established(blk.transactions, x, a)

\* The transactions of one sender in a body carry different nonces, all above
\* the account's: refusing an item never makes room for a used nonce.  An account
\* whose nonce is 2^64 - 1, as undoing an establishment that never happened can leave
\* it (connector_account.cpp:708), starts again from 0.  The affairs are not part of
\* the claim: std::remove at connector_account.cpp:294 takes every copy of a refused
\* affair's nonce and so makes room for one that is used.
FreshNonces ==
    step \in {"transactions", "affairs", "tried", "header"} =>
        \A i, j \in 1 .. Len(blk.transactions) :
            LET t == blk.transactions[i]
                u == blk.transactions[j]
            IN  /\ t.sender \in DOMAIN accounts => \/ t.nonce > accounts[t.sender].nonce
                                                  \/ accounts[t.sender].nonce = Wrap - 1
                /\ t.sender = u.sender /\ t.nonce = u.nonce => i = j

\* The balances in memory are what the transactions of the chain add up to,
\* after every insertion, rollback and restart.
BalancesAreHistory ==
    Sound =>
        LET txs == TransactionsOf(InMemory)
        IN  \A x \in Addresses, a \in Assets :
                BalanceOf(x, a) + Sent(txs, x, a) = Established(txs, x, a) + Received(txs, x, a)

\* As long as every transfer a client submits pays out what it takes, an asset that
\* exists has its full supply, no more: it is established once, also across blocks,
\* rollbacks and restarts.  The restriction is the clients' and not the chain's:
\* check_block_body compares the outs with the count only for a sender that has an
\* account (connector_account.cpp:314-330), so a transfer in the block that creates
\* its sender may pay out more than it takes.
SupplyConserved ==
    Sound /\ WellFormedInputs =>
        \A a \in Assets :
            LET supply == FoldFunctionOnSet(LAMBDA x, y : x + y, 0,
                                            [x \in Addresses |-> BalanceOf(x, a)], Addresses)
            IN  supply \in {0, AssetMax}

\* No transfer is in the chain twice, however often it is submitted and put back and
\* wherever a crash falls, also between the writes of one block.  An insertion that
\* throws is outside the claim: what it undoes too much lowers nonces.
NoReplay ==
    ~threw =>
        \A i, k \in 1 .. Len(InMemory) :
            LET b == InMemory[i].transactions
                c == InMemory[k].transactions
            IN  \A j \in 1 .. Len(b), l \in 1 .. Len(c) :
                    /\ b[j].op = "Append" /\ c[l].op = "Append"
                    /\ b[j].sender = c[l].sender /\ b[j].nonce = c[l].nonce
                    => i = k /\ j = l

\* A block's commit forgets no account: once it is written, the disk holds the
\* accounts the memory has, as far as the hash of an account can tell (a
\* total_rollback compares no more than the root).
CommitComplete ==
    ~threw /\ step \in {"filter", "block", "state", "idle", "transactions", "affairs", "header", "root"} =>
        RootOf(diskAccounts) = RootOf(accounts)

\* The filter a restart will load knows every asset of the stored chain, so no
\* asset can be established again.
StoredFilterKnowsAssets ==
    diskState # NoState /\ diskState.height > 0 =>
        LET key == <<diskState.top, diskState.height>>
        IN  /\ key \in DOMAIN diskFilters
            /\ \A i \in 1 .. Len(Durable) : \A j \in 1 .. Len(Durable[i].transactions) :
                   LET t == Durable[i].transactions[j]
                   IN  t.op = "Establish" => t.asset \in diskFilters[key]

\* The stored chain only grows, block by block, through every crash.
Stored == INSTANCE DurableChain WITH GenesisHash <- Genesis, chain <- Durable
ImplementsDurable == Stored!DurableSpec

\* A block that is not inserted leaves the accounts as they were.
InsertIsAtomic == [][step = "root" /\ step' = "idle" => accounts' = accounts]_vars

\* A body holds no more transactions than transaction_maximum_number_in_block.
\* False (README, section 7), so no run checks it.
BlockLimit == step \in {"header", "tried"} => Len(blk.transactions) <= MaxTransactions

\* The filter and the trie agree: the filter holds the assets some account has.
\* False (README, section 7), so no run checks it.
FilterMatchesAccounts ==
    Sound => assetFilter = UNION {DOMAIN accounts[x].balances : x \in DOMAIN accounts}
=============================================================================
