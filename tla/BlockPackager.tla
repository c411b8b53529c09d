---------------------------- MODULE BlockPackager ----------------------------
(***************************************************************************)
(* package_next_block_body and try_package_next_block_body of              *)
(* include/db/connector_account.cpp: filling the body of a block from the  *)
(* two waiting queues of the block connector.                              *)
(*                                                                         *)
(* One iteration of an inner loop is one step.  `start` is the iterator,   *)
(* as an index; the end of a pass is an index past the end of the queue.   *)
(***************************************************************************)
EXTENDS Ledger

CONSTANTS
    MaxTransactions,  \* transaction_maximum_number_in_block
    MinTransactions,  \* transaction_minimum_number_in_block
    MaxAffairs,       \* affair_maximum_number_in_block
    MinAffairs,       \* affair_minimum_number_in_block
    Node,             \* the node's own address, owner of the injected affair
    MayExpire,        \* transactions and affairs with a short life
    MaxBlocks         \* bound: blocks whose packaging is started

ASSUME PackagerAssumption ==
    /\ MaxTransactions \in Nat /\ MinTransactions \in Nat
    /\ MaxAffairs \in Nat /\ MinAffairs \in Nat
    /\ MaxBlocks \in Nat
    /\ Node \in Addresses

VARIABLES
    transactionsQueue, affairsQueue,
    start,            \* the iterator
    added,            \* add_count > 0
    receipts,         \* the receipts of this block so far
    filter,           \* the local asset_filter
    expired,          \* items whose time has passed
    trying,           \* the caller is try_package_next_block_body
    serial            \* blocks started so far; stands for the time

queueVars == <<transactionsQueue, affairsQueue>>
packVars == <<start, added, receipts, filter, expired, trying, serial>>

\* package_inject_special_affairs: a new block with the node's own affair.
InjectedBlock(id) ==
    [EmptyBlock(id) EXCEPT !.affairs = <<[owner |-> Node, nonce |-> 0, type |-> "OwnerAddressHash"]>>]

\* The time is read once, when packaging starts.
StartPackaging ==
    /\ step = "idle"
    /\ serial < MaxBlocks
    /\ step' = "transactions"
    /\ serial' = serial + 1
    /\ \/ trying' = FALSE /\ blk' = InjectedBlock(serial')
       \/ trying' = TRUE /\ blk' = EmptyBlock(serial')
    /\ \E late \in SUBSET MayExpire : expired' = expired \cup late
    /\ start' = 1 /\ added' = FALSE
    /\ receipts' = Nothing /\ filter' = assetFilter
    /\ UNCHANGED <<ledgerVars, queueVars>>

-----------------------------------------------------------------------------
(* Transactions *)

Trans == transactionsQueue[start]

InTransactions == step = "transactions" /\ start <= Len(transactionsQueue)

UnchangedByTransaction ==
    UNCHANGED <<step, ledgerVars, affairsQueue, expired, trying, serial>>

\* The test at the end of an iteration breaks out of the pass.
Full(txs) == Len(txs) >= MaxTransactions

\* The item is taken: into the block, out of the queue.
Take(r) ==
    /\ receipts' = Put(receipts, Trans.sender, r)
    /\ blk' = [blk EXCEPT !.transactions = Append(@, Trans)]
    /\ transactionsQueue' = RemoveAt(transactionsQueue, start)
    /\ start' = IF Full(blk'.transactions) THEN Len(transactionsQueue) ELSE start
    /\ added' = TRUE

\* The item stays in the queue and the iterator moves by `by`; 0 is the branch
\* that forgets to move it.
Leave(r, by) ==
    /\ receipts' = IF Trans.sender \in DOMAIN receipts THEN Put(receipts, Trans.sender, r) ELSE receipts
    /\ start' = IF Full(blk.transactions) THEN Len(transactionsQueue) + 1 ELSE start + by
    /\ UNCHANGED <<blk, transactionsQueue, added>>

\* An expired item is erased, without the test for a full block.
DropExpired ==
    /\ InTransactions
    /\ Trans \in expired
    /\ transactionsQueue' = RemoveAt(transactionsQueue, start)
    /\ UNCHANGED <<start, blk, added, receipts, filter>>
    /\ UnchangedByTransaction

\* An item without an operation is erased.
DropNullOP ==
    /\ InTransactions
    /\ Trans.op = "NullOP" /\ Trans \notin expired
    /\ transactionsQueue' = RemoveAt(transactionsQueue, start)
    /\ start' = IF Full(blk.transactions) THEN Len(transactionsQueue) ELSE start
    /\ UNCHANGED <<blk, added, receipts, filter>>
    /\ UnchangedByTransaction

HasAccount(x) == x \in DOMAIN accounts
HasReceipt(x) == x \in DOMAIN receipts
KnownAsset == HasReceipt(Trans.sender) /\ Trans.asset \in DOMAIN receipts[Trans.sender].balances

\* A transfer from an account that neither exists nor is established by this
\* block is left for another pass, without the test for a full block.
PostponeAppend ==
    /\ InTransactions
    /\ Trans.op = "Append" /\ Trans \notin expired
    /\ ~HasAccount(Trans.sender) /\ ~KnownAsset
    /\ start' = start + 1
    /\ UNCHANGED <<blk, transactionsQueue, added, receipts, filter>>
    /\ UnchangedByTransaction

\* The sender's receipt with this transfer in it.
WithTransfer ==
    LET have == IF HasAccount(Trans.sender) THEN get_balance(accounts[Trans.sender], Trans.asset) ELSE 0
    IN  Spend(PushNonce(ReceiptOf(receipts, accounts, Trans.sender), Trans.nonce),
              Trans.asset, have, Trans.count)

\* What is left of the receipt r when it did not pass: the amount is given
\* back; the nonce only where the asset was not known before, or where the
\* sender has no account.
Refused(r) ==
    IF ~HasAccount(Trans.sender) THEN PopNonce(Unspend(r, Trans.asset, Trans.count))
    ELSE IF ~KnownAsset THEN PopNonce([r EXCEPT !.balances = Without(@, Trans.asset)])
    ELSE Unspend(r, Trans.asset, Trans.count)

PackAppend ==
    /\ InTransactions
    /\ Trans.op = "Append" /\ Trans \notin expired
    /\ HasAccount(Trans.sender) \/ KnownAsset
    /\ \/ check(WithTransfer) /\ Take(WithTransfer)
       \/ /\ ~check(WithTransfer)
          /\ Leave(Refused(WithTransfer),
                   IF HasAccount(Trans.sender) /\ HasReceipt(Trans.sender) /\ ~KnownAsset THEN 0 ELSE 1)
    /\ UNCHANGED filter
    /\ UnchangedByTransaction

WithAsset == PushNonce(ReceiptOf(receipts, accounts, Trans.sender), Trans.nonce)

\* The local filter keeps the asset of a transaction that is then refused.
PackEstablish ==
    /\ InTransactions
    /\ Trans.op = "Establish" /\ Trans \notin expired
    /\ \/ /\ Trans.asset \in filter
          /\ Leave(ReceiptOf(receipts, accounts, Trans.sender), 1)
       \/ /\ Trans.asset \notin filter /\ check_nonce(WithAsset)
          /\ Take(Gain(WithAsset, Trans.asset))
       \/ /\ Trans.asset \notin filter /\ ~check_nonce(WithAsset)
          /\ Leave(PopNonce(WithAsset), 1)
    /\ filter' = filter \cup {Trans.asset}
    /\ UnchangedByTransaction

\* Mutant of EndOfPass: the iterator is not set back to the beginning.
EndOfPassNoRewind ==
    /\ step = "transactions" /\ start > Len(transactionsQueue)
    /\ step' = IF added THEN "transactions" ELSE "affairs"
    /\ start' = start + 1 /\ added' = FALSE
    /\ UNCHANGED <<blk, ledgerVars, queueVars, receipts, filter, expired, trying, serial>>

\* A pass that added something is repeated, also when the block is full.
EndOfPass ==
    /\ step = "transactions" /\ start > Len(transactionsQueue)
    /\ step' = IF added THEN "transactions" ELSE "affairs"
    /\ start' = 1 /\ added' = FALSE
    /\ UNCHANGED <<blk, ledgerVars, queueVars, receipts, filter, expired, trying, serial>>

-----------------------------------------------------------------------------
(* Affairs *)

Air == affairsQueue[start]

InAffairs == step = "affairs" /\ start <= Len(affairsQueue)

UnchangedByAffair ==
    UNCHANGED <<step, ledgerVars, transactionsQueue, filter, expired, trying, serial>>

DropAffair ==
    /\ InAffairs
    /\ Air \in expired
    /\ affairsQueue' = RemoveAt(affairsQueue, start)
    /\ UNCHANGED <<blk, start, added, receipts>>
    /\ UnchangedByAffair

WithAffair == PushNonce(ReceiptOf(receipts, accounts, Air.owner), Air.nonce)

\* A refused affair does not move the iterator: the next step looks at it again.
\* Every nonce equal to its own leaves the receipt, an accepted one too.
PackAffair ==
    /\ InAffairs
    /\ Air \notin expired
    /\ \/ /\ check_nonce(WithAffair)
          /\ receipts' = Put(receipts, Air.owner, WithAffair)
          /\ blk' = [blk EXCEPT !.affairs = Append(@, Air)]
          /\ affairsQueue' = RemoveAt(affairsQueue, start)
          /\ added' = TRUE
       \/ /\ ~check_nonce(WithAffair)
          /\ receipts' = IF HasReceipt(Air.owner)
                         THEN Put(receipts, Air.owner, RemoveNonce(WithAffair, Air.nonce))
                         ELSE receipts
          /\ UNCHANGED <<blk, affairsQueue, added>>
    /\ UNCHANGED start
    /\ UnchangedByAffair

EndOfAffairs ==
    /\ step = "affairs" /\ start > Len(affairsQueue)
    /\ \/ added /\ step' = "affairs" /\ UNCHANGED <<receipts, filter>>
       \/ ~added /\ step' = (IF trying THEN "tried" ELSE "header") /\ receipts' = Nothing /\ filter' = {}
    /\ start' = 1 /\ added' = FALSE
    /\ UNCHANGED <<blk, ledgerVars, queueVars, expired, trying, serial>>

-----------------------------------------------------------------------------
(* The count limits, which package_next_block_header repeats *)

DbAffairs(b) == SelectSeq(b.affairs, is_db_level_affair_type)

WithinLimits(b) ==
    /\ MinTransactions <= Len(b.transactions) /\ Len(b.transactions) <= MaxTransactions
    /\ MinAffairs <= Len(DbAffairs(b)) /\ Len(DbAffairs(b)) <= MaxAffairs

\* try_package_next_block_body puts everything back, the last item first, unless
\* the block is outside the limits: then the items stay out of the queues.
TryPackage ==
    /\ step = "tried"
    /\ \/ /\ WithinLimits(blk)
          /\ affairsQueue' = Reverse(blk.affairs) \o affairsQueue
          /\ transactionsQueue' = Reverse(blk.transactions) \o transactionsQueue
       \/ /\ ~WithinLimits(blk)
          /\ UNCHANGED queueVars
    /\ step' = "idle" /\ blk' = NoWork
    /\ UNCHANGED <<ledgerVars, packVars>>

PackagerNext ==
    \/ StartPackaging \/ DropExpired \/ DropNullOP \/ PostponeAppend \/ PackAppend \/ PackEstablish
    \/ EndOfPass \/ DropAffair \/ PackAffair \/ EndOfAffairs \/ TryPackage
=============================================================================
