------------------------------- MODULE Ledger -------------------------------
(***************************************************************************)
(* The account connector (include/db/connector_account.cpp): the accounts  *)
(* in memory, the check of a block, its application to the accounts, and   *)
(* its rollback.                                                           *)
(*                                                                         *)
(* The Merkle Patricia trie is the map from addresses to accounts, and its *)
(* root what the hashes of the accounts can tell apart.  A Bloom filter is *)
(* the set of the assets inserted into it.  The hash of a block is the     *)
(* serial number of its packaging: the header contains the time.           *)
(***************************************************************************)
EXTENDS Accounts

VARIABLES
    step,             \* where the node's thread is
    blk,              \* the block it works on
    accounts,         \* account_mpt
    assetFilter,      \* asset_bloom_filter
    rootHash,         \* merkle_patricia_trie_root_hash
    height, top,      \* block_height, top_block_hash
    commits,          \* commits: account data waiting to be written
    rollbacks,        \* rollbacks: operations that undo a block
    filters,          \* account_bloom_filters
    extensions,       \* extensions: trie nodes waiting to be written
    threw             \* history: insert_block has thrown out of a half applied block

pendingVars == <<commits, rollbacks, filters, extensions>>
ledgerVars == <<accounts, assetFilter, rootHash, height, top, pendingVars, threw>>

EmptyBlock(id) == [transactions |-> <<>>, affairs |-> <<>>, height |-> 0, prev |-> 0, id |-> id]
NoWork == EmptyBlock(0)

-----------------------------------------------------------------------------
(* check_block_body: a fold of the receipts over the block, then the check  *)
(* of every receipt.                                                        *)

CheckState(receipts, filter, ok) == [receipts |-> receipts, filter |-> filter, ok |-> ok]

OutCount(t) == FoldLeft(LAMBDA n, out : (n + out.count) % Wrap, 0, t.outs)

\* A transaction whose sender has no account yet needs a receipt that holds the
\* asset; its outputs are not compared with its count.
CheckAppend(st, t) ==
    LET s == t.sender
        r == ReceiptOf(st.receipts, accounts, s)
        have == IF s \in DOMAIN accounts THEN get_balance(accounts[s], t.asset) ELSE 0
        legal == IF s \in DOMAIN accounts THEN OutCount(t) = t.count
                 ELSE s \in DOMAIN st.receipts /\ t.asset \in DOMAIN r.balances
    IN  CheckState(Put(st.receipts, s, Spend(PushNonce(r, t.nonce), t.asset, have, t.count)),
                   st.filter, st.ok /\ legal)

CheckEstablish(st, t) ==
    LET r == ReceiptOf(st.receipts, accounts, t.sender)
    IN  CheckState(Put(st.receipts, t.sender, Gain(PushNonce(r, t.nonce), t.asset)),
                   st.filter \cup {t.asset}, st.ok /\ t.asset \notin st.filter)

CheckTransaction(st, t) ==
    CASE t.op = "Append" -> CheckAppend(st, t)
      [] t.op = "Establish" -> CheckEstablish(st, t)
      [] OTHER -> [st EXCEPT !.ok = FALSE]

CheckAffair(st, air) ==
    IF ~is_db_level_affair_type(air) THEN st
    ELSE LET r == ReceiptOf(st.receipts, accounts, air.owner)
         IN  [st EXCEPT !.receipts = Put(@, air.owner, PushNonce(r, air.nonce))]

check_block_body(b) ==
    LET txs == FoldLeft(CheckTransaction, CheckState(Nothing, assetFilter, TRUE), b.transactions)
        all == FoldLeft(CheckAffair, txs, b.affairs)
    IN  all.ok /\ \A x \in DOMAIN all.receipts : check(all.receipts[x])

-----------------------------------------------------------------------------
(* Rollback operations: written before a transaction is applied, executed   *)
(* in the same order.                                                       *)

Rop(type, x, a, n) == [type |-> type, target |-> x, asset |-> a, value |-> n]

\* append_created_rollback, for a transaction and for an affair.
RollbackOfTransaction(t, accts) ==
    CASE t.op = "Append" ->
           <<Rop("UPDATE_ADD", t.sender, t.asset, t.count)>> \o
           [i \in 1 .. Len(t.outs) |->
               Rop(IF t.outs[i].receiver \in DOMAIN accts THEN "UPDATE_REDUCE" ELSE "DELETE_ACCOUNT",
                   t.outs[i].receiver, t.asset, t.outs[i].count)]
      [] t.op = "Establish" ->
           <<Rop(IF t.sender \in DOMAIN accts THEN "UPDATE_DELETE_ASSET" ELSE "DELETE_ACCOUNT",
                 t.sender, t.asset, t.count)>>
      [] OTHER -> <<>>

RollbackOfAffair(air, accts) ==
    <<Rop(IF air.owner \in DOMAIN accts THEN "ONLY_REDUCE_NONCE" ELSE "DELETE_ACCOUNT",
          air.owner, 0, 0)>>

\* The account map after one rollback operation; `ok` is FALSE once
\* reduce_balance has thrown.
Undo(st, op) ==
    LET x == op.target
        act == st.accounts[x]
        back(new) == [st EXCEPT !.accounts[x] = new]
    IN  IF ~st.ok \/ x \notin DOMAIN st.accounts THEN st
        ELSE CASE op.type = "DELETE_ACCOUNT" -> [st EXCEPT !.accounts = Without(@, x)]
               [] op.type = "UPDATE_ADD" ->
                    back(set_nonce(add_balance(act, op.asset, op.value), act.nonce - 1))
               [] op.type = "UPDATE_DELETE_ASSET" ->
                    back(set_nonce(delete_asset(act, op.asset), act.nonce - 1))
               [] op.type = "UPDATE_REDUCE" ->
                    IF can_reduce(act, op.asset, op.value)
                    THEN back(reduce_balance(act, op.asset, op.value))
                    ELSE [st EXCEPT !.ok = FALSE]
               [] op.type = "ONLY_REDUCE_NONCE" -> back(set_nonce(act, act.nonce - 1))

execute_rollback(ops, accts) == FoldLeft(Undo, [accounts |-> accts, ok |-> TRUE], ops)

-----------------------------------------------------------------------------
(* Application of a block: a fold over its transactions and affairs.  Once  *)
(* `ok` is FALSE an exception is on its way to insert_block's handler.      *)

ApplyState(accts, ops, filter, touched, ok) ==
    [accounts |-> accts, ops |-> ops, filter |-> filter, touched |-> touched, ok |-> ok]

\* Mutant of Credit: a new account is inserted before its balance is added.
CreditAfterInsert(accts, a, out) ==
    Put(accts, out.receiver,
        IF out.receiver \in DOMAIN accts THEN add_balance(accts[out.receiver], a, out.count)
        ELSE NewAccount(0))

Credit(accts, a, out) ==
    Put(accts, out.receiver,
        add_balance(IF out.receiver \in DOMAIN accts THEN accts[out.receiver] ELSE NewAccount(0),
                    a, out.count))

Receivers(t) == {t.outs[i].receiver : i \in 1 .. Len(t.outs)}

\* Mutant of Touched: the receivers are not written to disk.
TouchedSender(t) == {t.sender}

\* The accounts a transfer puts into commit_accounts.
Touched(t) == {t.sender} \cup Receivers(t)

\* Mutant of SenderAfter: the nonce is not raised.
SenderAfterSameNonce(act, t) == reduce_balance(act, t.asset, t.count)

\* The nonce of the sender becomes the one after the transaction's.
SenderAfter(act, t) == set_nonce(reduce_balance(act, t.asset, t.count), t.nonce + 1)

\* A failing transfer restores its own changes and throws; the operations that
\* undo it stay in the list.
ApplyAppend(st, t) ==
    LET s == t.sender
        ops == st.ops \o RollbackOfTransaction(t, st.accounts)
        ok == s \in DOMAIN st.accounts /\ can_reduce(st.accounts[s], t.asset, t.count)
        paid == Put(st.accounts, s, SenderAfter(st.accounts[s], t))
        credited == FoldLeft(LAMBDA accts, out : Credit(accts, t.asset, out), paid, t.outs)
        restored == IF s \notin DOMAIN st.accounts THEN st.accounts
                    ELSE Put(st.accounts, s, set_balance(st.accounts[s], t.asset,
                                                         get_balance(st.accounts[s], t.asset)))
    IN  ApplyState(IF ok THEN credited ELSE restored, ops, st.filter,
                   st.touched \cup Touched(t), ok)

\* Establishing an asset leaves the nonce of an existing account alone.
ApplyEstablish(st, t) ==
    LET s == t.sender
        act == IF s \in DOMAIN st.accounts THEN st.accounts[s] ELSE NewAccount(1)
    IN  IF t.asset \in st.filter THEN [st EXCEPT !.ok = FALSE]
        ELSE ApplyState(Put(st.accounts, s, add_balance(act, t.asset, AssetMax)),
                        st.ops \o RollbackOfTransaction(t, st.accounts),
                        st.filter \cup {t.asset}, st.touched \cup {s}, TRUE)

ApplyTransaction(st, t) ==
    IF ~st.ok THEN st
    ELSE CASE t.op = "Append" -> ApplyAppend(st, t)
           [] t.op = "Establish" -> ApplyEstablish(st, t)
           [] OTHER -> st

ApplyAffair(st, air) ==
    LET x == air.owner
        act == IF x \in DOMAIN st.accounts THEN set_nonce(st.accounts[x], st.accounts[x].nonce + 1)
               ELSE NewAccount(1)
    IN  IF ~st.ok \/ ~is_db_level_affair_type(air) THEN st
        ELSE ApplyState(Put(st.accounts, x, act), st.ops \o RollbackOfAffair(air, st.accounts),
                        st.filter, st.touched \cup {x}, TRUE)

Applied(b) ==
    FoldLeft(ApplyAffair,
             FoldLeft(ApplyTransaction, ApplyState(accounts, <<>>, assetFilter, {}, TRUE),
                      b.transactions),
             b.affairs)

\* Mutant of FilterAfter: the filter is the one before the block.
FilterBefore(st) == assetFilter

\* The asset filter insert_block keeps and queues.
FilterAfter(st) == st.filter

\* insert_block(blk, false) succeeds: the accounts change, the commit, the
\* rollback and the filter are queued, and the block is the new top.
InsertBlock(b) ==
    LET st == Applied(b)
    IN  /\ st.ok
        /\ accounts' = st.accounts
        /\ commits' = Append(commits, [accounts |-> [x \in st.touched |-> st.accounts[x]],
                                       hash |-> top, prevRoot |-> rootHash])
        /\ rollbacks' = Append(rollbacks, st.ops)
        /\ filters' = Append(filters, FilterAfter(st))
        /\ assetFilter' = FilterAfter(st)
        /\ rootHash' = RootOf(st.accounts)
        /\ height' = b.height /\ top' = b.id
        /\ UNCHANGED threw

\* insert_block throws while it applies the block: its handler executes the
\* rollback operations on what has been applied.
InsertThrows(b) ==
    LET st == Applied(b)
    IN  /\ ~st.ok
        /\ accounts' = execute_rollback(st.ops, st.accounts).accounts
        /\ threw' = TRUE
        /\ UNCHANGED <<assetFilter, rootHash, height, top, pendingVars>>

\* insert_block's early returns.
Insertable(b) == /\ check_block_body(b)
                 /\ b.height = height + 1 /\ b.prev = top

\* package_next_block_MPTR.
PackageRoot ==
    /\ step = "root"
    /\ \/ /\ Insertable(blk) /\ InsertBlock(blk)
          /\ extensions' = Append(extensions, RootOf(accounts'))
          /\ step' = "packed" /\ UNCHANGED blk
       \/ /\ Insertable(blk) /\ InsertThrows(blk)
          /\ step' = "idle" /\ blk' = NoWork
       \/ /\ ~Insertable(blk)
          /\ step' = "idle" /\ blk' = NoWork
          /\ UNCHANGED ledgerVars

\* Mutant of RolledBack: the top stays the block that is gone.
RolledBackSameTop ==
    /\ height' = height - 1
    /\ commits' = Front(commits) /\ extensions' = Front(extensions)
    /\ assetFilter' = Last(filters) /\ filters' = Front(filters)
    /\ step' = "idle" /\ blk' = NoWork
    /\ UNCHANGED top

\* The end of total_rollback.  The "old" filter it takes is the one
\* insert_block queued after assigning the new one.
RolledBack ==
    /\ height' = height - 1 /\ top' = commits[1].hash
    /\ commits' = Front(commits) /\ extensions' = Front(extensions)
    /\ assetFilter' = Last(filters) /\ filters' = Front(filters)
    /\ step' = "idle" /\ blk' = NoWork

\* total_rollback of the block that was just inserted.  It throws, with the
\* rollback done and nothing else restored, when the root is not the old one.
TotalRollback ==
    /\ step = "packed" /\ Len(rollbacks) = 1
    /\ LET undone == execute_rollback(rollbacks[1], accounts)
       IN  /\ accounts' = undone.accounts
           /\ rootHash' = IF undone.ok THEN RootOf(undone.accounts) ELSE rootHash
           /\ rollbacks' = IF undone.ok THEN <<>> ELSE rollbacks
           /\ \/ /\ undone.ok /\ rootHash' = commits[1].prevRoot
                 /\ RolledBack
              \/ /\ ~(undone.ok /\ rootHash' = commits[1].prevRoot)
                 /\ step' = "failed"
                 /\ UNCHANGED <<blk, height, top, commits, extensions, assetFilter, filters>>
    /\ UNCHANGED threw
=============================================================================
