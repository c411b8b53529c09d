---------------------------- MODULE ChainProofs ----------------------------
(***************************************************************************)
(* Proofs about Chain, for every set of inputs and every bound: the stored *)
(* chain only grows (Chain implements DurableChain), a commit is complete, *)
(* the stored filter knows the chain's assets, and a body has fresh nonces *)
(* and covered amounts, so that no transfer gets into the chain twice.     *)
(***************************************************************************)
EXTENDS Chain, LedgerProofs

Quiet == {"genesisBlock", "idle", "transactions", "affairs", "tried", "header", "root"}
Writing == {"packed", "accounts", "filter", "block", "state"}

\* A block always has the three fields that link it into the chain.
BlockShape == {"height", "prev", "id"} \subseteq DOMAIN blk /\ blk.id \in Nat /\ serial \in Nat

\* The stored state points at a stored block, and no block below it is missing.
StateStored ==
    /\ step \in Steps
    /\ diskState = NoState <=> step = "genesis"
    /\ diskState # NoState =>
         /\ diskState.height \in Nat
         /\ \A i \in 1 .. diskState.height : i \in DOMAIN diskBlocks
         /\ diskState.top = IF diskState.height = 0 THEN Genesis ELSE diskBlocks[diskState.height].id

\* Between blocks the connector stands where the disk does; on an empty disk it
\* stands at the genesis block.
QuietAgrees ==
    /\ step \in Quiet => height = diskState.height /\ top = diskState.top /\ commits = <<>>
    /\ step = "genesis" => height = 0 /\ top = Genesis /\ commits = <<>>

\* An inserted block is the next one after the stored chain.
WritingAhead ==
    step \in Writing => /\ height = diskState.height + 1 /\ blk.height = height
                        /\ blk.prev = diskState.top /\ top = blk.id

\* What total_rollback restores the top from.
CommitKnowsTop ==
    /\ step = "packed" => commits = <<commits[1]>> /\ commits[1].hash = diskState.top
    /\ step \in {"filter", "block", "state"} => commits = <<>>

\* Before the state is written its block is.
BlockFirst == step = "state" => blk.height \in DOMAIN diskBlocks /\ diskBlocks[blk.height] = blk

ChainInv == BlockShape /\ StateStored /\ QuietAgrees /\ WritingAhead /\ CommitKnowsTop /\ BlockFirst

-----------------------------------------------------------------------------

\* The invariant holds before the genesis state is written.
LEMMA ChainInit == Init => ChainInv
BY DEF Init, ChainInv, BlockShape, StateStored, QuietAgrees, WritingAhead, CommitKnowsTop, BlockFirst,
       Quiet, Writing, Steps, NoWork, EmptyBlock

\* A step between blocks that touches neither the disk nor the connector's place
\* in the chain keeps the invariant: everything the packager does is such a step.
LEMMA QuietStep ==
    ASSUME ChainInv, step \in Quiet, step' \in Quiet, BlockShape',
           UNCHANGED <<height, top, commits, diskState, diskBlocks>>
    PROVE  ChainInv'
BY DEF ChainInv, BlockShape, StateStored, QuietAgrees, WritingAhead, CommitKnowsTop, BlockFirst,
       Quiet, Writing, Steps

\* No action of the packager leaves the quiet phase or moves the chain.
LEMMA PackagerIsQuiet ==
    ASSUME BlockShape, PackagerNext, UNCHANGED storeVars
    PROVE  /\ step \in Quiet /\ step' \in Quiet /\ BlockShape'
           /\ UNCHANGED <<height, top, commits, diskState, diskBlocks>>
<1> USE DEF BlockShape, Quiet
<1>1. UNCHANGED <<diskState, diskBlocks>>
    BY DEF storeVars, diskVars
<1>2. CASE StartPackaging
    BY <1>1, <1>2 DEF StartPackaging, InjectedBlock, EmptyBlock, ledgerVars, pendingVars
<1>3. CASE DropExpired \/ DropNullOP
    BY <1>1, <1>3 DEF DropExpired, DropNullOP, InTransactions, UnchangedByTransaction, ledgerVars, pendingVars
<1>4. CASE PostponeAppend
    BY <1>1, <1>4 DEF PostponeAppend, InTransactions, UnchangedByTransaction, ledgerVars, pendingVars
<1>5. CASE PackAppend
    BY <1>1, <1>5 DEF PackAppend, Take, Leave, InTransactions, UnchangedByTransaction, ledgerVars, pendingVars
<1>6. CASE PackEstablish
    BY <1>1, <1>6 DEF PackEstablish, Take, Leave, InTransactions, UnchangedByTransaction, ledgerVars, pendingVars
<1>7. CASE EndOfPass
    BY <1>1, <1>7 DEF EndOfPass, ledgerVars, pendingVars
<1>8. CASE DropAffair
    BY <1>1, <1>8 DEF DropAffair, InAffairs, UnchangedByAffair, ledgerVars, pendingVars
<1>9. CASE PackAffair
    BY <1>1, <1>9 DEF PackAffair, InAffairs, UnchangedByAffair, ledgerVars, pendingVars
<1>10. CASE EndOfAffairs
    BY <1>1, <1>10 DEF EndOfAffairs, ledgerVars, pendingVars
<1>11. CASE TryPackage
    BY <1>1, <1>11 DEF TryPackage, NoWork, EmptyBlock, packVars, ledgerVars, pendingVars
<1> QED BY <1>2, <1>3, <1>4, <1>5, <1>6, <1>7, <1>8, <1>9, <1>10, <1>11 DEF PackagerNext

\* Every step keeps the invariant.
LEMMA ChainStep == ChainInv /\ [Next]_vars => ChainInv'
<1> SUFFICES ASSUME ChainInv, [Next]_vars PROVE ChainInv'
    OBVIOUS
<1> USE DEF BlockShape, StateStored, QuietAgrees, WritingAhead, CommitKnowsTop, BlockFirst,
            Quiet, Writing, Steps
<1>1. CASE Submit
    BY <1>1 DEF Submit, ChainInv, packVars, ledgerVars, pendingVars, storeVars, diskVars
<1>2. CASE transaction_pool_waiting_count
    BY <1>2 DEF transaction_pool_waiting_count, ChainInv, packVars, ledgerVars, pendingVars, storeVars, diskVars
<1>3. CASE PackagerNext /\ UNCHANGED <<storeVars, submits>>
    <2>1. BlockShape
        BY DEF ChainInv
    <2> QED BY <1>3, <2>1, PackagerIsQuiet, QuietStep
<1>4. CASE PackageHeader
    <2>1. /\ step \in Quiet /\ step' \in Quiet
          /\ UNCHANGED <<height, top, commits, diskState, diskBlocks, serial>>
        BY <1>4 DEF PackageHeader, packVars, ledgerVars, pendingVars, storeVars, diskVars
    <2>2. \/ blk' = [blk EXCEPT !.height = currentHeight + 1, !.prev = topBlock]
          \/ blk' = NoWork
        BY <1>4 DEF PackageHeader
    <2>3. CASE blk' = NoWork
        BY <2>1, <2>3, QuietStep DEF ChainInv, NoWork, EmptyBlock
    <2>4. CASE blk' = [blk EXCEPT !.height = currentHeight + 1, !.prev = topBlock]
        <3>1. DOMAIN blk' = DOMAIN blk /\ ("id" \in DOMAIN blk => blk'.id = blk.id)
            BY <2>4
        <3>2. BlockShape'
            BY <2>1, <3>1 DEF ChainInv
        <3> QED BY <2>1, <3>2, QuietStep
    <2> QED BY <2>2, <2>3, <2>4
<1>5. CASE PackageRoot /\ UNCHANGED <<queueVars, packVars, storeVars, submits>>
    <2>1. UNCHANGED <<diskState, diskBlocks>> /\ step = "root"
        BY <1>5 DEF storeVars, diskVars, PackageRoot
    <2>2. CASE Insertable(blk) /\ InsertBlock(blk) /\ step' = "packed" /\ UNCHANGED blk
        <3>1. /\ blk.height = diskState.height + 1 /\ blk.prev = diskState.top
              /\ height' = blk.height /\ top' = blk.id
            BY <2>1, <2>2 DEF ChainInv, Insertable, InsertBlock
        <3> DEFINE st == Applied(blk)
        <3> DEFINE c == [accounts |-> [x \in st.touched |-> st.accounts[x]],
                         hash |-> top, prevRoot |-> rootHash]
        <3>2. commits' = Append(commits, c)
            BY <2>2, Zenon DEF InsertBlock
        <3>3. c.hash = top /\ commits = <<>> /\ top = diskState.top
            BY <2>1 DEF ChainInv
        <3> HIDE DEF c
        <3>4. commits' = <<c>>
            BY <3>2, <3>3
        <3>5. commits' = <<commits'[1]>> /\ commits'[1].hash = diskState.top
            BY <3>3, <3>4
        <3> QED BY <1>5, <2>1, <2>2, <3>1, <3>5 DEF ChainInv, packVars
    <2>3. CASE step' = "idle" /\ blk' = NoWork /\ UNCHANGED <<height, top, commits>>
        <3>1. BlockShape'
            BY <1>5, <2>3 DEF ChainInv, NoWork, EmptyBlock, packVars
        <3> QED BY <2>1, <2>3, <3>1, QuietStep
    <2> QED BY <1>5, <2>2, <2>3 DEF PackageRoot, InsertThrows, ledgerVars, pendingVars
<1>6. CASE TotalRollback /\ UNCHANGED <<queueVars, packVars, storeVars, submits>>
    <2>1. UNCHANGED <<diskState, diskBlocks>> /\ step = "packed"
        BY <1>6 DEF storeVars, diskVars, TotalRollback
    <2>2. CASE RolledBack
        <3>1. commits = <<commits[1]>> /\ commits' = <<>>
            <4>1. commits = <<commits[1]>> /\ commits' = Front(commits)
                BY <2>1, <2>2 DEF ChainInv, RolledBack
            <4>2. ASSUME NEW c PROVE Front(<<c>>) = <<>>
                BY DEF Front
            <4> QED BY <4>1, <4>2
        <3> QED BY <1>6, <2>1, <2>2, <3>1 DEF ChainInv, RolledBack, NoWork, EmptyBlock, packVars
    <2>3. CASE step' = "failed" /\ UNCHANGED blk
        BY <1>6, <2>1, <2>3 DEF ChainInv, packVars
    <2> QED BY <1>6, <2>2, <2>3 DEF TotalRollback
<1>7. CASE StoreNext /\ UNCHANGED <<queueVars, packVars, submits>>
    <2>0. UNCHANGED serial
        BY <1>7 DEF packVars
    <2>1. CASE GenesisState
        BY <2>0, <2>1, StoreAssumption DEF GenesisState, ChainInv, Genesis, ledgerVars, pendingVars
    <2>2. CASE GenesisBlock
        BY <2>0, <2>2 DEF GenesisBlock, ChainInv, Put, ledgerVars, pendingVars
    <2>3. CASE CommitExtensions
        BY <2>0, <2>3 DEF CommitExtensions, ChainInv
    <2>4. CASE CommitAccounts
        BY <2>0, <2>4 DEF CommitAccounts, ChainInv
    <2>5. CASE CommitFilter
        BY <2>0, <2>5 DEF CommitFilter, ChainInv
    <2>6. CASE SaveBlock
        <3>1. /\ step = "block" /\ step' = "state"
              /\ UNCHANGED <<blk, height, top, commits, diskState>>
              /\ diskBlocks' = Put(diskBlocks, blk.height, blk)
            BY <2>0, <2>6 DEF SaveBlock, ledgerVars, pendingVars
        <3>2. diskState # NoState /\ diskState.height \in Nat /\ blk.height = diskState.height + 1
            BY <3>1 DEF ChainInv
        <3>3. /\ blk.height \in DOMAIN diskBlocks' /\ diskBlocks'[blk.height] = blk
              /\ \A i \in DOMAIN diskBlocks : i \in DOMAIN diskBlocks'
              /\ \A i \in DOMAIN diskBlocks : i # blk.height => diskBlocks'[i] = diskBlocks[i]
            BY <3>1 DEF Put
        <3>4. \A i \in 1 .. diskState.height : i \in DOMAIN diskBlocks' /\ diskBlocks'[i] = diskBlocks[i]
            BY <3>1, <3>2, <3>3 DEF ChainInv
        <3>5. StateStored'
            BY <3>1, <3>2, <3>4 DEF ChainInv
        <3> QED BY <2>0, <3>1, <3>3, <3>5 DEF ChainInv
    <2>7. CASE SaveState
        BY <2>0, <2>7, StoreAssumption DEF SaveState, ChainInv, NoWork, EmptyBlock, ledgerVars, pendingVars
    <2>8. CASE UpdateConnector
        BY <2>0, <2>8 DEF UpdateConnector, ChainInv, ledgerVars, pendingVars, diskVars
    <2> QED BY <1>7, <2>1, <2>2, <2>3, <2>4, <2>5, <2>6, <2>7, <2>8 DEF StoreNext
<1>8. CASE Restart /\ LosePool
    BY <1>8 DEF Restart, LosePool, ChainInv, NoWork, EmptyBlock, diskVars
<1>9. CASE UNCHANGED vars
    BY <1>9 DEF vars, ChainInv, packVars, ledgerVars, pendingVars, storeVars, diskVars
<1> QED BY <1>1, <1>2, <1>3, <1>4, <1>5, <1>6, <1>7, <1>8, <1>9 DEF Next

\* The invariant of the block and account connectors with their disk.
THEOREM ChainInvariant == Spec => []ChainInv
BY ChainInit, ChainStep, PTL DEF Spec

-----------------------------------------------------------------------------
(* Refinement *)

\* The stored chain is a sequence of as many blocks as the state says.
LEMMA DurableSeq ==
    ASSUME StateStored, diskState # NoState
    PROVE  /\ Len(Durable) = diskState.height
           /\ \A i \in 1 .. diskState.height : Durable[i] = diskBlocks[i]
           /\ diskState.height = 0 => Durable = <<>>
<1>1. diskState.height \in Nat /\ Durable = [i \in 1 .. diskState.height |->
                                    IF i \in DOMAIN diskBlocks THEN diskBlocks[i] ELSE NoBlock]
    BY DEF StateStored, Durable
<1>2. Len(Durable) = diskState.height
    BY <1>1
<1>3. \A i \in 1 .. diskState.height : Durable[i] = diskBlocks[i]
    BY <1>1 DEF StateStored
<1>4. diskState.height = 0 => Durable = <<>>
    BY <1>1
<1> QED BY <1>2, <1>3, <1>4

\* Where the stored blocks below the state's height stay, the stored chain stays.
LEMMA DurableSame ==
    ASSUME StateStored, UNCHANGED diskState,
           diskState # NoState => \A i \in 1 .. diskState.height :
               i \in DOMAIN diskBlocks' /\ diskBlocks'[i] = diskBlocks[i]
    PROVE  UNCHANGED Durable
<1>1. CASE diskState = NoState
    BY <1>1 DEF Durable
<1>2. CASE diskState # NoState
    <2>1. diskState.height \in Nat /\ \A i \in 1 .. diskState.height : i \in DOMAIN diskBlocks
        BY <1>2 DEF StateStored
    <2> DEFINE F == [i \in 1 .. diskState.height |->
                        IF i \in DOMAIN diskBlocks THEN diskBlocks[i] ELSE NoBlock]
               G == [i \in 1 .. diskState.height |->
                        IF i \in DOMAIN diskBlocks' THEN diskBlocks'[i] ELSE NoBlock]
    <2>2. Durable = F /\ Durable' = G
        BY <1>2 DEF Durable, NoBlock, NoWork, EmptyBlock
    <2>3. F = G
        BY <1>2, <2>1
    <2> QED BY <2>2, <2>3
<1> QED BY <1>1, <1>2

\* Writing the state of the next block appends that block.
LEMMA SaveStateGrows ==
    ASSUME ChainInv, ChainInv', SaveState
    PROVE  Stored!Grow
<1> USE DEF ChainInv
<1>1. /\ step = "state" /\ step' = "idle" /\ diskBlocks' = diskBlocks
      /\ diskState' = [height |-> blk.height, top |-> blk.id]
    BY DEF SaveState
<1>2. /\ diskState # NoState /\ diskState' # NoState
      /\ diskState.height \in Nat /\ diskState'.height = diskState.height + 1
      /\ blk.height = diskState.height + 1 /\ blk.prev = diskState.top
      /\ diskBlocks[blk.height] = blk
    BY <1>1 DEF StateStored, WritingAhead, BlockFirst, Writing
<1> DEFINE n == diskState.height
<1>3. Len(Durable) = n /\ \A i \in 1 .. n : Durable[i] = diskBlocks[i]
    BY <1>2, DurableSeq
<1> DEFINE G == [i \in 1 .. n + 1 |-> IF i \in DOMAIN diskBlocks THEN diskBlocks[i] ELSE NoBlock]
<1>4. Durable' = G
    BY <1>1, <1>2 DEF Durable, NoBlock, NoWork, EmptyBlock
<1>5. \A i \in 1 .. n + 1 : i \in DOMAIN diskBlocks
    BY <1>1, <1>2 DEF StateStored
<1>6. Len(G) = n + 1 /\ \A i \in 1 .. n + 1 : G[i] = diskBlocks[i]
    BY <1>2, <1>5
<1>7. Durable = [i \in 1 .. n |-> IF i \in DOMAIN diskBlocks THEN diskBlocks[i] ELSE NoBlock]
    BY <1>2 DEF Durable
<1>8. SubSeq(G, 1, n) = Durable
    <2>1. SubSeq(G, 1, n) = [i \in 1 .. n |-> G[i]]
        BY <1>2, <1>6
    <2> QED BY <1>2, <1>5, <1>7, <2>1
<1>9. diskState.top = Stored!TopOf(Durable)
    <2>1. CASE n = 0
        BY <1>2, <2>1, DurableSeq DEF StateStored, Stored!TopOf
    <2>2. CASE n # 0
        <3>1. Durable # <<>>
            BY <1>2, <1>3, <2>2
        <3> QED BY <1>2, <1>3, <2>2, <3>1 DEF StateStored, Stored!TopOf
    <2> QED BY <2>1, <2>2
<1>10. G[n + 1].prev = diskState.top
    <2>1. n + 1 \in 1 .. n + 1 /\ n + 1 = blk.height
        BY <1>2
    <2>2. G[n + 1] = blk
        BY <1>2, <1>6, <2>1
    <2> QED BY <1>2, <2>2
<1> HIDE DEF G
<1> QED BY <1>2, <1>3, <1>4, <1>6, <1>8, <1>9, <1>10 DEF Stored!Grow

\* Every step of the node appends one linked block to the stored chain or leaves
\* it alone.
LEMMA StepRefines == ChainInv /\ ChainInv' /\ [Next]_vars => [Stored!Grow]_Durable
<1> SUFFICES ASSUME ChainInv, ChainInv', [Next]_vars PROVE Stored!Grow \/ UNCHANGED Durable
    OBVIOUS
<1>1. StateStored
    BY DEF ChainInv
<1>2. ASSUME UNCHANGED <<diskState, diskBlocks>> PROVE UNCHANGED Durable
    BY <1>2 DEF Durable
<1>3. CASE SaveState
    BY <1>3, SaveStateGrows
<1>4. CASE GenesisState
    <2>1. diskState = NoState /\ diskState' = [height |-> 0, top |-> Genesis]
        BY <1>1, <1>4 DEF GenesisState, StateStored
    <2>2. diskState' # NoState
        BY <2>1, StoreAssumption DEF Genesis
    <2>3. Durable = <<>> /\ Durable' = <<>>
        BY <2>1, <2>2 DEF Durable
    <2> QED BY <2>3
<1>5. CASE SaveBlock
    <2>1. /\ step = "block" /\ UNCHANGED diskState
          /\ diskBlocks' = Put(diskBlocks, blk.height, blk)
        BY <1>5 DEF SaveBlock
    <2>2. diskState # NoState /\ diskState.height \in Nat /\ blk.height = diskState.height + 1
        BY <1>1, <2>1 DEF ChainInv, StateStored, WritingAhead, Writing
    <2>3. \A i \in 1 .. diskState.height : i \in DOMAIN diskBlocks' /\ diskBlocks'[i] = diskBlocks[i]
        BY <1>1, <2>1, <2>2 DEF StateStored, Put
    <2> QED BY <1>1, <2>1, <2>3, DurableSame
<1>6. CASE GenesisBlock
    <2>1. UNCHANGED diskState /\ \E b : diskBlocks' = Put(diskBlocks, 0, b)
        BY <1>6 DEF GenesisBlock
    <2>2. diskState # NoState => \A i \in 1 .. diskState.height :
              i \in DOMAIN diskBlocks' /\ diskBlocks'[i] = diskBlocks[i]
        BY <1>1, <2>1 DEF StateStored, Put
    <2> QED BY <1>1, <2>1, <2>2, DurableSame
<1>7. CASE StoreNext /\ ~(SaveState \/ GenesisState \/ SaveBlock \/ GenesisBlock)
    BY <1>2, <1>7 DEF StoreNext, CommitExtensions, CommitAccounts, CommitFilter, UpdateConnector, diskVars
<1>8. CASE \/ Submit \/ transaction_pool_waiting_count \/ PackageHeader
           \/ (PackagerNext \/ PackageRoot \/ TotalRollback) /\ UNCHANGED storeVars
           \/ Restart \/ UNCHANGED vars
    <2>1. UNCHANGED <<diskState, diskBlocks>>
        BY <1>8 DEF Submit, transaction_pool_waiting_count, PackageHeader, Restart, vars, storeVars, diskVars
    <2> QED BY <1>2, <2>1
<1> QED BY <1>3, <1>4, <1>5, <1>6, <1>7, <1>8 DEF Next

\* package, insert, commit and save, with a crash anywhere: the chain on disk is
\* an append-only chain of linked blocks.
THEOREM ChainIsDurable == Spec => ImplementsDurable
<1>1. Init => Stored!DurableInit
    BY DEF Init, Durable, Stored!DurableInit
<1> QED BY <1>1, StepRefines, ChainInvariant, PTL DEF Spec, ImplementsDurable, Stored!DurableSpec

-----------------------------------------------------------------------------
(* The folds of the count of waiting items and of the account commit *)

KeepUnless(kept, late, item) == IF item \in late THEN kept ELSE Append(kept, item)

KeptOf(late, base, seq) == FoldLeft(LAMBDA kept, item : IF item \in late THEN kept ELSE Append(kept, item), base, seq)

KeepClosed(late, S, seq) ==
    /\ Len(seq) \in Nat /\ DOMAIN seq = 1 .. Len(seq)
    /\ \A st \in S : \A i \in 1 .. Len(seq) : KeepUnless(st, late, seq[i]) \in S

KeepPath(late, S, base, seq, f) ==
    /\ f \in [0 .. Len(seq) -> S] /\ f[0] = base /\ f[Len(seq)] = KeptOf(late, base, seq)
    /\ \A i \in 1 .. Len(seq) : f[i] = KeepUnless(f[i - 1], late, seq[i])

\* Counting the waiting items passes through one list per item.
LEMMA KeepUnfold ==
    ASSUME NEW late, NEW S, NEW base \in S, NEW seq, KeepClosed(late, S, seq)
    PROVE  \E f : KeepPath(late, S, base, seq, f)
<1> DEFINE n == Len(seq)
<1>0. n \in Nat /\ DOMAIN seq = 1 .. n /\ \A st \in S : \A i \in 1 .. n : KeepUnless(st, late, seq[i]) \in S
    BY DEF KeepClosed
<1> HIDE DEF n
<1> DEFINE E(h) == h = [s \in SUBSET (1 .. n) |->
                           IF s = {} THEN base ELSE KeepUnless(h[s \ {Max(s)}], late, seq[Max(s)])]
           it == CHOOSE h : E(h)
           G == [p \in (1 .. n) \X S |-> KeepUnless(p[2], late, seq[p[1]])]
<1>1. G \in [(1 .. n) \X S -> S]
    BY <1>0
<1>2. ASSUME NEW s \in SUBSET (1 .. n), s # {} PROVE Max(s) \in 1 .. n
    BY <1>0, <1>2, MaxIn
<1>3. \E h : E(h)
    <2>1. PICK h \in [SUBSET (1 .. n) -> S] : \A s \in SUBSET (1 .. n) : FoldsAt(G, base, s, h)
        <3> HIDE DEF G
        <3> QED BY <1>0, <1>1, FoldExists
    <2>2. ASSUME NEW s \in SUBSET (1 .. n), s # {}
          PROVE  h[s] = KeepUnless(h[s \ {Max(s)}], late, seq[Max(s)])
        BY <1>2, <2>1, <2>2 DEF FoldsAt
    <2>3. h[{}] = base
        BY <2>1 DEF FoldsAt
    <2>4. E(h)
        BY <2>2, <2>3
    <2> HIDE DEF E
    <2> QED BY <2>4
<1>4. E(it)
    BY <1>3
<1>5. KeptOf(late, base, seq) = it[1 .. n]
    BY <1>0, Zenon DEF KeptOf, KeepUnless, FoldLeft, MapThenFoldSet
<1> HIDE DEF it
<1>6. ASSUME NEW s \in SUBSET (1 .. n), s # {}, it[s \ {Max(s)}] \in S
      PROVE  it[s] = G[<<Max(s), it[s \ {Max(s)}]>>]
    BY <1>2, <1>4, <1>6
<1>7. it[{}] = base
    BY <1>4
<1> HIDE DEF E, G
<1>8. PICK f \in [0 .. n -> S] : /\ f[0] = base /\ f[n] = it[1 .. n]
                                 /\ \A i \in 1 .. n : f[i] = G[<<i, f[i - 1]>>]
    <2>1. Recurs(n, S, base, G, it)
        BY <1>6, <1>7 DEF Recurs
    <2>2. Passes(n, S, base, G, it[1 .. n])
        BY <1>0, <1>1, <2>1, FoldChain
    <2> QED BY <2>2 DEF Passes
<1>9. \A i \in 1 .. n : f[i] = KeepUnless(f[i - 1], late, seq[i])
    <2> TAKE i \in 1 .. n
    <2>1. <<i, f[i - 1]>> \in (1 .. n) \X S /\ f[i] = G[<<i, f[i - 1]>>]
        BY <1>0, <1>8
    <2> QED BY <2>1 DEF G
<1> QED BY <1>5, <1>8, <1>9 DEF KeepPath, n

WrittenTo(base, seq) == FoldLeft(LAMBDA f, c : Overwrite(f, c.accounts), base, seq)

WriteClosed(S, seq) ==
    /\ Len(seq) \in Nat /\ DOMAIN seq = 1 .. Len(seq)
    /\ \A st \in S : \A i \in 1 .. Len(seq) : Overwrite(st, seq[i].accounts) \in S

WritePath(S, base, seq, f) ==
    /\ f \in [0 .. Len(seq) -> S] /\ f[0] = base /\ f[Len(seq)] = WrittenTo(base, seq)
    /\ \A i \in 1 .. Len(seq) : f[i] = Overwrite(f[i - 1], seq[i].accounts)

\* Writing the queued account data passes through one map per commit.
LEMMA WriteUnfold ==
    ASSUME NEW S, NEW base \in S, NEW seq, WriteClosed(S, seq)
    PROVE  \E f : WritePath(S, base, seq, f)
<1> DEFINE n == Len(seq)
<1>0. n \in Nat /\ DOMAIN seq = 1 .. n /\ \A st \in S : \A i \in 1 .. n : Overwrite(st, seq[i].accounts) \in S
    BY DEF WriteClosed
<1> HIDE DEF n
<1> DEFINE E(h) == h = [s \in SUBSET (1 .. n) |->
                           IF s = {} THEN base ELSE Overwrite(h[s \ {Max(s)}], seq[Max(s)].accounts)]
           it == CHOOSE h : E(h)
           G == [p \in (1 .. n) \X S |-> Overwrite(p[2], seq[p[1]].accounts)]
<1>1. G \in [(1 .. n) \X S -> S]
    BY <1>0
<1>2. ASSUME NEW s \in SUBSET (1 .. n), s # {} PROVE Max(s) \in 1 .. n
    BY <1>0, <1>2, MaxIn
<1>3. \E h : E(h)
    <2>1. PICK h \in [SUBSET (1 .. n) -> S] : \A s \in SUBSET (1 .. n) : FoldsAt(G, base, s, h)
        <3> HIDE DEF G
        <3> QED BY <1>0, <1>1, FoldExists
    <2>2. ASSUME NEW s \in SUBSET (1 .. n), s # {}
          PROVE  h[s] = Overwrite(h[s \ {Max(s)}], seq[Max(s)].accounts)
        BY <1>2, <2>1, <2>2 DEF FoldsAt
    <2>3. h[{}] = base
        BY <2>1 DEF FoldsAt
    <2>4. E(h)
        BY <2>2, <2>3
    <2> HIDE DEF E
    <2> QED BY <2>4
<1>4. E(it)
    BY <1>3
<1>5. WrittenTo(base, seq) = it[1 .. n]
    BY <1>0, Zenon DEF WrittenTo, FoldLeft, MapThenFoldSet
<1> HIDE DEF it
<1>6. ASSUME NEW s \in SUBSET (1 .. n), s # {}, it[s \ {Max(s)}] \in S
      PROVE  it[s] = G[<<Max(s), it[s \ {Max(s)}]>>]
    BY <1>2, <1>4, <1>6
<1>7. it[{}] = base
    BY <1>4
<1> HIDE DEF E, G
<1>8. PICK f \in [0 .. n -> S] : /\ f[0] = base /\ f[n] = it[1 .. n]
                                 /\ \A i \in 1 .. n : f[i] = G[<<i, f[i - 1]>>]
    <2>1. Recurs(n, S, base, G, it)
        BY <1>6, <1>7 DEF Recurs
    <2>2. Passes(n, S, base, G, it[1 .. n])
        BY <1>0, <1>1, <2>1, FoldChain
    <2> QED BY <2>2 DEF Passes
<1>9. \A i \in 1 .. n : f[i] = Overwrite(f[i - 1], seq[i].accounts)
    <2> TAKE i \in 1 .. n
    <2>1. <<i, f[i - 1]>> \in (1 .. n) \X S /\ f[i] = G[<<i, f[i - 1]>>]
        BY <1>0, <1>8
    <2> QED BY <2>1 DEF G
<1> QED BY <1>5, <1>8, <1>9 DEF WritePath, n

\* What is left of a queue is a queue.
LEMMA WaitingType ==
    ASSUME NEW S, NEW late, NEW q \in Seq(S)
    PROVE  Waiting(q, late) \in Seq(S)
<1>1. Len(q) \in Nat /\ DOMAIN q = 1 .. Len(q) /\ \A i \in 1 .. Len(q) : q[i] \in S
    OBVIOUS
<1>2. <<>> \in Seq(S)
    OBVIOUS
<1>3. KeepClosed(late, Seq(S), q)
    BY <1>1 DEF KeepClosed, KeepUnless
<1>4. PICK f : KeepPath(late, Seq(S), <<>>, q, f)
    BY <1>2, <1>3, KeepUnfold
<1>5. KeptOf(late, <<>>, q) \in Seq(S)
    BY <1>1, <1>4 DEF KeepPath
<1>6. Waiting(q, late) = KeptOf(late, <<>>, q)
    BY Zenon DEF Waiting, KeptOf
<1> QED BY <1>5, <1>6

\* Writing the data of one commit overwrites the accounts it holds.
LEMMA OneCommit ==
    ASSUME NEW f \in AccountMaps, NEW c, c.accounts \in AccountMaps
    PROVE  /\ WrittenTo(f, <<c>>) = Overwrite(f, c.accounts)
           /\ Overwrite(f, c.accounts) \in AccountMaps
<1> DEFINE seq == <<c>>
<1>1. Len(seq) = 1 /\ DOMAIN seq = 1 .. Len(seq) /\ seq[1] = c
    OBVIOUS
<1> HIDE DEF seq
<1>2. ASSUME NEW g \in AccountMaps PROVE Overwrite(g, c.accounts) \in AccountMaps
    <2> DEFINE h == Overwrite(g, c.accounts)
    <2>1. /\ DOMAIN g \subseteq Addresses /\ \A x \in DOMAIN g : g[x] \in AccountSet
          /\ DOMAIN c.accounts \subseteq Addresses /\ \A x \in DOMAIN c.accounts : c.accounts[x] \in AccountSet
        BY MapIs DEF AccountMaps
    <2>2. /\ h = [x \in DOMAIN h |-> h[x]] /\ DOMAIN h = DOMAIN g \cup DOMAIN c.accounts
          /\ \A x \in DOMAIN h : h[x] \in AccountSet
        BY <2>1 DEF Overwrite
    <2> QED BY <2>1, <2>2, MapIs DEF AccountMaps
<1>3. WriteClosed(AccountMaps, seq)
    <2>1. \A i \in 1 .. Len(seq) : seq[i] = c
        BY <1>1
    <2> QED BY <1>1, <1>2, <2>1 DEF WriteClosed
<1>4. PICK p : WritePath(AccountMaps, f, seq, p)
    BY <1>3, WriteUnfold
<1>5. p[0] = f /\ p[1] = WrittenTo(f, seq) /\ p[1] = Overwrite(p[0], seq[1].accounts)
    BY <1>1, <1>4 DEF WritePath
<1> QED BY <1>1, <1>2, <1>5 DEF seq

\* Where an item leaves its queue.
LEMMA RemoveAtType ==
    ASSUME NEW S, NEW q \in Seq(S), NEW i \in 1 .. Len(q)
    PROVE  RemoveAt(q, i) \in Seq(S) /\ Len(RemoveAt(q, i)) = Len(q) - 1
<1> DEFINE before == SubSeq(q, 1, i - 1)
           after == SubSeq(q, i + 1, Len(q))
<1>1. Len(q) \in Nat /\ \A k \in 1 .. Len(q) : q[k] \in S
    OBVIOUS
<1>2. before \in Seq(S) /\ Len(before) = i - 1
    BY <1>1, SubSeqProperties
<1>3. after \in Seq(S) /\ Len(after) = Len(q) - i
    BY <1>1, SubSeqProperties
<1> HIDE DEF before, after
<1>4. before \o after \in Seq(S) /\ Len(before \o after) = Len(q) - 1
    <2>1. before \o after \in Seq(S) /\ Len(before \o after) = Len(before) + Len(after)
        BY <1>2, <1>3, ConcatProperties
    <2>2. ASSUME NEW n \in Nat, NEW k \in 1 .. n PROVE (k - 1) + (n - k) = n - 1
        OBVIOUS
    <2> QED BY <1>1, <1>2, <1>3, <2>1, <2>2
<1> QED BY <1>4 DEF RemoveAt, before, after

\* Reversing a list keeps its items.
LEMMA ReverseType ==
    ASSUME NEW S, NEW q \in Seq(S)
    PROVE  Reverse(q) \in Seq(S)
BY DEF Reverse

-----------------------------------------------------------------------------
(* Types: what the accounts, the queues and the block under work consist of *)

Blocks == [transactions : Seq(Inputs), affairs : Seq(Affairs), height : Nat, prev : Nat, id : Nat]

RopLists == Seq(Rops)

AccountsTyped == accounts \in AccountMaps /\ diskAccounts \in AccountMaps

BlockTyped == blk \in Blocks /\ serial \in Nat

QueuesTyped == transactionsQueue \in Seq(Inputs) /\ affairsQueue \in Seq(Affairs)

\* The iterator stays within one past the end of the queue it walks over.
StartInv ==
    /\ step = "transactions" => start \in 1 .. Len(transactionsQueue) + 1
    /\ step = "affairs" => start \in 1 .. Len(affairsQueue) + 1
    /\ step \notin {"transactions", "affairs"} => start = 1

PlaceTyped ==
    /\ height \in Nat /\ top \in Nat /\ currentHeight \in Nat /\ topBlock \in Nat
    /\ diskState # NoState => diskState.top \in Nat

\* The filter queue holds the filter of the inserted block until it is written.
FiltersTyped ==
    /\ assetFilter \in SUBSET Assets /\ filter \in SUBSET Assets
    /\ \A k \in DOMAIN diskFilters : diskFilters[k] \in SUBSET Assets
    /\ step \in {"packed", "accounts", "filter"} => filters = <<assetFilter>>
    /\ step \notin {"packed", "accounts", "filter", "failed"} => filters = <<>>

\* The account data of the inserted block waits until it is written.
PendingTyped ==
    /\ rollbacks \in Seq(RopLists)
    /\ step \in {"packed", "accounts"} => commits = <<commits[1]>> /\ commits[1].accounts \in AccountMaps

DataInv == AccountsTyped /\ BlockTyped /\ QueuesTyped /\ StartInv /\ PlaceTyped /\ FiltersTyped /\ PendingTyped

\* The empty blocks are blocks.
LEMMA NoWorkTyped == NoWork \in Blocks /\ \A id \in Nat : EmptyBlock(id) \in Blocks
BY DEF NoWork, EmptyBlock, Blocks

\* A block stays one when its items change.
LEMMA BlockWith ==
    ASSUME NEW b \in Blocks
    PROVE  /\ b.transactions \in Seq(Inputs) /\ b.affairs \in Seq(Affairs) /\ b.id \in Nat
           /\ \A txs \in Seq(Inputs) : [b EXCEPT !.transactions = txs] \in Blocks
           /\ \A airs \in Seq(Affairs) : [b EXCEPT !.affairs = airs] \in Blocks
           /\ \A h, p \in Nat : [b EXCEPT !.height = h, !.prev = p] \in Blocks
BY DEF Blocks

\* A block with the node's own affair is one.
LEMMA InjectedTyped == ASSUME NEW id \in Nat PROVE InjectedBlock(id) \in Blocks
<1> DEFINE air == [owner |-> Node, nonce |-> 0, type |-> "OwnerAddressHash"]
<1>1. air \in Affairs
    BY PackagerAssumption, Wraps DEF Affairs, AffairTypes
<1> HIDE DEF air
<1>2. <<air>> \in Seq(Affairs) /\ EmptyBlock(id) \in Blocks
    BY <1>1, NoWorkTyped
<1>3. [EmptyBlock(id) EXCEPT !.affairs = <<air>>] \in Blocks
    BY <1>2, BlockWith
<1> QED BY <1>3 DEF InjectedBlock, air

\* The types hold before the genesis state is written.
LEMMA DataInit == Init => DataInv
<1> SUFFICES ASSUME Init PROVE DataInv
    OBVIOUS
<1>1. Nothing \in AccountMaps /\ DOMAIN Nothing = {}
    BY NothingMap DEF AccountMaps
<1>2. AccountsTyped /\ BlockTyped /\ QueuesTyped
    BY <1>1, NoWorkTyped DEF Init, AccountsTyped, BlockTyped, QueuesTyped
<1>3. StartInv /\ PlaceTyped
    BY DEF Init, StartInv, PlaceTyped, Genesis
<1>4. FiltersTyped /\ PendingTyped
    BY <1>1 DEF Init, FiltersTyped, PendingTyped
<1> QED BY <1>2, <1>3, <1>4 DEF DataInv

\* The packager changes the block, the queues and its own variables only.
LEMMA PackagerFrame == ASSUME PackagerNext PROVE UNCHANGED ledgerVars
BY DEF PackagerNext, StartPackaging, DropExpired, DropNullOP, PostponeAppend, PackAppend, PackEstablish,
       EndOfPass, DropAffair, PackAffair, EndOfAffairs, TryPackage, UnchangedByTransaction, UnchangedByAffair

\* One iteration over the transactions.
LEMMA TransactionIteration ==
    ASSUME BlockTyped, QueuesTyped, StartInv, InTransactions, NEW r, NEW by \in {0, 1}, UnchangedByTransaction,
           \/ transactionsQueue' = RemoveAt(transactionsQueue, start) /\ UNCHANGED <<start, blk>>
           \/ /\ transactionsQueue' = RemoveAt(transactionsQueue, start) /\ UNCHANGED blk
              /\ start' = IF Full(blk.transactions) THEN Len(transactionsQueue) ELSE start
           \/ start' = start + 1 /\ UNCHANGED <<blk, transactionsQueue>>
           \/ Take(r)
           \/ Leave(r, by)
    PROVE  BlockTyped' /\ QueuesTyped' /\ StartInv'
<1> DEFINE q == transactionsQueue
           n == Len(transactionsQueue)
<1>1. /\ step = "transactions" /\ step' = step /\ q \in Seq(Inputs) /\ n \in Nat /\ start \in 1 .. n
      /\ Trans \in Inputs /\ blk \in Blocks /\ serial \in Nat /\ serial' = serial
      /\ affairsQueue \in Seq(Affairs) /\ affairsQueue' = affairsQueue
    BY DEF BlockTyped, QueuesTyped, StartInv, InTransactions, UnchangedByTransaction, Trans
<1>2. RemoveAt(q, start) \in Seq(Inputs) /\ Len(RemoveAt(q, start)) = n - 1
    BY <1>1, RemoveAtType
<1>3. CASE transactionsQueue' = RemoveAt(q, start)
    <2>1. blk' = blk \/ blk' = [blk EXCEPT !.transactions = Append(@, Trans)]
        BY <1>1, <1>3 DEF Take, Leave
    <2>2. start' = n \/ start' = start
        <3>1. ~Leave(r, by) \/ start' = n \/ start' = start
            <4>1. ASSUME Leave(r, by) PROVE transactionsQueue' = q
                BY <4>1 DEF Leave
            <4> QED BY <1>1, <1>2, <1>3, <4>1
        <3>2. RemoveAt(q, start) # q
            BY <1>1, <1>2
        <3> QED BY <1>1, <1>3, <3>1, <3>2 DEF Take
    <2>3. blk' \in Blocks
        <3>1. Append(blk.transactions, Trans) \in Seq(Inputs)
            <4>1. blk.transactions \in Seq(Inputs)
                BY <1>1, BlockWith
            <4> QED BY <1>1, <4>1, AppendProperties
        <3> QED BY <1>1, <2>1, <3>1, BlockWith
    <2>4. start' \in 1 .. Len(transactionsQueue') + 1
        BY <1>1, <1>2, <1>3, <2>2
    <2> QED BY <1>1, <1>2, <1>3, <2>3, <2>4 DEF BlockTyped, QueuesTyped, StartInv
<1>4. CASE transactionsQueue' # RemoveAt(q, start)
    <2>1. transactionsQueue' = q /\ blk' = blk /\ start' \in {n + 1, start, start + 1}
        BY <1>1, <1>4 DEF Take, Leave
    <2> QED BY <1>1, <2>1 DEF BlockTyped, QueuesTyped, StartInv
<1> QED BY <1>3, <1>4

\* The packager keeps the types of the block, the queues, the iterator and its filter.
LEMMA PackagerTyped ==
    ASSUME BlockTyped, QueuesTyped, StartInv, assetFilter \in SUBSET Assets, filter \in SUBSET Assets,
           PackagerNext
    PROVE  BlockTyped' /\ QueuesTyped' /\ StartInv' /\ filter' \in SUBSET Assets
<1>1. CASE StartPackaging
    <2>1. /\ step' = "transactions" /\ start' = 1 /\ filter' = assetFilter
          /\ UNCHANGED <<transactionsQueue, affairsQueue>> /\ serial' = serial + 1
          /\ blk' = InjectedBlock(serial') \/ blk' = EmptyBlock(serial')
        BY <1>1 DEF StartPackaging, queueVars
    <2>2. serial' \in Nat
        BY <2>1 DEF BlockTyped
    <2>3. blk' \in Blocks
        BY <2>1, <2>2, InjectedTyped, NoWorkTyped
    <2>4. StartInv'
        <3>1. Len(transactionsQueue) \in Nat
            BY DEF QueuesTyped
        <3> QED BY <2>1, <3>1 DEF StartInv
    <2> QED BY <2>1, <2>2, <2>3, <2>4 DEF BlockTyped, QueuesTyped
<1>2. CASE DropExpired \/ DropNullOP \/ PostponeAppend
    <2>1. /\ InTransactions /\ UnchangedByTransaction /\ filter' = filter
          /\ \/ transactionsQueue' = RemoveAt(transactionsQueue, start) /\ UNCHANGED <<start, blk>>
             \/ /\ transactionsQueue' = RemoveAt(transactionsQueue, start) /\ UNCHANGED blk
                /\ start' = IF Full(blk.transactions) THEN Len(transactionsQueue) ELSE start
             \/ start' = start + 1 /\ UNCHANGED <<blk, transactionsQueue>>
        BY <1>2 DEF DropExpired, DropNullOP, PostponeAppend
    <2> QED BY <2>1, TransactionIteration
<1>3. CASE PackAppend
    <2> DEFINE by == IF HasAccount(Trans.sender) /\ HasReceipt(Trans.sender) /\ ~KnownAsset THEN 0 ELSE 1
    <2>1. Take(WithTransfer) \/ Leave(Refused(WithTransfer), by)
        BY <1>3, Zenon DEF PackAppend
    <2>2. InTransactions /\ UnchangedByTransaction /\ filter' = filter
        BY <1>3, Zenon DEF PackAppend
    <2>3. by \in {0, 1}
        OBVIOUS
    <2> HIDE DEF by
    <2>4. ASSUME Take(WithTransfer) PROVE BlockTyped' /\ QueuesTyped' /\ StartInv'
        BY <2>2, <2>3, <2>4, TransactionIteration
    <2>5. ASSUME Leave(Refused(WithTransfer), by) PROVE BlockTyped' /\ QueuesTyped' /\ StartInv'
        BY <2>2, <2>3, <2>5, TransactionIteration
    <2> QED BY <2>1, <2>2, <2>4, <2>5
<1>4. CASE PackEstablish
    <2>1. \/ Take(Gain(WithAsset, Trans.asset)) \/ Leave(PopNonce(WithAsset), 1)
          \/ Leave(ReceiptOf(receipts, accounts, Trans.sender), 1)
        BY <1>4, Zenon DEF PackEstablish
    <2>2. InTransactions /\ UnchangedByTransaction /\ filter' = filter \cup {Trans.asset}
        BY <1>4, Zenon DEF PackEstablish
    <2>3. Trans \in Transactions
        BY <2>2, InputAssumption DEF QueuesTyped, StartInv, InTransactions, Trans
    <2>4. filter' \in SUBSET Assets
        BY <2>2, <2>3 DEF Transactions
    <2>5. ASSUME NEW r, Take(r) \/ Leave(r, 1) PROVE BlockTyped' /\ QueuesTyped' /\ StartInv'
        BY <2>2, <2>5, TransactionIteration
    <2> QED BY <2>1, <2>4, <2>5
<1>5. CASE EndOfPass
    <2>1. /\ step' \in {"transactions", "affairs"} /\ start' = 1
          /\ UNCHANGED <<blk, serial, transactionsQueue, affairsQueue, filter>>
        BY <1>5 DEF EndOfPass, queueVars
    <2>2. Len(transactionsQueue) \in Nat /\ Len(affairsQueue) \in Nat
        BY DEF QueuesTyped
    <2> QED BY <2>1, <2>2 DEF BlockTyped, QueuesTyped, StartInv
<1>6. CASE DropAffair \/ PackAffair
    <2>1. /\ step = "affairs" /\ start <= Len(affairsQueue) /\ step' = step /\ start' = start
          /\ UNCHANGED <<serial, transactionsQueue, filter>>
          /\ \/ affairsQueue' = RemoveAt(affairsQueue, start)
                /\ (blk' = blk \/ blk' = [blk EXCEPT !.affairs = Append(@, Air)])
             \/ affairsQueue' = affairsQueue /\ blk' = blk
        BY <1>6 DEF DropAffair, PackAffair, InAffairs, UnchangedByAffair
    <2>2. affairsQueue \in Seq(Affairs) /\ start \in 1 .. Len(affairsQueue) /\ Len(affairsQueue) \in Nat
        BY <2>1 DEF QueuesTyped, StartInv
    <2>3. Air \in Affairs
        BY <2>2 DEF Air
    <2>4. RemoveAt(affairsQueue, start) \in Seq(Affairs)
          /\ Len(RemoveAt(affairsQueue, start)) = Len(affairsQueue) - 1
        BY <2>2, RemoveAtType
    <2>5. blk' \in Blocks
        <3>1. blk \in Blocks /\ blk.affairs \in Seq(Affairs)
            BY BlockWith DEF BlockTyped
        <3>2. Append(blk.affairs, Air) \in Seq(Affairs)
            BY <2>3, <3>1, AppendProperties
        <3> QED BY <2>1, <3>1, <3>2, BlockWith
    <2>6. affairsQueue' \in Seq(Affairs) /\ start' \in 1 .. Len(affairsQueue') + 1
        BY <2>1, <2>2, <2>4
    <2> QED BY <2>1, <2>5, <2>6 DEF BlockTyped, QueuesTyped, StartInv
<1>7. CASE EndOfAffairs
    <2>1. /\ step' \in {"affairs", "tried", "header"} /\ start' = 1
          /\ UNCHANGED <<blk, serial, transactionsQueue, affairsQueue>> /\ filter' \in {filter, {}}
        BY <1>7 DEF EndOfAffairs, queueVars
    <2>2. Len(transactionsQueue) \in Nat /\ Len(affairsQueue) \in Nat
        BY DEF QueuesTyped
    <2> QED BY <2>1, <2>2 DEF BlockTyped, QueuesTyped, StartInv
<1>8. CASE TryPackage
    <2>1. /\ step = "tried" /\ step' = "idle" /\ start' = start /\ blk' = NoWork
          /\ UNCHANGED <<serial, filter>>
          /\ \/ /\ affairsQueue' = Reverse(blk.affairs) \o affairsQueue
                /\ transactionsQueue' = Reverse(blk.transactions) \o transactionsQueue
             \/ UNCHANGED <<affairsQueue, transactionsQueue>>
        BY <1>8 DEF TryPackage, packVars, queueVars
    <2>2. blk.transactions \in Seq(Inputs) /\ blk.affairs \in Seq(Affairs)
        BY BlockWith DEF BlockTyped
    <2>3. Reverse(blk.transactions) \in Seq(Inputs) /\ Reverse(blk.affairs) \in Seq(Affairs)
        BY <2>2, ReverseType
    <2>4. QueuesTyped'
        BY <2>1, <2>3, ConcatProperties DEF QueuesTyped
    <2> QED BY <2>1, <2>4, NoWorkTyped DEF BlockTyped, StartInv
<1> QED BY <1>1, <1>2, <1>3, <1>4, <1>5, <1>6, <1>7, <1>8 DEF PackagerNext

\* The items of the block in hand are transactions and affairs.
LEMMA BlockItems ==
    ASSUME BlockTyped
    PROVE  blk.transactions \in Seq(Transactions) /\ blk.affairs \in Seq(Affairs)
<1>1. blk.transactions \in Seq(Inputs) /\ blk.affairs \in Seq(Affairs)
    BY BlockWith DEF BlockTyped
<1> QED BY <1>1, InputAssumption, SeqMonotonic

\* What insert_block queues and assigns, for every block of inputs.
LEMMA InsertFacts ==
    ASSUME DataInv, ChainInv, step = "root", InsertBlock(blk)
    PROVE  /\ Applied(blk) \in ApplyStates /\ Agrees(accounts, Applied(blk))
           /\ accounts' = Applied(blk).accounts
           /\ commits' = <<commits'[1]>> /\ commits'[1].accounts \in AccountMaps
           /\ DOMAIN commits'[1].accounts = Applied(blk).touched
           /\ \A x \in Applied(blk).touched : commits'[1].accounts[x] = accounts'[x]
           /\ commits'[1].prevRoot = rootHash
           /\ rollbacks' \in Seq(RopLists)
           /\ filters' = <<assetFilter'>> /\ assetFilter' = Applied(blk).filter
           /\ assetFilter \subseteq assetFilter'
           /\ EstablishedIn(blk.transactions, Len(blk.transactions), assetFilter')
<1> DEFINE st == Applied(blk)
           c == [accounts |-> [x \in st.touched |-> st.accounts[x]], hash |-> top, prevRoot |-> rootHash]
<1>1. /\ accounts \in AccountMaps /\ assetFilter \in SUBSET Assets
      /\ blk.transactions \in Seq(Transactions) /\ blk.affairs \in Seq(Affairs)
    BY BlockItems DEF DataInv, AccountsTyped, FiltersTyped
<1>2. /\ st.ok /\ accounts' = st.accounts /\ commits' = Append(commits, c)
      /\ rollbacks' = Append(rollbacks, st.ops)
      /\ filters' = Append(filters, st.filter) /\ assetFilter' = st.filter
    BY Zenon DEF InsertBlock, FilterAfter
<1>3. /\ st \in ApplyStates /\ assetFilter \subseteq st.filter /\ Agrees(accounts, st)
      /\ EstablishedIn(blk.transactions, Len(blk.transactions), st.filter)
    BY <1>1, <1>2, AppliedFacts
<1> HIDE DEF st
<1>4. /\ st.accounts \in AccountMaps /\ st.ops \in Seq(Rops) /\ st.filter \in SUBSET Assets
      /\ st.touched \in SUBSET Addresses
    BY <1>3, StateFields
<1>5. commits = <<>> /\ filters = <<>> /\ rollbacks \in Seq(RopLists)
    BY DEF ChainInv, QuietAgrees, Quiet, DataInv, FiltersTyped, PendingTyped
<1>6. /\ c.prevRoot = rootHash /\ DOMAIN c.accounts = st.touched
      /\ \A x \in st.touched : c.accounts[x] = st.accounts[x]
    OBVIOUS
<1>7. c.accounts \in AccountMaps
    <2> DEFINE f == [x \in st.touched |-> st.accounts[x]]
    <2>1. st.touched \subseteq DOMAIN st.accounts /\ \A x \in DOMAIN st.accounts : st.accounts[x] \in AccountSet
        BY <1>3, <1>4, MapIs DEF Agrees, AccountMaps
    <2>2. f = [x \in DOMAIN f |-> f[x]] /\ DOMAIN f \subseteq Addresses /\ \A x \in DOMAIN f : f[x] \in AccountSet
        BY <1>4, <2>1
    <2>3. f \in AccountMaps
        BY <2>2, MapIs DEF AccountMaps
    <2> QED BY <2>3
<1> HIDE DEF c
<1>8. commits' = <<commits'[1]>> /\ commits'[1] = c
    BY <1>2, <1>5
<1>9. filters' = <<assetFilter'>>
    BY <1>2, <1>5
<1>10. rollbacks' \in Seq(RopLists)
    <2>1. st.ops \in RopLists
        BY <1>4 DEF RopLists
    <2> QED BY <1>2, <1>5, <2>1, AppendProperties
<1> QED BY <1>2, <1>3, <1>6, <1>7, <1>8, <1>9, <1>10 DEF st

\* Every step keeps the types.
LEMMA DataStep == DataInv /\ ChainInv /\ ChainInv' /\ [Next]_vars => DataInv'
<1> SUFFICES ASSUME DataInv, ChainInv, ChainInv', [Next]_vars PROVE DataInv'
    OBVIOUS
<1>0. AccountsTyped /\ BlockTyped /\ QueuesTyped /\ StartInv /\ PlaceTyped /\ FiltersTyped /\ PendingTyped
    BY DEF DataInv
<1>1. CASE Submit
    <2>1. /\ step = "idle" /\ UNCHANGED <<step, blk, serial, accounts, diskAccounts, height, top, currentHeight, topBlock,
                        diskState, assetFilter, filter, diskFilters, filters, rollbacks, commits, start>>
          /\ \/ \E t \in Inputs : transactionsQueue' = Append(transactionsQueue, t) /\ UNCHANGED affairsQueue
             \/ \E air \in AffairInputs : affairsQueue' = Append(affairsQueue, air) /\ UNCHANGED transactionsQueue
        BY <1>1 DEF Submit, ledgerVars, pendingVars, packVars, storeVars, connectorVars, diskVars
    <2>2. QueuesTyped'
        <3>1. transactionsQueue \in Seq(Inputs) /\ affairsQueue \in Seq(Affairs) /\ AffairInputs \subseteq Affairs
            BY <1>0, InputAssumption DEF QueuesTyped
        <3>2. \A t \in Inputs : Append(transactionsQueue, t) \in Seq(Inputs)
            BY <3>1, AppendProperties
        <3>3. \A air \in AffairInputs : Append(affairsQueue, air) \in Seq(Affairs)
            BY <3>1, AppendProperties
        <3> QED BY <2>1, <3>1, <3>2, <3>3 DEF QueuesTyped
    <2>3. AccountsTyped' /\ BlockTyped' /\ StartInv' /\ PlaceTyped' /\ FiltersTyped' /\ PendingTyped'
        BY <1>0, <2>1 DEF AccountsTyped, BlockTyped, StartInv, PlaceTyped, FiltersTyped, PendingTyped
    <2> QED BY <2>2, <2>3 DEF DataInv
<1>2. CASE transaction_pool_waiting_count
    <2>1. /\ step = "idle" /\ UNCHANGED <<step, blk, serial, accounts, diskAccounts, height, top, currentHeight, topBlock,
                        diskState, assetFilter, filter, diskFilters, filters, rollbacks, commits, start>>
          /\ transactionsQueue' = Waiting(transactionsQueue, expired')
          /\ affairsQueue' = Waiting(affairsQueue, expired')
        BY <1>2 DEF transaction_pool_waiting_count, ledgerVars, pendingVars, storeVars, connectorVars, diskVars
    <2>2. QueuesTyped'
        BY <1>0, <2>1, WaitingType DEF QueuesTyped
    <2>3. AccountsTyped' /\ BlockTyped' /\ StartInv' /\ PlaceTyped' /\ FiltersTyped' /\ PendingTyped'
        BY <1>0, <2>1 DEF AccountsTyped, BlockTyped, StartInv, PlaceTyped, FiltersTyped, PendingTyped
    <2> QED BY <2>2, <2>3 DEF DataInv
<1>3. CASE PackagerNext /\ UNCHANGED <<storeVars, submits>>
    <2>1. /\ UNCHANGED <<accounts, diskAccounts, height, top, currentHeight, topBlock, diskState,
                         assetFilter, diskFilters, filters, rollbacks, commits>>
          /\ step \in Quiet /\ step' \in Quiet
        BY <1>0, <1>3, PackagerFrame, PackagerIsQuiet
        DEF ChainInv, ledgerVars, pendingVars, storeVars, connectorVars, diskVars
    <2>2. BlockTyped' /\ QueuesTyped' /\ StartInv' /\ filter' \in SUBSET Assets
        BY <1>0, <1>3, PackagerTyped DEF FiltersTyped
    <2>3. AccountsTyped' /\ PlaceTyped' /\ FiltersTyped' /\ PendingTyped'
        BY <1>0, <2>1, <2>2 DEF AccountsTyped, PlaceTyped, FiltersTyped, PendingTyped, Quiet
    <2> QED BY <2>2, <2>3 DEF DataInv
<1>4. CASE PackageHeader
    <2>1. /\ step = "header" /\ step' \in {"root", "idle"}
          /\ UNCHANGED <<serial, accounts, diskAccounts, height, top, currentHeight, topBlock,
                         diskState, assetFilter, filter, diskFilters, filters, rollbacks, commits, start,
                         transactionsQueue, affairsQueue>>
          /\ \/ blk' = [blk EXCEPT !.height = currentHeight + 1, !.prev = topBlock]
             \/ blk' = NoWork
        BY <1>4 DEF PackageHeader, ledgerVars, pendingVars, packVars, queueVars, storeVars, connectorVars, diskVars
    <2>2. blk' \in Blocks
        <3>1. currentHeight + 1 \in Nat /\ topBlock \in Nat /\ blk \in Blocks
            BY <1>0 DEF PlaceTyped, BlockTyped
        <3>2. [blk EXCEPT !.height = currentHeight + 1, !.prev = topBlock] \in Blocks
            BY <3>1 DEF Blocks
        <3> QED BY <2>1, <3>2, NoWorkTyped
    <2>3. AccountsTyped' /\ BlockTyped' /\ QueuesTyped' /\ StartInv' /\ PlaceTyped' /\ FiltersTyped' /\ PendingTyped'
        BY <1>0, <2>1, <2>2 DEF AccountsTyped, BlockTyped, QueuesTyped, StartInv, PlaceTyped, FiltersTyped, PendingTyped
    <2> QED BY <2>3 DEF DataInv
<1>5. CASE PackageRoot /\ UNCHANGED <<queueVars, packVars, storeVars, submits>>
    <2>1. /\ step = "root"
          /\ UNCHANGED <<serial, diskAccounts, currentHeight, topBlock, diskState, filter, diskFilters, start,
                         transactionsQueue, affairsQueue>>
        BY <1>5 DEF PackageRoot, packVars, queueVars, storeVars, connectorVars, diskVars
    <2>2. CASE Insertable(blk) /\ InsertBlock(blk) /\ step' = "packed" /\ UNCHANGED blk
        <3>1. /\ accounts' \in AccountMaps /\ assetFilter' \in SUBSET Assets /\ filters' = <<assetFilter'>>
              /\ rollbacks' \in Seq(RopLists)
              /\ commits' = <<commits'[1]>> /\ commits'[1].accounts \in AccountMaps
            BY <2>1, <2>2, InsertFacts, StateFields
        <3>2. height' \in Nat /\ top' \in Nat
            BY <1>0, <2>2 DEF InsertBlock, BlockTyped, Blocks
        <3>3. AccountsTyped' /\ BlockTyped' /\ QueuesTyped' /\ StartInv' /\ PlaceTyped' /\ FiltersTyped' /\ PendingTyped'
            BY <1>0, <2>1, <2>2, <3>1, <3>2
            DEF AccountsTyped, BlockTyped, QueuesTyped, StartInv, PlaceTyped, FiltersTyped, PendingTyped
        <3> QED BY <3>3 DEF DataInv
    <2>3. CASE /\ step' = "idle" /\ blk' = NoWork
               /\ UNCHANGED <<assetFilter, height, top, commits, rollbacks, filters>>
               /\ InsertThrows(blk) \/ UNCHANGED accounts
        <3>1. accounts' \in AccountMaps
            <4>1. CASE InsertThrows(blk)
                <5> DEFINE st == Applied(blk)
                <5>1. accounts' = execute_rollback(st.ops, st.accounts).accounts
                    BY <4>1, Zenon DEF InsertThrows
                <5>2. st \in ApplyStates
                    BY <1>0, BlockItems, AppliedFacts DEF AccountsTyped, FiltersTyped
                <5> HIDE DEF st
                <5>3. execute_rollback(st.ops, st.accounts) \in UndoStates
                    BY <5>2, StateFields, RollbackType
                <5> QED BY <5>1, <5>3 DEF UndoStates
            <4>2. CASE UNCHANGED accounts
                BY <1>0, <4>2 DEF AccountsTyped
            <4> QED BY <2>3, <4>1, <4>2
        <3>2. AccountsTyped' /\ BlockTyped' /\ QueuesTyped' /\ StartInv' /\ PlaceTyped' /\ FiltersTyped' /\ PendingTyped'
            BY <1>0, <2>1, <2>3, <3>1, NoWorkTyped
            DEF AccountsTyped, BlockTyped, QueuesTyped, StartInv, PlaceTyped, FiltersTyped, PendingTyped
        <3> QED BY <3>2 DEF DataInv
    <2> QED BY <1>5, <2>2, <2>3 DEF PackageRoot, InsertThrows, ledgerVars, pendingVars
<1>6. CASE TotalRollback /\ UNCHANGED <<queueVars, packVars, storeVars, submits>>
    <2>1. /\ step = "packed" /\ Len(rollbacks) = 1
          /\ UNCHANGED <<serial, diskAccounts, currentHeight, topBlock, diskState, filter, diskFilters, start,
                         transactionsQueue, affairsQueue>>
        BY <1>6 DEF TotalRollback, packVars, queueVars, storeVars, connectorVars, diskVars
    <2> DEFINE undone == execute_rollback(rollbacks[1], accounts)
    <2>2. /\ accounts' = undone.accounts /\ rollbacks' \in {<<>>, rollbacks}
          /\ RolledBack \/ /\ step' = "failed"
                           /\ UNCHANGED <<blk, height, top, commits, extensions, assetFilter, filters>>
        BY <1>6 DEF TotalRollback
    <2>3. undone \in UndoStates
        <3>1. rollbacks[1] \in Seq(Rops) /\ accounts \in AccountMaps
            <4>1. rollbacks \in Seq(RopLists) /\ accounts \in AccountMaps
                BY <1>0 DEF PendingTyped, AccountsTyped
            <4>2. rollbacks[1] \in RopLists
                BY <2>1, <4>1, ElementOfSeq
            <4> QED BY <4>1, <4>2 DEF RopLists
        <3> QED BY <3>1, RollbackType
    <2> HIDE DEF undone
    <2>4. accounts' \in AccountMaps /\ rollbacks' \in Seq(RopLists)
        <3>1. accounts' \in AccountMaps
            BY <2>2, <2>3 DEF UndoStates
        <3>2. rollbacks \in Seq(RopLists) /\ <<>> \in Seq(RopLists)
            BY <1>0, EmptySeq DEF PendingTyped
        <3> QED BY <2>2, <3>1, <3>2
    <2>5. CASE RolledBack
        <3>1. /\ height' = height - 1 /\ top' = commits[1].hash /\ assetFilter' = Last(filters)
              /\ filters' = Front(filters) /\ step' = "idle" /\ blk' = NoWork
            BY <2>5 DEF RolledBack
        <3>2. /\ filters = <<assetFilter>> /\ height = diskState.height + 1 /\ diskState # NoState
              /\ diskState.height \in Nat /\ commits[1].hash = diskState.top
            BY <1>0, <2>1 DEF FiltersTyped, ChainInv, WritingAhead, Writing, StateStored, CommitKnowsTop
        <3>3. ASSUME NEW f PROVE Front(<<f>>) = <<>> /\ Last(<<f>>) = f
            BY DEF Front, Last
        <3>4. filters' = <<>> /\ assetFilter' = assetFilter /\ height' \in Nat /\ top' = diskState.top
            BY <3>1, <3>2, <3>3
        <3>5. AccountsTyped' /\ BlockTyped' /\ QueuesTyped' /\ StartInv'
            BY <1>0, <2>1, <2>4, <3>1, NoWorkTyped DEF AccountsTyped, BlockTyped, QueuesTyped, StartInv
        <3>6. PlaceTyped' /\ FiltersTyped' /\ PendingTyped'
            BY <1>0, <2>1, <2>4, <3>1, <3>2, <3>4 DEF PlaceTyped, FiltersTyped, PendingTyped
        <3> QED BY <3>5, <3>6 DEF DataInv
    <2>6. CASE step' = "failed" /\ UNCHANGED <<blk, height, top, commits, extensions, assetFilter, filters>>
        <3>1. AccountsTyped' /\ BlockTyped' /\ QueuesTyped' /\ StartInv' /\ PlaceTyped' /\ FiltersTyped' /\ PendingTyped'
            BY <1>0, <2>1, <2>4, <2>6
            DEF AccountsTyped, BlockTyped, QueuesTyped, StartInv, PlaceTyped, FiltersTyped, PendingTyped
        <3> QED BY <3>1 DEF DataInv
    <2> QED BY <2>2, <2>5, <2>6
<1>7. CASE StoreNext /\ UNCHANGED <<queueVars, packVars, submits>>
    <2>0. UNCHANGED <<serial, filter, start, transactionsQueue, affairsQueue>>
        BY <1>7 DEF packVars, queueVars
    <2>1. CASE GenesisState \/ GenesisBlock \/ SaveBlock \/ UpdateConnector
        <3>1. /\ UNCHANGED <<blk, accounts, diskAccounts, height, top, assetFilter, diskFilters,
                             filters, rollbacks, commits>>
              /\ <<step, step'>> \in {<<"genesis", "genesisBlock">>, <<"genesisBlock", "idle">>,
                                      <<"block", "state">>, <<"idle", "idle">>}
              /\ diskState' = diskState \/ diskState' = [height |-> 0, top |-> Genesis]
              /\ currentHeight' \in {currentHeight, height} /\ topBlock' \in {topBlock, top}
            BY <2>1 DEF GenesisState, GenesisBlock, SaveBlock, UpdateConnector, ledgerVars, pendingVars,
                        connectorVars, diskVars
        <3>2. AccountsTyped' /\ BlockTyped' /\ QueuesTyped' /\ StartInv'
            BY <1>0, <2>0, <3>1 DEF AccountsTyped, BlockTyped, QueuesTyped, StartInv
        <3>3. PlaceTyped'
            BY <1>0, <3>1 DEF PlaceTyped, Genesis
        <3>4. FiltersTyped' /\ PendingTyped'
            BY <1>0, <2>0, <3>1 DEF FiltersTyped, PendingTyped
        <3> QED BY <3>2, <3>3, <3>4 DEF DataInv
    <2>2. CASE CommitExtensions
        <3>1. /\ UNCHANGED <<blk, accounts, diskAccounts, height, top, assetFilter, diskFilters, currentHeight,
                             topBlock, diskState, filters, rollbacks, commits>>
              /\ step = "packed" /\ step' = "accounts"
            BY <2>2 DEF CommitExtensions, connectorVars
        <3>2. AccountsTyped' /\ BlockTyped' /\ QueuesTyped' /\ StartInv' /\ PlaceTyped' /\ FiltersTyped' /\ PendingTyped'
            BY <1>0, <2>0, <3>1
            DEF AccountsTyped, BlockTyped, QueuesTyped, StartInv, PlaceTyped, FiltersTyped, PendingTyped
        <3> QED BY <3>2 DEF DataInv
    <2>3. CASE CommitAccounts
        <3>1. /\ UNCHANGED <<blk, accounts, height, top, assetFilter, diskFilters, currentHeight,
                             topBlock, diskState, filters, rollbacks>>
              /\ step = "accounts" /\ step' = "filter"
            BY <2>3 DEF CommitAccounts, connectorVars
        <3>2. diskAccounts' = WrittenTo(diskAccounts, commits)
            BY <2>3, Zenon DEF CommitAccounts, WrittenTo
        <3>3. diskAccounts' \in AccountMaps
            BY <1>0, <3>1, <3>2, OneCommit DEF AccountsTyped, PendingTyped
        <3>4. AccountsTyped' /\ BlockTyped' /\ QueuesTyped' /\ StartInv' /\ PlaceTyped' /\ FiltersTyped' /\ PendingTyped'
            BY <1>0, <2>0, <3>1, <3>3
            DEF AccountsTyped, BlockTyped, QueuesTyped, StartInv, PlaceTyped, FiltersTyped, PendingTyped
        <3> QED BY <3>4 DEF DataInv
    <2>4. CASE CommitFilter
        <3>1. /\ UNCHANGED <<blk, accounts, diskAccounts, height, top, assetFilter, currentHeight,
                             topBlock, diskState, commits>>
              /\ step = "filter" /\ step' = "block" /\ rollbacks' = <<>>
              /\ diskFilters' = IF filters = <<>> THEN diskFilters ELSE Put(diskFilters, <<top, height>>, Head(filters))
              /\ filters' = IF filters = <<>> THEN filters ELSE Tail(filters)
            BY <2>4 DEF CommitFilter, connectorVars
        <3>2. filters = <<assetFilter>>
            BY <1>0, <3>1 DEF FiltersTyped
        <3>3. filters' = <<>> /\ diskFilters' = Put(diskFilters, <<top, height>>, assetFilter)
            BY <3>1, <3>2
        <3>4. \A k \in DOMAIN diskFilters' : diskFilters'[k] \in SUBSET Assets
            BY <1>0, <3>3 DEF FiltersTyped, Put
        <3>5. AccountsTyped' /\ BlockTyped' /\ QueuesTyped' /\ StartInv' /\ PlaceTyped'
            BY <1>0, <2>0, <3>1 DEF AccountsTyped, BlockTyped, QueuesTyped, StartInv, PlaceTyped
        <3>6. FiltersTyped'
            BY <1>0, <2>0, <3>1, <3>3, <3>4 DEF FiltersTyped
        <3>7. PendingTyped'
            BY <3>1, EmptySeq DEF PendingTyped
        <3> QED BY <3>5, <3>6, <3>7 DEF DataInv
    <2>5. CASE SaveState
        <3>1. /\ UNCHANGED <<accounts, diskAccounts, height, top, assetFilter, diskFilters, currentHeight,
                             topBlock, filters, rollbacks, commits>>
              /\ step = "state" /\ step' = "idle" /\ blk' = NoWork
              /\ diskState' = [height |-> blk.height, top |-> blk.id]
            BY <2>5 DEF SaveState, ledgerVars, pendingVars, connectorVars
        <3>2. diskState'.top \in Nat
            BY <1>0, <3>1 DEF BlockTyped, Blocks
        <3>3. AccountsTyped' /\ BlockTyped' /\ QueuesTyped' /\ StartInv' /\ PlaceTyped' /\ FiltersTyped' /\ PendingTyped'
            BY <1>0, <2>0, <3>1, <3>2, NoWorkTyped
            DEF AccountsTyped, BlockTyped, QueuesTyped, StartInv, PlaceTyped, FiltersTyped, PendingTyped
        <3> QED BY <3>3 DEF DataInv
    <2> QED BY <1>7, <2>1, <2>2, <2>3, <2>4, <2>5 DEF StoreNext
<1>8. CASE Restart /\ LosePool
    <2>1. /\ accounts' = diskAccounts /\ blk' = NoWork /\ commits' = <<>> /\ rollbacks' = <<>> /\ filters' = <<>>
          /\ transactionsQueue' = <<>> /\ affairsQueue' = <<>> /\ start' = 1 /\ filter' = {}
          /\ UNCHANGED <<serial, diskAccounts, diskFilters, diskState>>
          /\ step' \in {"genesis", "idle", "damaged"}
          /\ currentHeight' = height' /\ topBlock' = top'
        BY <1>8 DEF Restart, LosePool, diskVars
    <2>2. /\ \/ height' = 0 /\ top' = 0 /\ assetFilter' = {}
             \/ diskState # NoState /\ height' = diskState.height /\ top' = diskState.top
          /\ assetFilter' = {} \/ \E k \in DOMAIN diskFilters : assetFilter' = diskFilters[k]
        BY <1>8 DEF Restart, LoadedFilter, Genesis
    <2>3. height' \in Nat /\ top' \in Nat /\ assetFilter' \in SUBSET Assets
        BY <1>0, <2>2 DEF PlaceTyped, FiltersTyped, ChainInv, StateStored
    <2>4. AccountsTyped' /\ BlockTyped' /\ QueuesTyped' /\ StartInv'
        BY <1>0, <2>1, NoWorkTyped DEF AccountsTyped, BlockTyped, QueuesTyped, StartInv
    <2>5. PlaceTyped' /\ FiltersTyped' /\ PendingTyped'
        BY <1>0, <2>1, <2>3 DEF PlaceTyped, FiltersTyped, PendingTyped
    <2> QED BY <2>4, <2>5 DEF DataInv
<1>9. CASE UNCHANGED vars
    BY <1>0, <1>9 DEF vars, DataInv, AccountsTyped, BlockTyped, QueuesTyped, StartInv, PlaceTyped, FiltersTyped,
        PendingTyped, packVars, queueVars, ledgerVars, pendingVars, storeVars, connectorVars, diskVars
<1> QED BY <1>1, <1>2, <1>3, <1>4, <1>5, <1>6, <1>7, <1>8, <1>9 DEF Next

\* The types of everything the node keeps, for every set of inputs.
THEOREM DataInvariant == Spec => []DataInv
BY DataInit, DataStep, ChainInvariant, PTL DEF Spec

\* TypeOK of Chain: no operation on an account, no refused item, no rollback and no
\* restart leaves an account outside its type or the iterator outside its queue.
THEOREM ChainTypeOK == Spec => []TypeOK
<1>1. DataInv /\ ChainInv => TypeOK
    <2> SUFFICES ASSUME DataInv, ChainInv PROVE TypeOK
        OBVIOUS
    <2>1. /\ step \in Steps /\ height \in Nat /\ currentHeight \in Nat /\ transactionsQueue \in Seq(Inputs)
          /\ filter \subseteq Assets /\ assetFilter \subseteq Assets
        BY DEF DataInv, ChainInv, StateStored, PlaceTyped, QueuesTyped, FiltersTyped
    <2>2. start \in 1 .. Len(transactionsQueue) + Len(affairsQueue) + 1
        <3>1. Len(transactionsQueue) \in Nat /\ Len(affairsQueue) \in Nat
            BY DEF DataInv, QueuesTyped
        <3> QED BY <3>1 DEF DataInv, StartInv
    <2>3. \A x \in DOMAIN accounts : x \in Addresses /\ accounts[x] \in AccountSet
        BY MapIs DEF DataInv, AccountsTyped, AccountMaps
    <2>4. ASSUME NEW act \in AccountSet
          PROVE  act.nonce \in Uint64 /\ \A a \in DOMAIN act.balances : a \in Assets /\ act.balances[a] \in Uint64
        <3>1. act.nonce \in Uint64 /\ act.balances \in Maps(Assets, Uint64)
            BY DEF AccountSet
        <3> QED BY <3>1, MapIs
    <2> QED BY <2>1, <2>2, <2>3, <2>4 DEF TypeOK
<1> QED BY <1>1, DataInvariant, ChainInvariant, PTL

-----------------------------------------------------------------------------
(* The accounts on disk and the accounts in memory *)

\* Until an insertion has thrown, the root in memory is the root of the accounts, and
\* the disk holds them, or will when the queued commit is written.
RootInv ==
    /\ diskState = NoState => diskTrie = RootOf(diskAccounts)
    /\ ~threw =>
         /\ step \in Quiet \cup {"genesis", "filter", "block", "state"} =>
                rootHash = RootOf(accounts) /\ RootOf(diskAccounts) = RootOf(accounts)
         /\ step \in {"packed", "accounts"} =>
                /\ rootHash = RootOf(accounts)
                /\ RootOf(Overwrite(diskAccounts, commits[1].accounts)) = RootOf(accounts)
                /\ commits[1].prevRoot = RootOf(diskAccounts)

\* An empty disk and an empty memory have the same root.
LEMMA RootInit == Init => RootInv
<1> SUFFICES ASSUME Init PROVE RootInv
    OBVIOUS
<1>1. RootOf(Nothing) = Nothing
    BY DEF RootOf, Nothing
<1> QED BY <1>1 DEF Init, RootInv

\* Maps with the same root have the same accounts, as far as their hashes tell.
LEMMA SameRoot ==
    ASSUME NEW f, NEW g
    PROVE  RootOf(f) = RootOf(g) <=> /\ DOMAIN f = DOMAIN g
                                     /\ \A x \in DOMAIN f : get_hash(f[x]) = get_hash(g[x])
<1>1. /\ DOMAIN RootOf(f) = DOMAIN f /\ DOMAIN RootOf(g) = DOMAIN g
      /\ \A x \in DOMAIN f : RootOf(f)[x] = get_hash(f[x])
      /\ \A x \in DOMAIN g : RootOf(g)[x] = get_hash(g[x])
    BY DEF RootOf
<1>2. ASSUME RootOf(f) = RootOf(g)
      PROVE  DOMAIN f = DOMAIN g /\ \A x \in DOMAIN f : get_hash(f[x]) = get_hash(g[x])
    BY <1>1, <1>2
<1>3. ASSUME DOMAIN f = DOMAIN g, \A x \in DOMAIN f : get_hash(f[x]) = get_hash(g[x])
      PROVE  RootOf(f) = RootOf(g)
    BY <1>3 DEF RootOf
<1> QED BY <1>2, <1>3

\* The commit of a block carries every account the block changed: written over the
\* accounts before the block it gives the accounts after it.
LEMMA CommitCarries ==
    ASSUME NEW disk, NEW accts, NEW st, NEW c, RootOf(disk) = RootOf(accts), Agrees(accts, st),
           DOMAIN c = st.touched, \A x \in st.touched : c[x] = st.accounts[x]
    PROVE  RootOf(Overwrite(disk, c)) = RootOf(st.accounts)
<1> DEFINE new == Overwrite(disk, c)
<1>1. DOMAIN disk = DOMAIN accts /\ \A x \in DOMAIN disk : get_hash(disk[x]) = get_hash(accts[x])
    BY SameRoot
<1>2. /\ DOMAIN new = DOMAIN disk \cup st.touched
      /\ \A x \in DOMAIN new : new[x] = IF x \in st.touched THEN c[x] ELSE disk[x]
    BY DEF Overwrite
<1>3. /\ DOMAIN st.accounts = DOMAIN accts \cup st.touched
      /\ \A x \in DOMAIN accts \ st.touched : st.accounts[x] = accts[x]
    BY DEF Agrees
<1> HIDE DEF new
<1>4. \A x \in DOMAIN new : get_hash(new[x]) = get_hash(st.accounts[x])
    BY <1>1, <1>2, <1>3
<1>5. RootOf(new) = RootOf(st.accounts)
    BY <1>1, <1>2, <1>3, <1>4, SameRoot
<1> QED BY <1>5 DEF new

\* Every step keeps the agreement of disk and memory.
LEMMA RootStep == RootInv /\ DataInv /\ ChainInv /\ ChainInv' /\ [Next]_vars => RootInv'
<1> SUFFICES ASSUME RootInv, DataInv, ChainInv, ChainInv', [Next]_vars PROVE RootInv'
    OBVIOUS
<1>1. CASE Submit \/ transaction_pool_waiting_count \/ UpdateConnector
    BY <1>1 DEF Submit, transaction_pool_waiting_count, UpdateConnector, RootInv, Quiet, ledgerVars, pendingVars,
                storeVars, diskVars
<1>2. CASE PackagerNext /\ UNCHANGED <<storeVars, submits>>
    <2>1. /\ UNCHANGED <<accounts, rootHash, threw, commits, diskAccounts, diskTrie, diskState>>
          /\ step \in Quiet /\ step' \in Quiet
        BY <1>2, PackagerFrame, PackagerIsQuiet DEF ChainInv, ledgerVars, pendingVars, storeVars, diskVars
    <2> QED BY <2>1 DEF RootInv, Quiet
<1>3. CASE PackageHeader
    <2>1. /\ UNCHANGED <<accounts, rootHash, threw, commits, diskAccounts, diskTrie, diskState>>
          /\ step \in Quiet /\ step' \in Quiet
        BY <1>3 DEF PackageHeader, Quiet, ledgerVars, pendingVars, storeVars, diskVars
    <2> QED BY <2>1 DEF RootInv, Quiet
<1>4. CASE PackageRoot /\ UNCHANGED <<queueVars, packVars, storeVars, submits>>
    <2>1. step = "root" /\ UNCHANGED <<diskAccounts, diskTrie, diskState>>
        BY <1>4 DEF PackageRoot, storeVars, diskVars
    <2>2. CASE InsertBlock(blk) /\ step' = "packed"
        <3> DEFINE st == Applied(blk)
        <3>1. /\ st \in ApplyStates /\ Agrees(accounts, st) /\ accounts' = st.accounts
              /\ DOMAIN commits'[1].accounts = st.touched
              /\ \A x \in st.touched : commits'[1].accounts[x] = accounts'[x]
              /\ commits'[1].prevRoot = rootHash
            BY <2>1, <2>2, InsertFacts
        <3>2. rootHash' = RootOf(st.accounts) /\ threw' = threw
            BY <2>2, Zenon DEF InsertBlock
        <3> HIDE DEF st
        <3>3. ASSUME ~threw
              PROVE  /\ RootOf(Overwrite(diskAccounts, commits'[1].accounts)) = RootOf(accounts')
                     /\ commits'[1].prevRoot = RootOf(diskAccounts)
            <4>1. rootHash = RootOf(accounts) /\ RootOf(diskAccounts) = RootOf(accounts)
                BY <2>1, <3>3 DEF RootInv, Quiet
            <4> QED BY <3>1, <4>1, CommitCarries
        <3> QED BY <2>1, <2>2, <3>1, <3>2, <3>3 DEF RootInv, Quiet
    <2>3. CASE InsertThrows(blk)
        BY <2>1, <2>3 DEF InsertThrows, RootInv
    <2>4. CASE step' = "idle" /\ UNCHANGED ledgerVars
        BY <2>1, <2>4 DEF RootInv, Quiet, ledgerVars, pendingVars
    <2> QED BY <1>4, <2>2, <2>3, <2>4 DEF PackageRoot
<1>5. CASE TotalRollback /\ UNCHANGED <<queueVars, packVars, storeVars, submits>>
    <2> DEFINE undone == execute_rollback(rollbacks[1], accounts)
    <2>1. /\ step = "packed" /\ UNCHANGED <<diskAccounts, diskTrie, diskState, threw>>
          /\ accounts' = undone.accounts
          /\ rootHash' = IF undone.ok THEN RootOf(undone.accounts) ELSE rootHash
          /\ \/ undone.ok /\ rootHash' = commits[1].prevRoot /\ step' = "idle"
             \/ step' = "failed"
        BY <1>5 DEF TotalRollback, RolledBack, storeVars, diskVars
    <2> HIDE DEF undone
    <2>2. CASE undone.ok /\ rootHash' = commits[1].prevRoot /\ step' = "idle"
        <3>1. rootHash' = RootOf(accounts')
            BY <2>1, <2>2
        <3>2. ~threw => commits[1].prevRoot = RootOf(diskAccounts)
            BY <2>1 DEF RootInv
        <3> QED BY <2>1, <2>2, <3>1, <3>2 DEF RootInv
    <2>3. CASE step' = "failed"
        BY <2>1, <2>3 DEF RootInv, Quiet
    <2> QED BY <2>1, <2>2, <2>3
<1>6. CASE GenesisState
    BY <1>6, StoreAssumption DEF GenesisState, ChainInv, StateStored, RootInv, Quiet, Genesis, ledgerVars, pendingVars
<1>7. CASE GenesisBlock
    BY <1>7 DEF GenesisBlock, RootInv, Quiet, ledgerVars, pendingVars
<1>8. CASE CommitExtensions
    <2>1. /\ step = "packed" /\ step' = "accounts" /\ diskState # NoState
          /\ UNCHANGED <<accounts, rootHash, threw, commits, diskAccounts, diskState>>
        BY <1>8 DEF CommitExtensions, ChainInv, StateStored
    <2> QED BY <2>1 DEF RootInv, Quiet
<1>9. CASE CommitAccounts
    <2>1. /\ step = "accounts" /\ step' = "filter" /\ diskState # NoState
          /\ UNCHANGED <<accounts, rootHash, threw, diskState>>
        BY <1>9 DEF CommitAccounts, ChainInv, StateStored
    <2>2. diskAccounts' = WrittenTo(diskAccounts, commits)
        BY <1>9, Zenon DEF CommitAccounts, WrittenTo
    <2>3. commits = <<commits[1]>> /\ commits[1].accounts \in AccountMaps /\ diskAccounts \in AccountMaps
        BY <2>1 DEF DataInv, PendingTyped, AccountsTyped
    <2>4. diskAccounts' = Overwrite(diskAccounts, commits[1].accounts)
        BY <2>2, <2>3, OneCommit
    <2> QED BY <2>1, <2>4 DEF RootInv
<1>10. CASE CommitFilter \/ SaveBlock
    BY <1>10 DEF CommitFilter, SaveBlock, RootInv, Quiet, ledgerVars, pendingVars
<1>11. CASE SaveState
    BY <1>11, StoreAssumption DEF SaveState, ChainInv, StateStored, RootInv, Quiet, ledgerVars, pendingVars
<1>12. CASE Restart /\ LosePool
    <2>1. /\ accounts' = diskAccounts /\ rootHash' = diskTrie /\ UNCHANGED <<diskAccounts, diskTrie, diskState, threw>>
          /\ \/ diskState = NoState /\ step' = "genesis"
             \/ step' = IF diskTrie = RootOf(diskAccounts) THEN "idle" ELSE "damaged"
        BY <1>12 DEF Restart, diskVars
    <2> QED BY <2>1 DEF RootInv, Quiet
<1>13. CASE UNCHANGED vars
    BY <1>13 DEF vars, RootInv, ledgerVars, pendingVars, storeVars, diskVars
<1> QED BY <1>1, <1>2, <1>3, <1>4, <1>5, <1>6, <1>7, <1>8, <1>9, <1>10, <1>11, <1>12, <1>13 DEF Next, StoreNext

\* Disk and memory agree at every point where the code relies on it.
THEOREM RootInvariant == Spec => []RootInv
BY RootInit, RootStep, DataInvariant, ChainInvariant, PTL DEF Spec

\* commit_accounts forgets no account: whatever the block, and wherever a crash has
\* fallen before, the accounts on disk have the root of the accounts in memory once
\* the commit is written, until insert_block throws.
THEOREM CommitIsComplete == Spec => []CommitComplete
<1>1. RootInv => CommitComplete
    BY DEF RootInv, CommitComplete, Quiet
<1> QED BY <1>1, RootInvariant, PTL

-----------------------------------------------------------------------------
(* The asset filter *)

\* A filter knows what the blocks up to the stored state establish.
Knows(known) ==
    \A i \in 1 .. diskState.height :
        EstablishedIn(diskBlocks[i].transactions, Len(diskBlocks[i].transactions), known)

\* The filter in memory knows the stored chain and the inserted block; the one stored
\* under the key of the state knows the stored chain.
FilterInv ==
    /\ step \in Quiet \cup Writing => Knows(assetFilter)
    /\ step \in Writing => EstablishedIn(blk.transactions, Len(blk.transactions), assetFilter)
    /\ step \in {"block", "state"} => /\ <<top, height>> \in DOMAIN diskFilters
                                      /\ diskFilters[<<top, height>>] = assetFilter
    /\ diskState # NoState /\ diskState.height > 0 =>
         LET key == <<diskState.top, diskState.height>>
         IN  key \in DOMAIN diskFilters /\ Knows(diskFilters[key])

\* No chain is stored yet, so there is nothing a filter must know.
LEMMA FilterInit == Init => FilterInv
BY DEF Init, FilterInv, Quiet, Writing

\* Steps that touch neither the stored chain nor the filters.
LEMMA FilterFrame ==
    ASSUME FilterInv, UNCHANGED <<diskState, diskBlocks, diskFilters, assetFilter>>,
           \/ step \in Quiet /\ step' \in Quiet
           \/ step' \in {"failed", "damaged"}
           \/ /\ step \in {"packed", "accounts"} /\ step' \in {"accounts", "filter"}
              /\ UNCHANGED <<blk, top, height>>
    PROVE  FilterInv'
BY DEF FilterInv, Knows, Quiet, Writing

\* Every step keeps it.
LEMMA FilterStep == FilterInv /\ DataInv /\ ChainInv /\ ChainInv' /\ [Next]_vars => FilterInv'
<1> SUFFICES ASSUME FilterInv, DataInv, ChainInv, ChainInv', [Next]_vars PROVE FilterInv'
    OBVIOUS
<1>1. CASE Submit \/ transaction_pool_waiting_count \/ PackageHeader \/ UpdateConnector
    <2>1. /\ UNCHANGED <<diskState, diskBlocks, diskFilters, assetFilter>>
          /\ step \in Quiet /\ step' \in Quiet
        BY <1>1 DEF Submit, transaction_pool_waiting_count, PackageHeader, UpdateConnector, Quiet, ledgerVars,
                    storeVars, diskVars
    <2> QED BY <2>1, FilterFrame
<1>2. CASE PackagerNext /\ UNCHANGED <<storeVars, submits>>
    <2>1. /\ UNCHANGED <<diskState, diskBlocks, diskFilters, assetFilter>>
          /\ step \in Quiet /\ step' \in Quiet
        BY <1>2, PackagerFrame, PackagerIsQuiet DEF ChainInv, ledgerVars, storeVars, diskVars
    <2> QED BY <2>1, FilterFrame
<1>3. CASE PackageRoot /\ UNCHANGED <<queueVars, packVars, storeVars, submits>>
    <2>1. step = "root" /\ UNCHANGED <<diskState, diskBlocks, diskFilters>>
        BY <1>3 DEF PackageRoot, storeVars, diskVars
    <2>2. CASE InsertBlock(blk) /\ step' = "packed" /\ UNCHANGED blk
        <3>1. /\ assetFilter \subseteq assetFilter'
              /\ EstablishedIn(blk.transactions, Len(blk.transactions), assetFilter')
            BY <2>1, <2>2, InsertFacts
        <3>2. Knows(assetFilter)
            BY <2>1 DEF FilterInv, Quiet
        <3>3. Knows(assetFilter)'
            BY <2>1, <3>1, <3>2 DEF Knows, EstablishedIn
        <3> QED BY <2>1, <2>2, <3>1, <3>3 DEF FilterInv, Knows, Quiet, Writing
    <2>3. CASE step' = "idle" /\ UNCHANGED assetFilter
        BY <2>1, <2>3, FilterFrame DEF Quiet
    <2> QED BY <1>3, <2>2, <2>3 DEF PackageRoot, InsertThrows, ledgerVars
<1>4. CASE TotalRollback /\ UNCHANGED <<queueVars, packVars, storeVars, submits>>
    <2>1. step = "packed" /\ UNCHANGED <<diskState, diskBlocks, diskFilters>>
        BY <1>4 DEF TotalRollback, storeVars, diskVars
    <2>2. CASE RolledBack
        <3>1. assetFilter' = Last(filters) /\ step' = "idle" /\ filters = <<assetFilter>>
            BY <2>1, <2>2 DEF RolledBack, DataInv, FiltersTyped
        <3>2. ASSUME NEW f PROVE Last(<<f>>) = f
            BY DEF Last
        <3>3. assetFilter' = assetFilter
            BY <3>1, <3>2
        <3> QED BY <2>1, <3>1, <3>3 DEF FilterInv, Knows, Quiet, Writing
    <2>3. CASE step' = "failed" /\ UNCHANGED assetFilter
        BY <2>1, <2>3, FilterFrame
    <2> QED BY <1>4, <2>2, <2>3 DEF TotalRollback
<1>5. CASE GenesisState
    BY <1>5, StoreAssumption DEF GenesisState, FilterInv, Knows, Quiet, Writing, Genesis
<1>6. CASE GenesisBlock
    <2>1. /\ step = "genesisBlock" /\ step' = "idle" /\ UNCHANGED <<diskState, diskFilters, assetFilter>>
          /\ \E b : diskBlocks' = Put(diskBlocks, 0, b)
        BY <1>6 DEF GenesisBlock, ledgerVars
    <2>2. diskState # NoState /\ \A i \in 1 .. diskState.height : i \in DOMAIN diskBlocks /\ diskBlocks'[i] = diskBlocks[i]
        BY <2>1 DEF Put, ChainInv, StateStored
    <2>3. ASSUME NEW known, Knows(known) PROVE \A i \in 1 .. diskState.height :
              EstablishedIn(diskBlocks'[i].transactions, Len(diskBlocks'[i].transactions), known)
        BY <2>2, <2>3 DEF Knows
    <2> QED BY <2>1, <2>3 DEF FilterInv, Knows, Quiet, Writing
<1>7. CASE CommitExtensions \/ CommitAccounts
    <2>1. /\ UNCHANGED <<diskState, diskBlocks, diskFilters, assetFilter, blk, top, height>>
          /\ step \in {"packed", "accounts"} /\ step' \in {"accounts", "filter"}
        BY <1>7 DEF CommitExtensions, CommitAccounts
    <2> QED BY <2>1, FilterFrame
<1>8. CASE CommitFilter
    <2>1. /\ step = "filter" /\ step' = "block" /\ UNCHANGED <<blk, assetFilter, height, top, diskState, diskBlocks>>
          /\ diskFilters' = IF filters = <<>> THEN diskFilters ELSE Put(diskFilters, <<top, height>>, Head(filters))
        BY <1>8 DEF CommitFilter
    <2>2. filters = <<assetFilter>>
        BY <2>1 DEF DataInv, FiltersTyped
    <2>3. diskFilters' = Put(diskFilters, <<top, height>>, assetFilter)
        BY <2>1, <2>2
    <2>4. /\ <<top, height>> \in DOMAIN diskFilters' /\ diskFilters'[<<top, height>>] = assetFilter
          /\ \A k \in DOMAIN diskFilters : k # <<top, height>> =>
                 k \in DOMAIN diskFilters' /\ diskFilters'[k] = diskFilters[k]
        BY <2>3 DEF Put
    <2>5. diskState # NoState /\ diskState.height \in Nat /\ height = diskState.height + 1
        BY <2>1 DEF ChainInv, StateStored, WritingAhead, Writing
    <2>6. <<diskState.top, diskState.height>> # <<top, height>>
        BY <2>5
    <2>7. ASSUME diskState.height > 0
          PROVE  LET key == <<diskState.top, diskState.height>>
                 IN  key \in DOMAIN diskFilters' /\ Knows(diskFilters'[key])
        BY <2>4, <2>5, <2>6, <2>7 DEF FilterInv
    <2>8. Knows(assetFilter) /\ EstablishedIn(blk.transactions, Len(blk.transactions), assetFilter)
        BY <2>1 DEF FilterInv, Writing
    <2> QED BY <2>1, <2>4, <2>7, <2>8 DEF FilterInv, Knows, Quiet, Writing
<1>9. CASE SaveBlock
    <2>1. /\ step = "block" /\ step' = "state"
          /\ UNCHANGED <<blk, assetFilter, height, top, diskState, diskFilters>>
          /\ diskBlocks' = Put(diskBlocks, blk.height, blk)
        BY <1>9 DEF SaveBlock, ledgerVars
    <2>2. diskState # NoState /\ diskState.height \in Nat /\ blk.height = diskState.height + 1
        BY <2>1 DEF ChainInv, StateStored, WritingAhead, Writing
    <2>3. \A i \in 1 .. diskState.height : diskBlocks'[i] = diskBlocks[i]
        BY <2>1, <2>2 DEF Put, ChainInv, StateStored
    <2>4. ASSUME NEW known, Knows(known) PROVE \A i \in 1 .. diskState.height :
              EstablishedIn(diskBlocks'[i].transactions, Len(diskBlocks'[i].transactions), known)
        BY <2>3, <2>4 DEF Knows
    <2> QED BY <2>1, <2>4 DEF FilterInv, Knows, Quiet, Writing
<1>10. CASE SaveState
    <2>1. /\ step = "state" /\ step' = "idle" /\ UNCHANGED <<assetFilter, height, top, diskBlocks, diskFilters>>
          /\ diskState' = [height |-> blk.height, top |-> blk.id]
        BY <1>10 DEF SaveState, ledgerVars
    <2>2. /\ diskState # NoState /\ diskState.height \in Nat /\ blk.height = diskState.height + 1
          /\ blk.height = height /\ blk.id = top /\ diskBlocks[blk.height] = blk
        BY <2>1 DEF ChainInv, StateStored, WritingAhead, Writing, BlockFirst
    <2>3. /\ diskState'.height = diskState.height + 1
          /\ <<diskState'.top, diskState'.height>> = <<top, height>>
        BY <2>1, <2>2
    <2>4. Knows(assetFilter) /\ EstablishedIn(blk.transactions, Len(blk.transactions), assetFilter)
        BY <2>1 DEF FilterInv, Writing
    <2>5. Knows(assetFilter)'
        <3> SUFFICES ASSUME NEW i \in 1 .. diskState.height + 1
                     PROVE  EstablishedIn(diskBlocks[i].transactions, Len(diskBlocks[i].transactions), assetFilter)
            BY <2>1, <2>3 DEF Knows
        <3>1. CASE i \in 1 .. diskState.height
            BY <2>4, <3>1 DEF Knows
        <3>2. CASE i = blk.height
            BY <2>2, <2>4, <3>2
        <3> QED BY <2>2, <3>1, <3>2
    <2>6. <<top, height>> \in DOMAIN diskFilters /\ diskFilters[<<top, height>>] = assetFilter
        BY <2>1 DEF FilterInv
    <2>7. LET key == <<diskState'.top, diskState'.height>>
          IN  key \in DOMAIN diskFilters' /\ diskFilters'[key] = assetFilter'
        BY <2>1, <2>3, <2>6
    <2> QED BY <2>1, <2>5, <2>7 DEF FilterInv, Knows, Quiet, Writing
<1>11. CASE Restart /\ LosePool
    <2>1. UNCHANGED <<diskState, diskBlocks, diskFilters>>
        BY <1>11 DEF Restart, diskVars
    <2>2. CASE diskState = NoState
        BY <1>11, <2>1, <2>2 DEF Restart, FilterInv, Quiet, Writing
    <2>3. CASE diskState # NoState
        <3>1. step' \in {"idle", "damaged"} /\ assetFilter' = LoadedFilter(<<diskState.top, diskState.height>>)
            BY <1>11, <2>3 DEF Restart
        <3>2. diskState.height \in Nat
            BY <2>3 DEF ChainInv, StateStored
        <3>3. Knows(assetFilter)'
            <4>1. CASE diskState.height = 0
                BY <2>1, <4>1 DEF Knows
            <4>2. CASE diskState.height > 0
                <5>1. Knows(assetFilter')
                    BY <2>3, <3>1, <4>2 DEF FilterInv, LoadedFilter
                <5> QED BY <2>1, <5>1 DEF Knows
            <4> QED BY <3>2, <4>1, <4>2
        <3> QED BY <2>1, <3>1, <3>3 DEF FilterInv, Knows, Quiet, Writing
    <2> QED BY <2>2, <2>3
<1>12. CASE UNCHANGED vars
    BY <1>12 DEF vars, FilterInv, Knows, ledgerVars, storeVars, diskVars
<1> QED BY <1>1, <1>2, <1>3, <1>4, <1>5, <1>6, <1>7, <1>8, <1>9, <1>10, <1>11, <1>12 DEF Next, StoreNext

\* The filters of memory and disk know the assets of the chain they belong to.
THEOREM FilterInvariant == Spec => []FilterInv
BY FilterInit, FilterStep, DataInvariant, ChainInvariant, PTL DEF Spec

\* The filter in assets_db under the key of the stored state knows every asset of the
\* stored chain, also after crashes between any two of the writes and after rollbacks:
\* an asset of the stored chain is never established again after a restart.
THEOREM StoredFilterComplete == Spec => []StoredFilterKnowsAssets
<1>1. FilterInv /\ ChainInv => StoredFilterKnowsAssets
    <2> SUFFICES ASSUME FilterInv, ChainInv, diskState # NoState, diskState.height > 0
                 PROVE  StoredFilterKnowsAssets
        BY DEF StoredFilterKnowsAssets
    <2> DEFINE key == <<diskState.top, diskState.height>>
    <2>1. key \in DOMAIN diskFilters /\ Knows(diskFilters[key])
        BY DEF FilterInv
    <2>2. Len(Durable) = diskState.height /\ \A i \in 1 .. diskState.height : Durable[i] = diskBlocks[i]
        BY DurableSeq DEF ChainInv
    <2> HIDE DEF key
    <2>3. \A i \in 1 .. Len(Durable) : \A j \in 1 .. Len(Durable[i].transactions) :
              Durable[i].transactions[j].op = "Establish" => Durable[i].transactions[j].asset \in diskFilters[key]
        BY <2>1, <2>2 DEF Knows, EstablishedIn
    <2> QED BY <2>1, <2>3 DEF StoredFilterKnowsAssets, key
<1> QED BY <1>1, FilterInvariant, ChainInvariant, PTL

-----------------------------------------------------------------------------
(* The nonces of a body *)

\* The nonces of a receipt: a sorted list.
NonceList(s) == s \in Seq(Nat) /\ \A i \in 2 .. Len(s) : s[i - 1] <= s[i]

\* The list leaves no room for the nonce n, or a lower one, of an account at `from`.
Uses(s, from, n) == n > from /\ \A k \in 1 .. (n - from) : k <= Len(s) /\ s[k] <= from + k

\* Putting a nonce into its place.
LEMMA SortedFacts ==
    ASSUME NEW s, NonceList(s), NEW n \in Nat
    PROVE  /\ NonceList(Sorted(s, n)) /\ Len(Sorted(s, n)) = Len(s) + 1
           /\ \A k \in 1 .. Len(s) : Sorted(s, n)[k] <= s[k]
           /\ \A k \in 1 .. Len(s) : s[k] <= n => Sorted(s, n)[k + 1] <= n
           /\ \E p \in 1 .. Len(s) + 1 : Sorted(s, n)[p] = n
<1> DEFINE m == Len(s)
           new == Sorted(s, n)
           At(i) == IF i <= m /\ s[i] <= n THEN s[i] ELSE IF i = 1 \/ s[i - 1] <= n THEN n ELSE s[i - 1]
<1>1. m \in Nat /\ (\A i \in 1 .. m : s[i] \in Nat) /\ \A i \in 2 .. m : s[i - 1] <= s[i]
    BY DEF NonceList
<1>2. new = [i \in 1 .. m + 1 |-> At(i)]
    BY DEF Sorted
<1> HIDE DEF m, new
<1>3. \A i \in 1 .. m + 1 : At(i) \in Nat
    BY <1>1
<1>4. new \in Seq(Nat) /\ Len(new) = m + 1 /\ \A i \in 1 .. m + 1 : new[i] = At(i)
    BY <1>1, <1>2, <1>3
<1>5. ASSUME NEW i \in 2 .. m + 1 PROVE At(i - 1) <= At(i)
    BY <1>1
<1>6. \A i \in 2 .. Len(new) : new[i - 1] <= new[i]
    <2>1. \A i \in 2 .. m + 1 : i - 1 \in 1 .. m + 1 /\ i \in 1 .. m + 1
        BY <1>1
    <2> HIDE DEF At
    <2> QED BY <1>4, <1>5, <2>1
<1>7. ASSUME NEW k \in 1 .. m PROVE At(k) <= s[k] /\ (s[k] <= n => At(k + 1) <= n)
    BY <1>1
<1>8. \A k \in 1 .. m : k \in 1 .. m + 1 /\ k + 1 \in 1 .. m + 1
    BY <1>1
<1>9. \E p \in 1 .. m + 1 : At(p) = n
    <2> DEFINE T == {i \in 1 .. m + 1 : i = m + 1 \/ ~(s[i] <= n)}
    <2>1. T \subseteq Nat /\ m + 1 \in T
        BY <1>1
    <2>2. PICK p \in T : \A j \in T : p <= j
        <3> HIDE DEF T
        <3> QED BY <2>1, LeastNatural
    <2>3. p \in 1 .. m + 1 /\ ~(p <= m /\ s[p] <= n)
        BY <1>1
    <2>4. p = 1 \/ s[p - 1] <= n
        <3> SUFFICES ASSUME p # 1, ~(s[p - 1] <= n) PROVE FALSE
            OBVIOUS
        <3>1. p - 1 \in T
            BY <1>1, <2>3
        <3> QED BY <1>1, <2>2, <2>3, <3>1
    <2>5. At(p) = n
        BY <2>3, <2>4
    <2> QED BY <2>3, <2>5
<1> HIDE DEF At
<1>10. /\ \A k \in 1 .. m : new[k] <= s[k]
       /\ \A k \in 1 .. m : s[k] <= n => new[k + 1] <= n
       /\ \E p \in 1 .. m + 1 : new[p] = n
    BY <1>4, <1>7, <1>8, <1>9
<1> QED BY <1>4, <1>6, <1>10 DEF NonceList, m, new

\* Without its last nonce a sorted list is sorted, and as small as before.
LEMMA FrontFacts ==
    ASSUME NEW s, NonceList(s), Len(s) > 0
    PROVE  NonceList(Front(s)) /\ Len(Front(s)) = Len(s) - 1 /\ \A k \in 1 .. Len(s) - 1 : Front(s)[k] = s[k]
<1> DEFINE n == Len(s)
           f == Front(s)
<1>1. n \in Nat /\ (\A i \in 1 .. n : s[i] \in Nat) /\ \A i \in 2 .. n : s[i - 1] <= s[i]
    BY DEF NonceList
<1>2. f = SubSeq(s, 1, n - 1)
    BY DEF Front
<1> HIDE DEF n, f
<1>3. n - 1 \in Nat /\ \A i \in 1 .. n - 1 : s[i] \in Nat
    BY <1>1 DEF n
<1>4. /\ SubSeq(s, 1, n - 1) \in Seq(Nat)
      /\ Len(SubSeq(s, 1, n - 1)) = IF 1 <= n - 1 THEN n - 1 - 1 + 1 ELSE 0
      /\ \A i \in 1 .. (n - 1) - 1 + 1 : SubSeq(s, 1, n - 1)[i] = s[1 + i - 1]
    BY <1>3, SubSeqProperties
<1>5. f \in Seq(Nat) /\ Len(f) = n - 1
    BY <1>1, <1>2, <1>3, <1>4
<1>6. ASSUME NEW k \in 1 .. n - 1 PROVE f[k] = s[k]
    <2>1. k \in 1 .. (n - 1) - 1 + 1 /\ 1 + k - 1 = k
        BY <1>1
    <2>2. f[k] = s[1 + k - 1]
        BY <1>2, <1>4, <2>1
    <2> QED BY <2>1, <2>2
<1>7. \A i \in 2 .. n - 1 : f[i - 1] <= f[i]
    <2> TAKE i \in 2 .. n - 1
    <2>1. i \in 1 .. n - 1 /\ i - 1 \in 1 .. n - 1 /\ i \in 2 .. n
        BY <1>1
    <2> QED BY <1>1, <1>6, <2>1
<1> QED BY <1>5, <1>6, <1>7 DEF NonceList, n, f

\* A list that is no shorter and nowhere higher still leaves no room.
Covers(s, old) == Len(old) <= Len(s) /\ \A k \in 1 .. Len(old) : s[k] <= old[k]

\* A list that covers the old one leaves no room for the nonces the old one had.
LEMMA UsesKept ==
    ASSUME NEW s, NEW old, NonceList(s), NonceList(old), Covers(s, old), NEW from \in Int, NEW n \in Nat,
           Uses(old, from, n)
    PROVE  Uses(s, from, n)
<1>1. /\ Len(s) \in Nat /\ Len(old) \in Nat /\ (\A i \in 1 .. Len(s) : s[i] \in Nat)
      /\ \A i \in 1 .. Len(old) : old[i] \in Nat
    BY DEF NonceList
<1> QED BY <1>1 DEF Uses, Covers

\* A nonce that passes check_nonce is above every nonce used before.
LEMMA AcceptedAbove ==
    ASSUME NEW s, NonceList(s), NEW from \in Int, NEW n \in Nat, NEW u \in Nat,
           \A i \in 1 .. Len(s) + 1 : Sorted(s, n)[i] = from + i
    PROVE  Uses(Sorted(s, n), from, n) /\ (Uses(s, from, u) => u < n)
<1> DEFINE m == Len(s)
           new == Sorted(s, n)
<1>1. /\ m \in Nat /\ Len(new) = m + 1 /\ (\A i \in 1 .. m + 1 : new[i] = from + i)
      /\ (\A k \in 1 .. m : s[k] \in Nat) /\ \A k \in 1 .. m : s[k] <= n => new[k + 1] <= n
    BY SortedFacts DEF NonceList
<1>2. PICK p \in 1 .. m + 1 : new[p] = n
    BY SortedFacts
<1> HIDE DEF m, new
<1>3. n = from + p
    BY <1>1, <1>2
<1>4. Uses(new, from, n)
    BY <1>1, <1>3 DEF Uses
<1>5. ASSUME Uses(s, from, u), ~(u < n) PROVE FALSE
    <2>1. p \in 1 .. (u - from)
        BY <1>1, <1>3, <1>5
    <2>2. p <= m /\ s[p] <= from + p
        BY <1>5, <2>1 DEF Uses, m
    <2>3. new[p + 1] <= n /\ new[p + 1] = from + (p + 1)
        BY <1>1, <1>3, <2>2
    <2> QED BY <1>1, <1>3, <2>3
<1> QED BY <1>4, <1>5 DEF new

\* The nonce the account of x starts from.
StartOf(x) == IF x \in DOMAIN accounts THEN accounts[x].nonce ELSE 0

\* The nonce before the first one that check_nonce takes from it: its own, or -1 after
\* 2^64 - 1.
BaseOf(x) == ((StartOf(x) + 1) % Wrap) - 1

Shaped(r, from) ==
    /\ DOMAIN r = {"nonce_start", "nonce", "balances"}
    /\ r.nonce_start = from /\ NonceList(r.nonce)

\* Between two transactions of a body: every receipt is that of its account, every
\* transaction taken has a receipt that leaves no room for its nonce.
ReceiptInv ==
    step = "transactions" =>
        /\ \A x \in DOMAIN receipts : Shaped(receipts[x], StartOf(x))
        /\ \A i \in 1 .. Len(blk.transactions) :
               LET t == blk.transactions[i]
               IN  t.sender \in DOMAIN receipts /\ Uses(receipts[t.sender].nonce, BaseOf(t.sender), t.nonce)

\* The nonces of one sender rise along a body, from above the account's.
Rising(txs) ==
    /\ \A i \in 1 .. Len(txs) : txs[i].nonce > BaseOf(txs[i].sender)
    /\ \A i, j \in 1 .. Len(txs) : i < j /\ txs[i].sender = txs[j].sender => txs[i].nonce < txs[j].nonce

RisingInv == step \in {"transactions", "affairs", "tried", "header", "root"} => Rising(blk.transactions)

NonceInv == ReceiptInv /\ RisingInv

\* Where an account starts is a number.
LEMMA StartNat == ASSUME DataInv, NEW x PROVE StartOf(x) \in Nat
<1>1. x \in DOMAIN accounts => accounts[x].nonce \in Uint64
    <2>1. x \in DOMAIN accounts => accounts[x] \in AccountSet
        BY MapIs DEF DataInv, AccountsTyped, AccountMaps
    <2> QED BY <2>1 DEF AccountSet
<1> QED BY <1>1, AmountAssumption DEF StartOf, Uint64

\* So is where its nonces go on, and below the end of the numbers that is the next one.
LEMMA BaseInt ==
    ASSUME DataInv, NEW x
    PROVE  /\ (StartOf(x) + 1) % Wrap \in Nat /\ BaseOf(x) \in Int
           /\ StartOf(x) + 1 < Wrap => BaseOf(x) = StartOf(x)
<1>1. StartOf(x) \in Nat /\ Wrap \in Nat \ {0}
    BY StartNat, AmountAssumption
<1> QED BY <1>1 DEF BaseOf

\* The receipt a transaction starts from.
LEMMA ReceiptShaped ==
    ASSUME ReceiptInv, step = "transactions", NEW x
    PROVE  Shaped(ReceiptOf(receipts, accounts, x), StartOf(x))
<1>1. CASE x \in DOMAIN receipts
    BY <1>1 DEF ReceiptInv, ReceiptOf
<1>2. CASE x \notin DOMAIN receipts
    <2>1. NonceList(<<>>)
        BY EmptySeq DEF NonceList
    <2>2. ReceiptOf(receipts, accounts, x) = [nonce_start |-> StartOf(x), nonce |-> <<>>, balances |-> Nothing]
        BY <1>2 DEF ReceiptOf, NewReceipt, StartOf
    <2> QED BY <2>1, <2>2 DEF Shaped
<1> QED BY <1>1, <1>2

\* What the operations on a receipt do to its nonces: those on its balances nothing ...
LEMMA BalanceOps ==
    ASSUME NEW r, NEW from, Shaped(r, from), NEW a, NEW n
    PROVE  /\ Shaped(Unspend(r, a, n), from) /\ Unspend(r, a, n).nonce = r.nonce
           /\ LET w == [r EXCEPT !.balances = Without(@, a)] IN Shaped(w, from) /\ w.nonce = r.nonce
<1>1. ASSUME NEW v PROVE LET w == [r EXCEPT !.balances = v] IN Shaped(w, from) /\ w.nonce = r.nonce
    BY DEF Shaped
<1> QED BY <1>1 DEF Unspend

\* Spending changes the balances of a receipt only.
LEMMA SpendOp ==
    ASSUME NEW r, NEW from, Shaped(r, from), NEW a, NEW have, NEW n
    PROVE  Shaped(Spend(r, a, have, n), from) /\ Spend(r, a, have, n).nonce = r.nonce
<1>1. ASSUME NEW v PROVE LET w == [r EXCEPT !.balances = v] IN Shaped(w, from) /\ w.nonce = r.nonce
    BY DEF Shaped
<1> QED BY <1>1 DEF Spend

\* So does gaining.
LEMMA GainOp ==
    ASSUME NEW r, NEW from, Shaped(r, from), NEW a
    PROVE  Shaped(Gain(r, a), from) /\ Gain(r, a).nonce = r.nonce
<1>1. ASSUME NEW v PROVE LET w == [r EXCEPT !.balances = v] IN Shaped(w, from) /\ w.nonce = r.nonce
    BY DEF Shaped
<1> QED BY <1>1 DEF Gain

\* ... and a push and a pop what their names say.
LEMMA PushOp ==
    ASSUME NEW r, NEW from, Shaped(r, from), NEW n \in Nat
    PROVE  Shaped(PushNonce(r, n), from) /\ PushNonce(r, n).nonce = Sorted(r.nonce, n)
<1>1. NonceList(Sorted(r.nonce, n))
    BY SortedFacts DEF Shaped
<1> QED BY <1>1 DEF PushNonce, Shaped

\* Taking the last nonce back changes the nonces only.
LEMMA PopOp ==
    ASSUME NEW r, NEW from, Shaped(r, from), Len(r.nonce) > 0
    PROVE  Shaped(PopNonce(r), from) /\ PopNonce(r).nonce = Front(r.nonce)
<1>1. NonceList(Front(r.nonce))
    BY FrontFacts DEF Shaped
<1> QED BY <1>1 DEF PopNonce, Shaped

\* A nonce that is put into a receipt, and one that is put in and popped.
LEMMA PushCovers ==
    ASSUME NEW r, NEW from, Shaped(r, from), NEW n \in Nat
    PROVE  LET s == Sorted(r.nonce, n)
           IN  NonceList(s) /\ Len(s) > 0 /\ Covers(s, r.nonce) /\ NonceList(Front(s)) /\ Covers(Front(s), r.nonce)
<1> DEFINE s == Sorted(r.nonce, n)
           m == Len(r.nonce)
<1>1. NonceList(r.nonce) /\ m \in Nat /\ \A k \in 1 .. m : r.nonce[k] \in Nat
    BY DEF Shaped, NonceList
<1>2. NonceList(s) /\ Len(s) = m + 1 /\ \A k \in 1 .. m : s[k] <= r.nonce[k]
    BY <1>1, SortedFacts
<1> HIDE DEF s, m
<1>3. NonceList(Front(s)) /\ Len(Front(s)) = m + 1 - 1 /\ \A k \in 1 .. m + 1 - 1 : Front(s)[k] = s[k]
    BY <1>1, <1>2, FrontFacts
<1>4. Len(Front(s)) = m /\ \A k \in 1 .. m : Front(s)[k] <= r.nonce[k]
    BY <1>1, <1>2, <1>3
<1> QED BY <1>1, <1>2, <1>3, <1>4 DEF Covers, s, m

\* A refused item leaves the receipts as good as they were.
LEMMA LeaveNonces ==
    ASSUME NonceInv, DataInv, InTransactions, UnchangedByTransaction, NEW r, NEW by, Leave(r, by),
           LET x == Trans.sender
           IN  Shaped(r, StartOf(x)) /\ (x \in DOMAIN receipts => Covers(r.nonce, receipts[x].nonce))
    PROVE  NonceInv'
<1> DEFINE x == Trans.sender
<1>1. /\ step = "transactions" /\ step' = step /\ blk' = blk /\ accounts' = accounts
      /\ receipts' = IF x \in DOMAIN receipts THEN Put(receipts, x, r) ELSE receipts
    BY DEF InTransactions, UnchangedByTransaction, ledgerVars, Leave
<1>2. /\ DOMAIN receipts' = DOMAIN receipts
      /\ \A y \in DOMAIN receipts : receipts'[y] = IF y = x THEN r ELSE receipts[y]
    BY <1>1 DEF Put
<1>3. ASSUME NEW y PROVE StartOf(y)' = StartOf(y) /\ BaseOf(y)' = BaseOf(y)
    BY <1>1 DEF StartOf, BaseOf
<1>4. \A y \in DOMAIN receipts : /\ Shaped(receipts[y], StartOf(y)) /\ Shaped(receipts'[y], StartOf(y))
                                 /\ Covers(receipts'[y].nonce, receipts[y].nonce)
    <2> TAKE y \in DOMAIN receipts
    <2>1. Shaped(receipts[y], StartOf(y))
        BY <1>1 DEF NonceInv, ReceiptInv
    <2>2. NonceList(receipts[y].nonce)
        BY <2>1 DEF Shaped
    <2>3. Covers(receipts[y].nonce, receipts[y].nonce)
        BY <2>2 DEF Covers, NonceList
    <2> QED BY <1>2, <2>1, <2>3
<1>5. ASSUME NEW i \in 1 .. Len(blk.transactions)
      PROVE  LET t == blk.transactions[i]
             IN  t.sender \in DOMAIN receipts /\ Uses(receipts'[t.sender].nonce, BaseOf(t.sender), t.nonce)
    <2> DEFINE t == blk.transactions[i]
    <2>1. t.sender \in DOMAIN receipts /\ Uses(receipts[t.sender].nonce, BaseOf(t.sender), t.nonce)
        BY <1>1 DEF NonceInv, ReceiptInv
    <2>2. t \in Transactions
        BY BlockItems DEF DataInv
    <2>3. t.nonce \in Nat /\ BaseOf(t.sender) \in Int
        BY <2>2, BaseInt DEF Transactions, Uint64
    <2>4. NonceList(receipts[t.sender].nonce) /\ NonceList(receipts'[t.sender].nonce)
        BY <1>4, <2>1 DEF Shaped
    <2> HIDE DEF t
    <2> QED BY <1>4, <2>1, <2>3, <2>4, UsesKept DEF t
<1>6. ReceiptInv'
    BY <1>1, <1>2, <1>3, <1>4, <1>5 DEF ReceiptInv
<1>7. RisingInv'
    BY <1>1, <1>3 DEF NonceInv, RisingInv, Rising
<1> QED BY <1>6, <1>7 DEF NonceInv

\* A transaction that is taken has a nonce above those its sender has in the body.
LEMMA TakeNonces ==
    ASSUME NonceInv, DataInv, InTransactions, UnchangedByTransaction, NEW r, Take(r),
           Shaped(r, StartOf(Trans.sender)),
           r.nonce = Sorted(ReceiptOf(receipts, accounts, Trans.sender).nonce, Trans.nonce),
           check_nonce(r)
    PROVE  NonceInv'
<1> DEFINE x == Trans.sender
           n == Trans.nonce
           old == ReceiptOf(receipts, accounts, x).nonce
           from == BaseOf(x)
           txs == blk.transactions
           m == Len(txs)
<1>1. /\ step = "transactions" /\ step' = step /\ accounts' = accounts
      /\ receipts' = Put(receipts, x, r) /\ blk' = [blk EXCEPT !.transactions = Append(@, Trans)]
    BY DEF InTransactions, UnchangedByTransaction, ledgerVars, Take
<1>2. /\ DOMAIN receipts' = DOMAIN receipts \cup {x} /\ receipts'[x] = r
      /\ \A y \in DOMAIN receipts : y # x => receipts'[y] = receipts[y]
    BY <1>1 DEF Put
<1>3. ASSUME NEW y PROVE StartOf(y)' = StartOf(y) /\ BaseOf(y)' = BaseOf(y)
    BY <1>1 DEF StartOf, BaseOf
<1>4. Trans \in Transactions /\ txs \in Seq(Transactions)
    <2>1. transactionsQueue \in Seq(Inputs) /\ start \in 1 .. Len(transactionsQueue)
        BY DEF DataInv, QueuesTyped, StartInv, InTransactions
    <2> QED BY <2>1, InputAssumption, BlockItems DEF DataInv, Trans
<1>5. n \in Nat /\ \A y : BaseOf(y) \in Int
    BY <1>4, BaseInt DEF Transactions, Uint64
<1>6. m \in Nat /\ (\A i \in 1 .. m : txs[i] \in Transactions) /\ \A i \in 1 .. m : txs[i].nonce \in Nat
    <2>1. m \in Nat /\ \A i \in 1 .. m : txs[i] \in Transactions
        BY <1>4, LenProperties, ElementOfSeq
    <2>2. \A t \in Transactions : t.nonce \in Nat
        BY AmountAssumption DEF Transactions, Uint64
    <2> HIDE DEF txs, m
    <2> QED BY <2>1, <2>2
<1>7. blk'.transactions = Append(txs, Trans)
    BY <1>1 DEF DataInv, BlockTyped, Blocks
<1>8. /\ Len(blk'.transactions) = m + 1 /\ blk'.transactions[m + 1] = Trans
      /\ \A i \in 1 .. m : blk'.transactions[i] = txs[i]
    BY <1>4, <1>7, AppendProperties
<1>9. NonceList(old) /\ NonceList(r.nonce) /\ Len(r.nonce) = Len(old) + 1 /\ Covers(r.nonce, old)
    <2>1. NonceList(old)
        BY <1>1, ReceiptShaped DEF NonceInv, Shaped
    <2> HIDE DEF old, n
    <2>2. /\ NonceList(Sorted(old, n)) /\ Len(Sorted(old, n)) = Len(old) + 1
          /\ \A k \in 1 .. Len(old) : Sorted(old, n)[k] <= old[k]
        BY <1>5, <2>1, SortedFacts
    <2>3. r.nonce = Sorted(old, n) /\ Len(old) \in Nat
        BY <2>1 DEF old, n, NonceList
    <2> QED BY <2>1, <2>2, <2>3 DEF Covers
<1>10. \A i \in 1 .. Len(old) + 1 : Sorted(old, n)[i] = from + i
    <2>1. Len(old) \in Nat /\ (StartOf(x) + 1) % Wrap \in Nat
        BY <1>9, BaseInt DEF NonceList
    <2>2. \A i \in 1 .. Len(old) + 1 : r.nonce[i] = ((StartOf(x) + 1) % Wrap) + (i - 1)
        BY <1>9 DEF check_nonce, Shaped
    <2> QED BY <2>1, <2>2 DEF BaseOf
<1>11. Uses(r.nonce, from, n)
    <2>1. r.nonce = Sorted(old, n) /\ from \in Int
        BY <1>5
    <2> HIDE DEF old, n, from
    <2>2. Uses(Sorted(old, n), from, n)
        BY <1>5, <1>9, <1>10, <2>1, AcceptedAbove
    <2> QED BY <2>1, <2>2
<1>12. ASSUME NEW i \in 1 .. m
       PROVE  LET t == txs[i]
              IN  /\ t.sender \in DOMAIN receipts'
                  /\ Uses(receipts'[t.sender].nonce, BaseOf(t.sender), t.nonce)
                  /\ t.sender = x => t.nonce < n
    <2> DEFINE t == txs[i]
    <2>1. t.sender \in DOMAIN receipts /\ Uses(receipts[t.sender].nonce, BaseOf(t.sender), t.nonce)
        BY <1>1 DEF NonceInv, ReceiptInv
    <2>2. t.nonce \in Nat
        BY <1>6
    <2> HIDE DEF t
    <2>3. CASE t.sender = x
        <3>1. old = receipts[x].nonce /\ Uses(old, from, t.nonce)
            BY <2>1, <2>3 DEF ReceiptOf
        <3>4. from \in Int
            BY <1>5
        <3> HIDE DEF old, n, from
        <3>2. t.nonce < n
            BY <1>5, <1>9, <1>10, <2>2, <3>1, <3>4, AcceptedAbove
        <3>3. Uses(r.nonce, from, t.nonce)
            BY <1>9, <2>2, <3>1, <3>4, UsesKept
        <3> QED BY <1>2, <2>3, <3>2, <3>3 DEF t, n, from
    <2>4. CASE t.sender # x
        BY <1>2, <2>1, <2>4 DEF t
    <2> QED BY <2>3, <2>4
<1> DEFINE all == blk'.transactions
<1>13. ReceiptInv'
    <2>1. \A y \in DOMAIN receipts' : Shaped(receipts'[y], StartOf(y))
        BY <1>1, <1>2 DEF NonceInv, ReceiptInv
    <2>2. \A i \in 1 .. m + 1 :
              all[i].sender \in DOMAIN receipts' /\ Uses(receipts'[all[i].sender].nonce, BaseOf(all[i].sender), all[i].nonce)
        <3> TAKE i \in 1 .. m + 1
        <3>1. CASE i \in 1 .. m
            BY <1>8, <1>12, <3>1
        <3>2. CASE i = m + 1
            BY <1>2, <1>8, <1>11, <3>2
        <3> QED BY <1>6, <3>1, <3>2
    <2> QED BY <1>3, <1>8, <2>1, <2>2 DEF ReceiptInv
<1>14. RisingInv'
    <2>1. Rising(txs)
        BY <1>1 DEF NonceInv, RisingInv
    <2>2. \A i \in 1 .. m + 1 : all[i].nonce > BaseOf(all[i].sender)
        <3> TAKE i \in 1 .. m + 1
        <3>1. CASE i \in 1 .. m
            BY <1>8, <2>1, <3>1 DEF Rising
        <3>2. CASE i = m + 1
            BY <1>8, <1>11, <3>2 DEF Uses
        <3> QED BY <1>6, <3>1, <3>2
    <2>3. \A i, j \in 1 .. m + 1 : i < j /\ all[i].sender = all[j].sender => all[i].nonce < all[j].nonce
        <3> TAKE i, j \in 1 .. m + 1
        <3>1. CASE i < j /\ j \in 1 .. m
            <4>1. i \in 1 .. m
                BY <1>6, <3>1
            <4> QED BY <1>8, <2>1, <3>1, <4>1 DEF Rising
        <3>2. CASE i < j /\ j = m + 1
            <4>1. i \in 1 .. m
                BY <1>6, <3>2
            <4> QED BY <1>8, <1>12, <3>2, <4>1
        <3>3. j \in 1 .. m \/ j = m + 1
            BY <1>6
        <3> QED BY <3>1, <3>2, <3>3
    <2>4. Rising(blk.transactions)'
        BY <1>3, <1>8, <2>2, <2>3 DEF Rising
    <2> QED BY <2>4 DEF RisingInv
<1> QED BY <1>13, <1>14 DEF NonceInv

\* Packing a transfer: accepted or refused.
LEMMA AppendNonces ==
    ASSUME NonceInv, DataInv, PackAppend
    PROVE  NonceInv'
<1> DEFINE x == Trans.sender
           n == Trans.nonce
           old == ReceiptOf(receipts, accounts, x)
           have == IF HasAccount(x) THEN get_balance(accounts[x], Trans.asset) ELSE 0
           pushed == PushNonce(old, n)
           with == Spend(pushed, Trans.asset, have, Trans.count)
           by == IF HasAccount(x) /\ HasReceipt(x) /\ ~KnownAsset THEN 0 ELSE 1
<1>1. InTransactions /\ UnchangedByTransaction /\ step = "transactions"
    BY DEF PackAppend, InTransactions
<1>2. \/ check(with) /\ Take(with)
      \/ Leave(Refused(with), by)
    BY Zenon DEF PackAppend, WithTransfer
<1>3. Shaped(old, StartOf(x))
    BY <1>1, ReceiptShaped DEF NonceInv
<1>4. n \in Nat
    <2>1. transactionsQueue \in Seq(Inputs) /\ start \in 1 .. Len(transactionsQueue)
        BY <1>1 DEF DataInv, QueuesTyped, StartInv, InTransactions
    <2>2. Trans \in Transactions
        BY <2>1, InputAssumption DEF Trans
    <2> QED BY <2>2, AmountAssumption DEF Transactions, Uint64
<1> HIDE DEF n, old, have, by
<1>5. Shaped(pushed, StartOf(x)) /\ pushed.nonce = Sorted(old.nonce, n)
    BY <1>3, <1>4, PushOp
<1> HIDE DEF pushed
<1>6. Shaped(with, StartOf(x)) /\ with.nonce = Sorted(old.nonce, n)
    BY <1>5, SpendOp
<1>7. LET s == Sorted(old.nonce, n)
      IN  NonceList(s) /\ Len(s) > 0 /\ Covers(s, old.nonce) /\ NonceList(Front(s)) /\ Covers(Front(s), old.nonce)
    BY <1>3, <1>4, PushCovers
<1> HIDE DEF with
<1>8. CASE check(with) /\ Take(with)
    BY <1>1, <1>6, <1>8, TakeNonces DEF check, old, n
<1>9. CASE Leave(Refused(with), by)
    <2> DEFINE back == Unspend(with, Trans.asset, Trans.count)
               without == [with EXCEPT !.balances = Without(@, Trans.asset)]
    <2>1. /\ Shaped(back, StartOf(x)) /\ back.nonce = with.nonce
          /\ Shaped(without, StartOf(x)) /\ without.nonce = with.nonce
        BY <1>6, BalanceOps
    <2>2. Refused(with) \in {PopNonce(back), PopNonce(without), back}
        BY DEF Refused
    <2> HIDE DEF back, without
    <2>3. /\ Shaped(PopNonce(back), StartOf(x)) /\ PopNonce(back).nonce = Front(with.nonce)
          /\ Shaped(PopNonce(without), StartOf(x)) /\ PopNonce(without).nonce = Front(with.nonce)
        BY <1>6, <1>7, <2>1, PopOp
    <2>4. Shaped(Refused(with), StartOf(x)) /\ Covers(Refused(with).nonce, old.nonce)
        BY <1>6, <1>7, <2>1, <2>2, <2>3
    <2>5. x \in DOMAIN receipts => old = receipts[x]
        BY DEF old, ReceiptOf
    <2> QED BY <1>1, <1>9, <2>4, <2>5, LeaveNonces
<1> QED BY <1>2, <1>8, <1>9

\* Packing the establishment of an asset.
LEMMA EstablishNonces ==
    ASSUME NonceInv, DataInv, PackEstablish
    PROVE  NonceInv'
<1> DEFINE x == Trans.sender
           n == Trans.nonce
           old == ReceiptOf(receipts, accounts, x)
           with == PushNonce(old, n)
           gained == Gain(with, Trans.asset)
<1>1. InTransactions /\ UnchangedByTransaction /\ step = "transactions"
    BY DEF PackEstablish, InTransactions
<1>2. \/ Leave(old, 1)
      \/ check_nonce(with) /\ Take(gained)
      \/ Leave(PopNonce(with), 1)
    BY Zenon DEF PackEstablish, WithAsset
<1>3. Shaped(old, StartOf(x))
    BY <1>1, ReceiptShaped DEF NonceInv
<1>4. n \in Nat
    <2>1. transactionsQueue \in Seq(Inputs) /\ start \in 1 .. Len(transactionsQueue)
        BY <1>1 DEF DataInv, QueuesTyped, StartInv, InTransactions
    <2>2. Trans \in Transactions
        BY <2>1, InputAssumption DEF Trans
    <2> QED BY <2>2, AmountAssumption DEF Transactions, Uint64
<1>5. x \in DOMAIN receipts => old = receipts[x]
    BY DEF ReceiptOf
<1> HIDE DEF n, old
<1>6. Shaped(with, StartOf(x)) /\ with.nonce = Sorted(old.nonce, n)
    BY <1>3, <1>4, PushOp
<1> HIDE DEF with
<1>7. Shaped(gained, StartOf(x)) /\ gained.nonce = with.nonce
    BY <1>6, GainOp
<1>8. LET s == Sorted(old.nonce, n)
      IN  NonceList(s) /\ Len(s) > 0 /\ Covers(s, old.nonce) /\ NonceList(Front(s)) /\ Covers(Front(s), old.nonce)
    BY <1>3, <1>4, PushCovers
<1> HIDE DEF gained
<1>9. CASE Leave(old, 1)
    <2>1. Covers(old.nonce, old.nonce)
        BY <1>3 DEF Covers, Shaped, NonceList
    <2> QED BY <1>1, <1>3, <1>5, <1>9, <2>1, LeaveNonces
<1>10. CASE check_nonce(with) /\ Take(gained)
    <2>1. check_nonce(gained)
        BY <1>6, <1>7, <1>10 DEF check_nonce, Shaped
    <2> QED BY <1>1, <1>6, <1>7, <1>10, <2>1, TakeNonces DEF old, n
<1>11. CASE Leave(PopNonce(with), 1)
    <2>1. Shaped(PopNonce(with), StartOf(x)) /\ PopNonce(with).nonce = Front(with.nonce)
        BY <1>6, <1>8, PopOp
    <2> QED BY <1>1, <1>5, <1>6, <1>8, <1>11, <2>1, LeaveNonces
<1> QED BY <1>2, <1>9, <1>10, <1>11

\* Every step keeps the nonces in order.
LEMMA NonceStep == NonceInv /\ DataInv /\ ChainInv /\ [Next]_vars => NonceInv'
<1> SUFFICES ASSUME NonceInv, DataInv, ChainInv, [Next]_vars PROVE NonceInv'
    OBVIOUS
<1> DEFINE Packing == {"transactions", "affairs", "tried", "header", "root"}
<1>1. ASSUME step' \notin Packing PROVE NonceInv'
    BY <1>1 DEF NonceInv, ReceiptInv, RisingInv
<1>2. CASE StartPackaging
    <2>1. step' = "transactions" /\ blk'.transactions = <<>> /\ receipts' = Nothing
        BY <1>2 DEF StartPackaging, InjectedBlock, EmptyBlock
    <2>2. DOMAIN receipts' = {} /\ Len(blk'.transactions) = 0
        BY <2>1 DEF Nothing
    <2> QED BY <2>2 DEF NonceInv, ReceiptInv, RisingInv, Rising
<1>3. CASE DropExpired \/ DropNullOP \/ PostponeAppend
    <2>1. UNCHANGED <<step, blk, receipts, accounts>>
        BY <1>3 DEF DropExpired, DropNullOP, PostponeAppend, UnchangedByTransaction, ledgerVars
    <2> QED BY <2>1 DEF NonceInv, ReceiptInv, RisingInv, Rising, StartOf, BaseOf
<1>4. CASE PackAppend \/ PackEstablish
    BY <1>4, AppendNonces, EstablishNonces
<1>5. CASE EndOfPass
    <2>1. UNCHANGED <<blk, receipts, accounts>> /\ step = "transactions"
        BY <1>5 DEF EndOfPass, ledgerVars
    <2> QED BY <2>1 DEF NonceInv, ReceiptInv, RisingInv, Rising, StartOf, BaseOf
<1>6. CASE DropAffair \/ PackAffair \/ EndOfAffairs
    <2>1. UNCHANGED accounts /\ step = "affairs" /\ step' # "transactions"
          /\ (blk' = blk \/ blk' = [blk EXCEPT !.affairs = Append(@, Air)])
        BY <1>6 DEF DropAffair, PackAffair, EndOfAffairs, InAffairs, UnchangedByAffair, ledgerVars
    <2>2. blk'.transactions = blk.transactions
        BY <2>1 DEF DataInv, BlockTyped, Blocks
    <2> QED BY <2>1, <2>2 DEF NonceInv, ReceiptInv, RisingInv, Rising, StartOf, BaseOf
<1>7. CASE TryPackage
    BY <1>1, <1>7 DEF TryPackage
<1>8. CASE Submit \/ transaction_pool_waiting_count \/ PackageRoot \/ TotalRollback \/ StoreNext \/ Restart
    <2>1. step' \notin Packing
        BY <1>8 DEF Submit, transaction_pool_waiting_count, PackageRoot, TotalRollback, RolledBack,
                    StoreNext, GenesisState, GenesisBlock, CommitExtensions, CommitAccounts, CommitFilter,
                    SaveBlock, SaveState, UpdateConnector, Restart
    <2> QED BY <1>1, <2>1
<1>9. CASE UNCHANGED vars
    BY <1>9 DEF vars, NonceInv, ReceiptInv, RisingInv, Rising, StartOf, BaseOf, ledgerVars, packVars
<1>10. CASE PackageHeader
    <2>1. CASE step' = "idle"
        BY <1>1, <2>1
    <2>2. CASE step' = "root" /\ blk' = [blk EXCEPT !.height = currentHeight + 1, !.prev = topBlock]
        <3>1. step = "header" /\ UNCHANGED accounts
            BY <1>10 DEF PackageHeader, ledgerVars
        <3>2. blk'.transactions = blk.transactions
            BY <2>2 DEF DataInv, BlockTyped, Blocks
        <3> QED BY <2>2, <3>1, <3>2 DEF NonceInv, ReceiptInv, RisingInv, Rising, StartOf, BaseOf
    <2> QED BY <1>10, <2>1, <2>2 DEF PackageHeader
<1> QED BY <1>2, <1>3, <1>4, <1>5, <1>6, <1>7, <1>8, <1>9, <1>10 DEF Next, PackagerNext

\* The receipts of a body leave no room for a nonce it has used.
THEOREM NonceInvariant == Spec => []NonceInv
<1>1. Init => NonceInv
    BY DEF Init, NonceInv, ReceiptInv, RisingInv
<1> QED BY <1>1, NonceStep, DataInvariant, ChainInvariant, PTL DEF Spec

\* package_next_block_body never takes two transactions of a sender with one nonce, nor
\* one at or below the account's unless that is 2^64 - 1, although refused items leave their nonces in the
\* receipts on some of its branches and a pop_back takes the largest nonce, not theirs.
THEOREM NoncesAreFresh == Spec => []FreshNonces
<1>1. NonceInv /\ DataInv => FreshNonces
    <2> SUFFICES ASSUME NonceInv, DataInv, step \in {"transactions", "affairs", "tried", "header"}
                 PROVE  FreshNonces
        BY DEF FreshNonces
    <2> DEFINE txs == blk.transactions
    <2>1. Rising(txs)
        BY DEF NonceInv, RisingInv
    <2>2. txs \in Seq(Transactions)
        BY BlockItems DEF DataInv
    <2>3. Len(txs) \in Nat /\ \A i \in 1 .. Len(txs) : txs[i].nonce \in Nat
        <3>1. \A t \in Transactions : t.nonce \in Nat
            BY AmountAssumption DEF Transactions, Uint64
        <3> HIDE DEF txs
        <3> QED BY <2>2, <3>1, LenProperties, ElementOfSeq
    <2> HIDE DEF txs
    <2>4. ASSUME NEW i \in 1 .. Len(txs), txs[i].sender \in DOMAIN accounts
          PROVE  \/ txs[i].nonce > accounts[txs[i].sender].nonce
                 \/ accounts[txs[i].sender].nonce = Wrap - 1
        <3> DEFINE x == txs[i].sender
        <3>1. txs[i].nonce > BaseOf(x) /\ StartOf(x) = accounts[x].nonce
            BY <2>1, <2>4 DEF Rising, StartOf
        <3>2. accounts[x].nonce \in Uint64
            <4>1. accounts[x] \in AccountSet
                BY <2>4, MapIs DEF DataInv, AccountsTyped, AccountMaps
            <4> QED BY <4>1 DEF AccountSet
        <3>3. StartOf(x) + 1 < Wrap => BaseOf(x) = StartOf(x)
            BY BaseInt
        <3> HIDE DEF x
        <3>4. accounts[x].nonce = Wrap - 1 \/ StartOf(x) + 1 < Wrap
            BY <3>1, <3>2, AmountAssumption DEF Uint64
        <3>5. txs[i].nonce > accounts[x].nonce \/ accounts[x].nonce = Wrap - 1
            BY <3>1, <3>3, <3>4
        <3> QED BY <3>5 DEF x
    <2>5. ASSUME NEW i \in 1 .. Len(txs), NEW j \in 1 .. Len(txs), txs[i].sender = txs[j].sender,
                 txs[i].nonce = txs[j].nonce, i # j
          PROVE  FALSE
        <3>1. i < j \/ j < i
            BY <2>3, <2>5
        <3>2. txs[i].nonce < txs[j].nonce \/ txs[j].nonce < txs[i].nonce
            BY <2>1, <2>5, <3>1 DEF Rising
        <3> QED BY <2>3, <2>5, <3>2
    <2> QED BY <2>4, <2>5 DEF FreshNonces, txs
<1> QED BY <1>1, NonceInvariant, DataInvariant, PTL
-----------------------------------------------------------------------------
(* The amounts of a body *)

\* Integers with quotient and remainder: the remainder is unique.
LEMMA ModUnique ==
    ASSUME NEW a \in Int, NEW b \in Nat \ {0}, NEW q \in Int, NEW r \in 0 .. b - 1, a = b * q + r
    PROVE  a % b = r
<1> DEFINE Q == a \div b
           R == a % b
<1>1. Q \in Int /\ R \in 0 .. b - 1 /\ a = b * Q + R
    OBVIOUS
<1> HIDE DEF Q, R
<1>2. ASSUME NEW u \in Int, NEW v \in Int, u + 1 <= v PROVE b * u + b <= b * v
    <2>1. v - u - 1 \in Nat /\ b * (v - u - 1) \in Nat
        BY <1>2
    <2>2. b * (v - u - 1) = b * v - b * u - b
        OBVIOUS
    <2> QED BY <2>1, <2>2
<1>3. ~(q + 1 <= Q) /\ ~(Q + 1 <= q)
    BY <1>1, <1>2
<1>4. q = Q
    BY <1>1, <1>3
<1> QED BY <1>1, <1>4 DEF R

\* A uint64_t that is raised and lowered by the same amount is what it was.
LEMMA BackAgain ==
    ASSUME NEW w \in Nat \ {0}, NEW s \in 0 .. w - 1, NEW n \in 0 .. w - 1
    PROVE  (s + n) % w \in 0 .. w - 1 /\ (((s + n) % w) - n) % w = s
<1>1. CASE s + n < w
    <2>1. s + n = w * 0 + (s + n) /\ s + n \in 0 .. w - 1 /\ s = w * 0 + s
        BY <1>1
    <2>2. (s + n) % w = s + n
        BY <2>1, ModUnique
    <2>3. s % w = s
        BY <2>1, ModUnique
    <2>4. s + n - n = s
        OBVIOUS
    <2> QED BY <2>1, <2>2, <2>3, <2>4
<1>2. CASE s + n >= w
    <2>1. s + n = w * 1 + (s + n - w) /\ s + n - w \in 0 .. w - 1 /\ s - w = w * (-1) + s
        BY <1>2
    <2>2. (s + n) % w = s + n - w
        BY <2>1, ModUnique
    <2>3. (s - w) % w = s
        BY <2>1, ModUnique
    <2>4. s + n - w - n = s - w
        OBVIOUS
    <2> QED BY <2>1, <2>2, <2>3, <2>4
<1> QED BY <1>1, <1>2

\* Adding to a remainder adds to the number.
LEMMA ModPlus ==
    ASSUME NEW w \in Nat \ {0}, NEW s \in Nat, NEW n \in Nat
    PROVE  ((s % w) + n) % w = (s + n) % w
<1> DEFINE q == s \div w
           r == s % w
           p == (r + n) \div w
           t == (r + n) % w
<1>1. q \in Int /\ r \in 0 .. w - 1 /\ s = w * q + r
    OBVIOUS
<1> HIDE DEF q, r
<1>2. p \in Int /\ t \in 0 .. w - 1 /\ r + n = w * p + t
    BY <1>1
<1> HIDE DEF p, t
<1>3. w * (q + p) = w * q + w * p
    BY <1>1, <1>2
<1>4. s + n = w * (q + p) + t
    BY <1>1, <1>2, <1>3
<1>5. q + p \in Int /\ s + n \in Int
    BY <1>1, <1>2
<1>6. (s + n) % w = t
    BY <1>2, <1>4, <1>5, ModUnique
<1> QED BY <1>6 DEF t, r

\* A sum, and one number more.
Plus(n, m) == n + m

SummedOf(base, seq) == FoldLeft(LAMBDA n, m : n + m, base, seq)

SumPath(base, seq, f) ==
    /\ f \in [0 .. Len(seq) -> Nat] /\ f[0] = base /\ f[Len(seq)] = SummedOf(base, seq)
    /\ \A i \in 1 .. Len(seq) : f[i] = Plus(f[i - 1], seq[i])

\* Adding up passes through one sum per number.
LEMMA SumUnfold ==
    ASSUME NEW base \in Nat, NEW seq \in Seq(Nat)
    PROVE  \E f : SumPath(base, seq, f)
<1> DEFINE n == Len(seq)
           S == Nat
<1>0. n \in Nat /\ DOMAIN seq = 1 .. n /\ base \in S /\ \A st \in S : \A i \in 1 .. n : Plus(st, seq[i]) \in S
    BY ElementOfSeq, LenProperties DEF Plus
<1> HIDE DEF n, S
<1> DEFINE E(h) == h = [s \in SUBSET (1 .. n) |->
                           IF s = {} THEN base ELSE Plus(h[s \ {Max(s)}], seq[Max(s)])]
           it == CHOOSE h : E(h)
           G == [p \in (1 .. n) \X S |-> Plus(p[2], seq[p[1]])]
<1>1. G \in [(1 .. n) \X S -> S]
    BY <1>0
<1>2. ASSUME NEW s \in SUBSET (1 .. n), s # {} PROVE Max(s) \in 1 .. n
    BY <1>0, <1>2, MaxIn
<1>3. \E h : E(h)
    <2>1. PICK h \in [SUBSET (1 .. n) -> S] : \A s \in SUBSET (1 .. n) : FoldsAt(G, base, s, h)
        <3> HIDE DEF G
        <3> QED BY <1>0, <1>1, FoldExists
    <2>2. ASSUME NEW s \in SUBSET (1 .. n), s # {}
          PROVE  h[s] = Plus(h[s \ {Max(s)}], seq[Max(s)])
        BY <1>2, <2>1, <2>2 DEF FoldsAt
    <2>3. h[{}] = base
        BY <2>1 DEF FoldsAt
    <2>4. E(h)
        BY <2>2, <2>3
    <2> HIDE DEF E
    <2> QED BY <2>4
<1>4. E(it)
    BY <1>3
<1>5. SummedOf(base, seq) = it[1 .. n]
    BY <1>0, Zenon DEF SummedOf, Plus, FoldLeft, MapThenFoldSet
<1> HIDE DEF it
<1>6. ASSUME NEW s \in SUBSET (1 .. n), s # {}, it[s \ {Max(s)}] \in S
      PROVE  it[s] = G[<<Max(s), it[s \ {Max(s)}]>>]
    BY <1>2, <1>4, <1>6
<1>7. it[{}] = base
    BY <1>4
<1> HIDE DEF E, G
<1>8. PICK f \in [0 .. n -> S] : /\ f[0] = base /\ f[n] = it[1 .. n]
                                 /\ \A i \in 1 .. n : f[i] = G[<<i, f[i - 1]>>]
    <2>1. Recurs(n, S, base, G, it)
        BY <1>6, <1>7 DEF Recurs
    <2>2. Passes(n, S, base, G, it[1 .. n])
        BY <1>0, <1>1, <2>1, FoldChain
    <2> QED BY <2>2 DEF Passes
<1>9. \A i \in 1 .. n : f[i] = Plus(f[i - 1], seq[i])
    <2> TAKE i \in 1 .. n
    <2>1. <<i, f[i - 1]>> \in (1 .. n) \X S /\ f[i] = G[<<i, f[i - 1]>>]
        BY <1>0, <1>8
    <2> QED BY <2>1 DEF G
<1> QED BY <1>5, <1>8, <1>9 DEF SumPath, n, S

\* What Total is: nothing for no amounts, and each further amount is added.
LEMMA TotalFacts ==
    ASSUME NEW s \in Seq(Nat)
    PROVE  /\ Total(s) \in Nat /\ (Len(s) = 0 => Total(s) = 0)
           /\ \A k \in Nat : Total(Append(s, k)) = Total(s) + k
<1> DEFINE n == Len(s)
<1>0. n \in Nat
    BY LenProperties
<1>1. \A z : Total(z) = SummedOf(0, z)
    BY Zenon DEF Total, SummedOf
<1>2. PICK f : SumPath(0, s, f)
    BY SumUnfold
<1>3. f \in [0 .. n -> Nat] /\ f[0] = 0 /\ f[n] = Total(s) /\ \A i \in 1 .. n : f[i] = f[i - 1] + s[i]
    BY <1>1, <1>2 DEF SumPath, Plus
<1>4. Total(s) \in Nat /\ (n = 0 => Total(s) = 0)
    BY <1>0, <1>3
<1>5. ASSUME NEW k \in Nat PROVE Total(Append(s, k)) = Total(s) + k
    <2> DEFINE z == Append(s, k)
    <2>1. z \in Seq(Nat) /\ Len(z) = n + 1 /\ z[n + 1] = k /\ \A i \in 1 .. n : z[i] = s[i]
        BY AppendProperties
    <2> HIDE DEF z
    <2>2. PICK g : SumPath(0, z, g)
        BY <2>1, SumUnfold
    <2>3. /\ g \in [0 .. n + 1 -> Nat] /\ g[0] = 0 /\ g[n + 1] = Total(z)
          /\ \A i \in 1 .. n + 1 : g[i] = g[i - 1] + z[i]
        BY <1>1, <2>1, <2>2 DEF SumPath, Plus
    <2> DEFINE P == {i \in 0 .. n : g[i] = f[i]}
    <2> HIDE DEF n
    <2>4. 0 \in P
        BY <1>0, <1>3, <2>3
    <2>5. ASSUME NEW i \in 1 .. n, i - 1 \in P PROVE i \in P
        <3>1. i \in 1 .. n + 1 /\ i \in 0 .. n
            BY <1>0
        <3>2. g[i] = g[i - 1] + z[i]
            BY <2>3, <3>1
        <3>3. f[i] = f[i - 1] + s[i] /\ z[i] = s[i] /\ g[i - 1] = f[i - 1]
            BY <1>3, <2>1, <2>5
        <3> QED BY <3>1, <3>2, <3>3
    <2> HIDE DEF P
    <2>6. \A i \in 0 .. n : i \in P
        BY <1>0, <2>4, <2>5, Induction
    <2>7. g[n] = f[n]
        BY <1>0, <2>6 DEF P
    <2>8. g[n + 1] = g[n + 1 - 1] + z[n + 1] /\ n + 1 - 1 = n
        BY <1>0, <2>3
    <2> QED BY <1>3, <2>1, <2>3, <2>7, <2>8 DEF z
<1> QED BY <1>4, <1>5 DEF n

\* The parts of a body's sums.
SentBy(t, x, a) == IF t.op = "Append" /\ t.sender = x /\ t.asset = a THEN t.count ELSE 0
EstablishedBy(t, x, a) == IF t.op = "Establish" /\ t.sender = x /\ t.asset = a THEN AssetMax ELSE 0

\* One transaction more adds what it sends.
LEMMA SentFacts ==
    ASSUME NEW txs \in Seq(Transactions), NEW x, NEW a
    PROVE  /\ Sent(txs, x, a) \in Nat /\ (Len(txs) = 0 => Sent(txs, x, a) = 0)
           /\ \A t \in Transactions : Sent(Append(txs, t), x, a) = Sent(txs, x, a) + SentBy(t, x, a)
<1> DEFINE amounts(z) == [i \in 1 .. Len(z) |-> SentBy(z[i], x, a)]
           n == Len(txs)
<1>1. \A z : Sent(z, x, a) = Total(amounts(z))
    BY Zenon DEF Sent, SentBy
<1>2. \A t \in Transactions : SentBy(t, x, a) \in Nat
    BY AmountAssumption DEF Transactions, Uint64, SentBy
<1> HIDE DEF SentBy
<1>3. n \in Nat /\ \A i \in 1 .. n : txs[i] \in Transactions
    BY LenProperties, ElementOfSeq
<1>4. amounts(txs) \in Seq(Nat) /\ Len(amounts(txs)) = n
    BY <1>2, <1>3
<1>5. ASSUME NEW t \in Transactions PROVE amounts(Append(txs, t)) = Append(amounts(txs), SentBy(t, x, a))
    <2> DEFINE z == Append(txs, t)
               k == SentBy(t, x, a)
               s == amounts(txs)
    <2>1. Len(z) = n + 1 /\ z[n + 1] = t /\ \A i \in 1 .. n : z[i] = txs[i]
        BY AppendProperties
    <2>2. Len(Append(s, k)) = n + 1 /\ Append(s, k)[n + 1] = k /\ (\A i \in 1 .. n : Append(s, k)[i] = s[i])
          /\ Append(s, k) \in Seq(Nat)
        BY <1>2, <1>4, AppendProperties
    <2> HIDE DEF z
    <2>3. amounts(z) = [i \in 1 .. n + 1 |-> SentBy(z[i], x, a)]
        BY <2>1
    <2>4. \A i \in 1 .. n : s[i] = SentBy(txs[i], x, a)
        OBVIOUS
    <2> HIDE DEF s, k, n
    <2>5. Append(s, k) = [i \in 1 .. n + 1 |-> Append(s, k)[i]]
        <3> DEFINE w == Append(s, k)
        <3> HIDE DEF w
        <3>1. w \in Seq(Nat) /\ Len(w) = n + 1
            BY <2>2 DEF w
        <3>2. w \in [1 .. n + 1 -> Nat]
            BY <3>1, LenProperties
        <3> QED BY <3>2 DEF w
    <2>6. \A i \in 1 .. n + 1 : Append(s, k)[i] = SentBy(z[i], x, a)
        <3> TAKE i \in 1 .. n + 1
        <3>1. i \in 1 .. n \/ i = n + 1
            BY <1>3
        <3> QED BY <2>1, <2>2, <2>4, <3>1 DEF k
    <2>7. [i \in 1 .. n + 1 |-> Append(s, k)[i]] = [i \in 1 .. n + 1 |-> SentBy(z[i], x, a)]
        BY <2>6
    <2> QED BY <2>3, <2>5, <2>7 DEF z, s, k
<1> HIDE DEF amounts
<1> QED BY <1>1, <1>2, <1>4, <1>5, TotalFacts DEF n

\* The same for what it establishes.
LEMMA EstablishedFacts ==
    ASSUME NEW txs \in Seq(Transactions), NEW x, NEW a
    PROVE  /\ Established(txs, x, a) \in Nat /\ (Len(txs) = 0 => Established(txs, x, a) = 0)
           /\ \A t \in Transactions : Established(Append(txs, t), x, a) = Established(txs, x, a) + EstablishedBy(t, x, a)
<1> DEFINE amounts(z) == [i \in 1 .. Len(z) |-> EstablishedBy(z[i], x, a)]
           n == Len(txs)
<1>1. \A z : Established(z, x, a) = Total(amounts(z))
    BY Zenon DEF Established, EstablishedBy
<1>2. \A t \in Transactions : EstablishedBy(t, x, a) \in Nat
    BY AmountAssumption DEF Transactions, Uint64, EstablishedBy
<1> HIDE DEF EstablishedBy
<1>3. n \in Nat /\ \A i \in 1 .. n : txs[i] \in Transactions
    BY LenProperties, ElementOfSeq
<1>4. amounts(txs) \in Seq(Nat) /\ Len(amounts(txs)) = n
    BY <1>2, <1>3
<1>5. ASSUME NEW t \in Transactions PROVE amounts(Append(txs, t)) = Append(amounts(txs), EstablishedBy(t, x, a))
    <2> DEFINE z == Append(txs, t)
               k == EstablishedBy(t, x, a)
               s == amounts(txs)
    <2>1. Len(z) = n + 1 /\ z[n + 1] = t /\ \A i \in 1 .. n : z[i] = txs[i]
        BY AppendProperties
    <2>2. Len(Append(s, k)) = n + 1 /\ Append(s, k)[n + 1] = k /\ (\A i \in 1 .. n : Append(s, k)[i] = s[i])
          /\ Append(s, k) \in Seq(Nat)
        BY <1>2, <1>4, AppendProperties
    <2> HIDE DEF z
    <2>3. amounts(z) = [i \in 1 .. n + 1 |-> EstablishedBy(z[i], x, a)]
        BY <2>1
    <2>4. \A i \in 1 .. n : s[i] = EstablishedBy(txs[i], x, a)
        OBVIOUS
    <2> HIDE DEF s, k, n
    <2>5. Append(s, k) = [i \in 1 .. n + 1 |-> Append(s, k)[i]]
        <3> DEFINE w == Append(s, k)
        <3> HIDE DEF w
        <3>1. w \in Seq(Nat) /\ Len(w) = n + 1
            BY <2>2 DEF w
        <3>2. w \in [1 .. n + 1 -> Nat]
            BY <3>1, LenProperties
        <3> QED BY <3>2 DEF w
    <2>6. \A i \in 1 .. n + 1 : Append(s, k)[i] = EstablishedBy(z[i], x, a)
        <3> TAKE i \in 1 .. n + 1
        <3>1. i \in 1 .. n \/ i = n + 1
            BY <1>3
        <3> QED BY <2>1, <2>2, <2>4, <3>1 DEF k
    <2>7. [i \in 1 .. n + 1 |-> Append(s, k)[i]] = [i \in 1 .. n + 1 |-> EstablishedBy(z[i], x, a)]
        BY <2>6
    <2> QED BY <2>3, <2>5, <2>7 DEF z, s, k
<1> HIDE DEF amounts
<1> QED BY <1>1, <1>2, <1>4, <1>5, TotalFacts DEF n

\* What a receipt's balances say of an asset of which its account has sent `sent` in the
\* body and which it may spend up to `cover`.
Entries == [have : Uint64, spend : Uint64]

Funded(b, a, sent, cover) ==
    IF a \in DOMAIN b THEN b[a] \in Entries /\ b[a].spend = sent % Wrap /\ b[a].spend <= cover /\ b[a].have <= cover
    ELSE sent = 0

Spent(b, a, have, n) ==
    Put(b, a, IF a \in DOMAIN b THEN [b[a] EXCEPT !.spend = (@ + n) % Wrap] ELSE [have |-> have, spend |-> n])
Unspent(b, a, n) == [b EXCEPT ![a].spend = (@ - n) % Wrap]
Gained(b, a) ==
    Put(b, a, IF a \in DOMAIN b THEN [b[a] EXCEPT !.have = (@ + AssetMax) % Wrap]
              ELSE [have |-> AssetMax, spend |-> 0])

\* The operations on receipts, as operations on their balances.
LEMMA OpBalances ==
    ASSUME NEW r, NEW from, Shaped(r, from), NEW a, NEW n, NEW have
    PROVE  /\ PushNonce(r, n).balances = r.balances /\ PopNonce(r).balances = r.balances
           /\ [r EXCEPT !.balances = Without(@, a)].balances = Without(r.balances, a)
<1> QED BY DEF Shaped, PushNonce, PopNonce

\* What Spend does to the balances ...
LEMMA SpendBalances ==
    ASSUME NEW r, NEW from, Shaped(r, from), NEW a, NEW n, NEW have
    PROVE  Spend(r, a, have, n).balances = Spent(r.balances, a, have, n)
<1>1. Spend(r, a, have, n) = [r EXCEPT !.balances = Spent(r.balances, a, have, n)]
    BY Zenon DEF Spend, Spent
<1>2. ASSUME NEW v PROVE [r EXCEPT !.balances = v].balances = v
    BY DEF Shaped
<1> QED BY <1>1, <1>2

\* ... what Unspend does ...
LEMMA UnspendBalances ==
    ASSUME NEW r, NEW from, Shaped(r, from), NEW a, NEW n
    PROVE  Unspend(r, a, n).balances = Unspent(r.balances, a, n)
<1> QED BY DEF Shaped, Unspend, Unspent

\* ... and what Gain does.
LEMMA GainBalances ==
    ASSUME NEW r, NEW from, Shaped(r, from), NEW a
    PROVE  Gain(r, a).balances = Gained(r.balances, a)
<1>1. Gain(r, a) = [r EXCEPT !.balances = Gained(r.balances, a)]
    BY Zenon DEF Gain, Gained
<1>2. ASSUME NEW v PROVE [r EXCEPT !.balances = v].balances = v
    BY DEF Shaped
<1> QED BY <1>1, <1>2

\* The amounts are the numbers below Wrap.
LEMMA WrapPositive == Wrap \in Nat \ {0} /\ Uint64 = 0 .. Wrap - 1 /\ AssetMax \in 0 .. Wrap - 1
BY AmountAssumption DEF Uint64

\* A transfer that passes the check is covered.
LEMMA SpentFunded ==
    ASSUME NEW b, NEW a, NEW sent \in Nat, NEW cover \in Nat, Funded(b, a, sent, cover),
           NEW have \in Uint64, have <= cover, NEW n \in Uint64,
           Spent(b, a, have, n)[a].have >= Spent(b, a, have, n)[a].spend
    PROVE  Funded(Spent(b, a, have, n), a, sent + n, cover)
<1> DEFINE e == Spent(b, a, have, n)[a]
<1>1. a \in DOMAIN Spent(b, a, have, n)
    BY DEF Spent, Put
<1>2. CASE a \in DOMAIN b
    <2>1. b[a] \in Entries /\ b[a].spend = sent % Wrap /\ b[a].have <= cover
        BY <1>2 DEF Funded
    <2>2. e = [b[a] EXCEPT !.spend = (@ + n) % Wrap]
        BY <1>2 DEF Spent, Put
    <2>3. e.have = b[a].have /\ e.spend = (b[a].spend + n) % Wrap /\ DOMAIN e = {"have", "spend"}
          /\ e = [have |-> b[a].have, spend |-> (b[a].spend + n) % Wrap]
        BY <2>1, <2>2 DEF Entries
    <2>4. (b[a].spend + n) % Wrap \in 0 .. Wrap - 1
        BY <2>1, WrapPositive, BackAgain DEF Entries
    <2>5. ((sent % Wrap) + n) % Wrap = (sent + n) % Wrap
        <3>1. n \in Nat
            BY WrapPositive
        <3> QED BY <3>1, WrapPositive, ModPlus
    <2> HIDE DEF e
    <2>6. e \in Entries /\ e.spend = (sent + n) % Wrap
        BY <2>1, <2>3, <2>4, <2>5, WrapPositive DEF Entries
    <2>7. e.have <= cover /\ e.spend <= e.have /\ e.have \in Nat /\ e.spend \in Nat
        BY <2>1, <2>3, <2>6, WrapPositive DEF Entries, e
    <2> QED BY <1>1, <2>6, <2>7 DEF Funded, e
<1>3. CASE a \notin DOMAIN b
    <2>1. sent = 0 /\ e = [have |-> have, spend |-> n]
        BY <1>3 DEF Funded, Spent, Put
    <2>2. (sent + n) % Wrap = n
        <3>1. n \in 0 .. Wrap - 1 /\ sent + n = Wrap * 0 + n
            BY <2>1, WrapPositive
        <3> QED BY <3>1, <2>1, WrapPositive, ModUnique
    <2> HIDE DEF e
    <2>3. e \in Entries /\ e.have = have /\ e.spend = n /\ n <= have
        BY <2>1 DEF Entries, e
    <2>4. n <= cover
        BY <2>3, WrapPositive
    <2> QED BY <1>1, <2>2, <2>3, <2>4 DEF Funded, e
<1> QED BY <1>2, <1>3

\* A refused one leaves the balances as they were.
LEMMA UnspentFunded ==
    ASSUME NEW b, NEW a, NEW sent \in Nat, NEW cover \in Nat, Funded(b, a, sent, cover), a \in DOMAIN b,
           NEW have, NEW n \in Uint64
    PROVE  Funded(Unspent(Spent(b, a, have, n), a, n), a, sent, cover)
<1> DEFINE w == Spent(b, a, have, n)
           e == Unspent(w, a, n)[a]
<1>1. b[a] \in Entries
    BY DEF Funded
<1>2. a \in DOMAIN w /\ w[a] = [have |-> b[a].have, spend |-> (b[a].spend + n) % Wrap]
    BY <1>1 DEF Spent, Put, Entries
<1> HIDE DEF w
<1>3. a \in DOMAIN Unspent(w, a, n) /\ e = [have |-> b[a].have, spend |-> (((b[a].spend + n) % Wrap) - n) % Wrap]
    BY <1>2 DEF Unspent
<1>4. (((b[a].spend + n) % Wrap) - n) % Wrap = b[a].spend
    BY <1>1, WrapPositive, BackAgain DEF Entries
<1>5. e = b[a]
    BY <1>1, <1>3, <1>4 DEF Entries
<1> QED BY <1>3, <1>5 DEF Funded, w

\* A refused transfer of an asset new to the receipt leaves no trace of it.
LEMMA WithoutFunded ==
    ASSUME NEW b, NEW a, NEW sent, NEW cover, Funded(b, a, sent, cover), a \notin DOMAIN b, NEW have, NEW n
    PROVE  Funded(Without(Spent(b, a, have, n), a), a, sent, cover)
<1>1. a \notin DOMAIN Without(Spent(b, a, have, n), a)
    BY DEF Without
<1> QED BY <1>1 DEF Funded

\* An established asset covers as much more.
LEMMA GainedFunded ==
    ASSUME NEW b, NEW a, NEW sent \in Nat, NEW cover \in Nat, Funded(b, a, sent, cover)
    PROVE  Funded(Gained(b, a), a, sent, cover + AssetMax)
<1> DEFINE e == Gained(b, a)[a]
<1>1. a \in DOMAIN Gained(b, a) /\ AssetMax \in Nat
    BY WrapPositive DEF Gained, Put
<1>2. CASE a \in DOMAIN b
    <2>1. b[a] \in Entries /\ b[a].spend = sent % Wrap /\ b[a].have <= cover /\ b[a].spend <= cover
        BY <1>2 DEF Funded
    <2>2. e = [have |-> (b[a].have + AssetMax) % Wrap, spend |-> b[a].spend]
        BY <1>2, <2>1 DEF Gained, Put, Entries
    <2>3. (b[a].have + AssetMax) % Wrap \in 0 .. Wrap - 1 /\ (b[a].have + AssetMax) % Wrap <= b[a].have + AssetMax
        <3> DEFINE h == b[a].have
                   w == Wrap
                   m == AssetMax
        <3>1. h \in 0 .. w - 1 /\ m \in 0 .. w - 1 /\ w \in Nat \ {0}
            BY <2>1, WrapPositive DEF Entries
        <3> HIDE DEF h, w, m
        <3>2. CASE h + m < w
            <4>1. h + m = w * 0 + (h + m) /\ h + m \in 0 .. w - 1 /\ h + m \in Int
                BY <3>1, <3>2
            <4>2. (h + m) % w = h + m
                BY <3>1, <4>1, ModUnique
            <4> QED BY <4>1, <4>2 DEF h, w, m
        <3>3. CASE h + m >= w
            <4>1. h + m = w * 1 + (h + m - w) /\ h + m - w \in 0 .. w - 1 /\ h + m \in Int /\ h + m - w <= h + m
                BY <3>1, <3>3
            <4>2. (h + m) % w = h + m - w
                BY <3>1, <4>1, ModUnique
            <4> QED BY <4>1, <4>2 DEF h, w, m
        <3> QED BY <3>1, <3>2, <3>3
    <2> HIDE DEF e
    <2>4. e \in Entries /\ e.spend = sent % Wrap /\ e.have <= cover + AssetMax /\ e.spend <= cover + AssetMax
        <3>1. e \in Entries /\ e.have = (b[a].have + AssetMax) % Wrap /\ e.spend = b[a].spend
            BY <2>1, <2>2, <2>3, WrapPositive DEF Entries
        <3>2. b[a].have \in Nat /\ b[a].spend \in Nat /\ e.have \in Nat
            BY <2>1, <3>1, WrapPositive DEF Entries
        <3> HIDE DEF Entries
        <3> QED BY <1>1, <2>1, <2>3, <3>1, <3>2
    <2> QED BY <1>1, <2>4 DEF Funded, e
<1>3. CASE a \notin DOMAIN b
    <2>1. sent = 0 /\ e = [have |-> AssetMax, spend |-> 0]
        BY <1>3 DEF Funded, Gained, Put
    <2>2. sent % Wrap = 0
        <3>1. 0 \in 0 .. Wrap - 1 /\ 0 = Wrap * 0 + 0
            BY WrapPositive
        <3> QED BY <2>1, <3>1, WrapPositive, ModUnique
    <2> HIDE DEF e
    <2>3. e \in Entries /\ e.spend = sent % Wrap /\ e.have <= cover + AssetMax /\ e.spend <= cover + AssetMax
        BY <1>1, <2>1, <2>2, WrapPositive DEF Entries
    <2> QED BY <1>1, <2>3 DEF Funded, e
<1> QED BY <1>2, <1>3

\* The operations touch one asset.
LEMMA OtherAssets ==
    ASSUME NEW b, NEW a, NEW c, c # a, NEW n, NEW have, NEW sent, NEW cover, Funded(b, c, sent, cover)
    PROVE  /\ Funded(Spent(b, a, have, n), c, sent, cover)
           /\ Funded(Unspent(Spent(b, a, have, n), a, n), c, sent, cover)
           /\ Funded(Without(Spent(b, a, have, n), a), c, sent, cover)
           /\ Funded(Gained(b, a), c, sent, cover)
<1>1. ASSUME NEW v PROVE LET f == Put(b, a, v) IN (c \in DOMAIN f <=> c \in DOMAIN b) /\ (c \in DOMAIN b => f[c] = b[c])
    BY DEF Put
<1> DEFINE s == Spent(b, a, have, n)
<1>2. (c \in DOMAIN s <=> c \in DOMAIN b) /\ (c \in DOMAIN b => s[c] = b[c])
    BY <1>1 DEF Spent
<1>3. (c \in DOMAIN Gained(b, a) <=> c \in DOMAIN b) /\ (c \in DOMAIN b => Gained(b, a)[c] = b[c])
    BY <1>1 DEF Gained
<1> HIDE DEF s
<1>4. (c \in DOMAIN Unspent(s, a, n) <=> c \in DOMAIN s) /\ (c \in DOMAIN s => Unspent(s, a, n)[c] = s[c])
    BY DEF Unspent
<1>5. (c \in DOMAIN Without(s, a) <=> c \in DOMAIN s) /\ (c \in DOMAIN s => Without(s, a)[c] = s[c])
    BY DEF Without
<1>6. ASSUME NEW f, (c \in DOMAIN f <=> c \in DOMAIN b) /\ (c \in DOMAIN b => f[c] = b[c])
      PROVE  Funded(f, c, sent, cover)
    BY <1>6 DEF Funded
<1> QED BY <1>2, <1>3, <1>4, <1>5, <1>6 DEF s

\* What an account may spend of an asset, and what its receipt knows.
Cover(x, a) == BalanceOf(x, a) + Established(blk.transactions, x, a)
BalancesOf(x) == ReceiptOf(receipts, accounts, x).balances
FundedInv == step = "transactions" =>
    \A x \in Addresses, a \in Assets : Funded(BalancesOf(x), a, Sent(blk.transactions, x, a), Cover(x, a))

SpendInv == FundedInv /\ NoOverspend

\* Balances are uint64_t.
LEMMA BalanceNat == ASSUME DataInv, NEW x, NEW a PROVE BalanceOf(x, a) \in Uint64
<1>1. CASE x \in DOMAIN accounts
    <2>1. accounts[x] \in AccountSet
        BY <1>1, MapIs DEF DataInv, AccountsTyped, AccountMaps
    <2>2. a \in DOMAIN accounts[x].balances => accounts[x].balances[a] \in Uint64
        BY <2>1, MapIs DEF AccountSet
    <2> QED BY <1>1, <2>2, WrapPositive DEF BalanceOf, get_balance
<1>2. CASE x \notin DOMAIN accounts
    BY <1>2, WrapPositive DEF BalanceOf
<1> QED BY <1>1, <1>2

\* What covers the spending of a body is a number.
LEMMA CoverNat == ASSUME DataInv, NEW x, NEW a PROVE Cover(x, a) \in Nat
<1>1. blk.transactions \in Seq(Transactions)
    BY BlockItems DEF DataInv
<1>2. Established(blk.transactions, x, a) \in Nat
    BY <1>1, EstablishedFacts
<1>3. BalanceOf(x, a) \in Nat
    BY BalanceNat, WrapPositive
<1> QED BY <1>2, <1>3 DEF Cover

\* Between two transactions the receipts say what the body may spend.
LEMMA FundedCovers == DataInv /\ FundedInv /\ step = "transactions" => NoOverspend
<1> SUFFICES ASSUME DataInv, FundedInv, step = "transactions", NEW x \in Addresses, NEW a \in Assets
             PROVE  Sent(blk.transactions, x, a) % Wrap <= Cover(x, a)
    BY DEF NoOverspend, Cover
<1> DEFINE sent == Sent(blk.transactions, x, a)
           b == BalancesOf(x)
<1>1. Funded(b, a, sent, Cover(x, a))
    BY DEF FundedInv
<1>2. Cover(x, a) \in Nat
    BY CoverNat
<1> HIDE DEF sent, b
<1>3. CASE a \in DOMAIN b
    BY <1>1, <1>3 DEF Funded, sent
<1>4. CASE a \notin DOMAIN b
    <2>1. sent = 0
        BY <1>1, <1>4 DEF Funded
    <2>2. 0 % Wrap = 0
        <3>1. 0 \in 0 .. Wrap - 1 /\ 0 = Wrap * 0 + 0
            BY WrapPositive
        <3> QED BY <3>1, WrapPositive, ModUnique
    <2> QED BY <1>2, <2>1, <2>2 DEF sent
<1> QED BY <1>3, <1>4 DEF sent

\* One iteration over the transactions: the sender's balances become b, and the body
\* may be longer by the transaction.
LEMMA FundedIteration ==
    ASSUME SpendInv, DataInv, DataInv', InTransactions, UnchangedByTransaction,
           NEW x, x = Trans.sender, NEW b,
           \A y \in Addresses : BalancesOf(y)' = IF y = x THEN b ELSE BalancesOf(y),
           \A a \in Assets : Funded(b, a, Sent(blk.transactions, x, a)', Cover(x, a)'),
           blk' = blk \/ blk' = [blk EXCEPT !.transactions = Append(@, Trans)]
    PROVE  SpendInv'
<1>1. step = "transactions" /\ step' = "transactions" /\ accounts' = accounts
    BY DEF InTransactions, UnchangedByTransaction, ledgerVars
<1>2. Trans \in Transactions /\ blk.transactions \in Seq(Transactions)
    <2>1. transactionsQueue \in Seq(Inputs) /\ start \in 1 .. Len(transactionsQueue)
        BY <1>1 DEF DataInv, QueuesTyped, StartInv, InTransactions
    <2> QED BY <2>1, InputAssumption, BlockItems DEF DataInv, Trans
<1>3. ASSUME NEW y \in Addresses, NEW a \in Assets, y # x
      PROVE  Sent(blk'.transactions, y, a) = Sent(blk.transactions, y, a)
             /\ Established(blk'.transactions, y, a) = Established(blk.transactions, y, a)
    <2>1. CASE blk' = blk
        BY <2>1
    <2>2. CASE blk' = [blk EXCEPT !.transactions = Append(@, Trans)]
        <3>1. blk'.transactions = Append(blk.transactions, Trans)
            BY <2>2 DEF DataInv, BlockTyped, Blocks
        <3>2. SentBy(Trans, y, a) = 0 /\ EstablishedBy(Trans, y, a) = 0
            BY <1>3 DEF SentBy, EstablishedBy
        <3>3. Sent(blk.transactions, y, a) \in Nat /\ Established(blk.transactions, y, a) \in Nat
            BY <1>2, SentFacts, EstablishedFacts
        <3> QED BY <1>2, <3>1, <3>2, <3>3, SentFacts, EstablishedFacts
    <2> QED BY <2>1, <2>2
<1>4. ASSUME NEW y \in Addresses, NEW a \in Assets
      PROVE  Funded(BalancesOf(y), a, Sent(blk.transactions, y, a), Cover(y, a))'
    <2>1. CASE y = x
        BY <2>1
    <2>2. CASE y # x
        <3>1. Funded(BalancesOf(y), a, Sent(blk.transactions, y, a), Cover(y, a))
            BY <1>1 DEF SpendInv, FundedInv
        <3>2. BalanceOf(y, a)' = BalanceOf(y, a)
            BY <1>1 DEF BalanceOf
        <3>3. Cover(y, a)' = Cover(y, a)
            BY <1>3, <2>2, <3>2 DEF Cover
        <3>4. BalancesOf(y)' = BalancesOf(y)
            BY <2>2
        <3> QED BY <1>3, <2>2, <3>1, <3>3, <3>4
    <2> QED BY <2>1, <2>2
<1>5. FundedInv'
    BY <1>4 DEF FundedInv
<1>6. (DataInv /\ FundedInv /\ step = "transactions" => NoOverspend)'
    BY FundedCovers, PTL
<1> QED BY <1>1, <1>5, <1>6 DEF SpendInv

\* The two ends of an iteration: the item is left, or taken.
LEMMA LeaveFunded ==
    ASSUME SpendInv, DataInv, DataInv', InTransactions, UnchangedByTransaction, NEW r, NEW by, Leave(r, by),
           NEW x, x = Trans.sender,
           \A a \in Assets : Funded(r.balances, a, Sent(blk.transactions, x, a), Cover(x, a))
    PROVE  SpendInv'
<1> DEFINE b == IF x \in DOMAIN receipts THEN r.balances ELSE BalancesOf(x)
<1>1. /\ step = "transactions" /\ blk' = blk /\ accounts' = accounts /\ x \in Addresses
      /\ receipts' = IF x \in DOMAIN receipts THEN Put(receipts, x, r) ELSE receipts
    <2>1. transactionsQueue \in Seq(Inputs) /\ start \in 1 .. Len(transactionsQueue)
        BY DEF DataInv, QueuesTyped, StartInv, InTransactions
    <2>2. Trans \in Transactions
        BY <2>1, InputAssumption DEF Trans
    <2> QED BY <2>2 DEF InTransactions, UnchangedByTransaction, ledgerVars, Leave, Transactions
<1>2. \A y \in Addresses : BalancesOf(y)' = IF y = x THEN b ELSE BalancesOf(y)
    <2> TAKE y \in Addresses
    <2>1. CASE x \in DOMAIN receipts
        <3>1. /\ DOMAIN receipts' = DOMAIN receipts
              /\ \A z \in DOMAIN receipts : receipts'[z] = IF z = x THEN r ELSE receipts[z]
            BY <1>1, <2>1 DEF Put
        <3> QED BY <1>1, <2>1, <3>1 DEF BalancesOf, ReceiptOf
    <2>2. CASE x \notin DOMAIN receipts
        BY <1>1, <2>2 DEF BalancesOf
    <2> QED BY <2>1, <2>2
<1>3. ASSUME NEW a \in Assets PROVE Funded(b, a, Sent(blk.transactions, x, a)', Cover(x, a)')
    <2>1. Sent(blk.transactions, x, a)' = Sent(blk.transactions, x, a) /\ Cover(x, a)' = Cover(x, a)
        BY <1>1 DEF Cover, BalanceOf, Trans
    <2>2. Funded(BalancesOf(x), a, Sent(blk.transactions, x, a), Cover(x, a))
        BY <1>1 DEF SpendInv, FundedInv
    <2>3. Funded(r.balances, a, Sent(blk.transactions, x, a), Cover(x, a))
        OBVIOUS
    <2> QED BY <2>1, <2>2, <2>3
<1> QED BY <1>1, <1>2, <1>3, FundedIteration

\* Taking a transfer that passes its check keeps the receipts funded.
LEMMA TakeFunded ==
    ASSUME SpendInv, DataInv, DataInv', InTransactions, UnchangedByTransaction, NEW r, Take(r),
           NEW x, x = Trans.sender,
           \A a \in Assets : Funded(r.balances, a, Sent(blk.transactions, x, a) + SentBy(Trans, x, a),
                                        Cover(x, a) + EstablishedBy(Trans, x, a))
    PROVE  SpendInv'
<1> DEFINE txs == blk.transactions
<1>1. /\ accounts' = accounts /\ receipts' = Put(receipts, x, r)
      /\ blk' = [blk EXCEPT !.transactions = Append(@, Trans)]
    BY DEF UnchangedByTransaction, ledgerVars, Take
<1>2. \A y \in Addresses : BalancesOf(y)' = IF y = x THEN r.balances ELSE BalancesOf(y)
    <2> TAKE y \in Addresses
    <2>1. /\ DOMAIN receipts' = DOMAIN receipts \cup {x} /\ receipts'[x] = r
          /\ \A z \in DOMAIN receipts : z # x => receipts'[z] = receipts[z]
        BY <1>1 DEF Put
    <2> QED BY <1>1, <2>1 DEF BalancesOf, ReceiptOf
<1>3. Trans \in Transactions /\ txs \in Seq(Transactions)
    <2>1. transactionsQueue \in Seq(Inputs) /\ start \in 1 .. Len(transactionsQueue)
        BY DEF DataInv, QueuesTyped, StartInv, InTransactions
    <2> QED BY <2>1, InputAssumption, BlockItems DEF DataInv, Trans
<1>4. blk'.transactions = Append(txs, Trans)
    BY <1>1 DEF DataInv, BlockTyped, Blocks
<1>5. ASSUME NEW y, NEW a
      PROVE  /\ Sent(blk.transactions, y, a)' = Sent(txs, y, a) + SentBy(Trans, y, a)
             /\ Cover(y, a)' = Cover(y, a) + EstablishedBy(Trans, y, a)
    <2>1. Sent(blk.transactions, y, a)' = Sent(Append(txs, Trans), y, a)
        BY <1>4
    <2>2. Established(blk.transactions, y, a)' = Established(Append(txs, Trans), y, a)
        BY <1>4
    <2>3. BalanceOf(y, a)' = BalanceOf(y, a) /\ BalanceOf(y, a) \in Nat
        BY <1>1, BalanceNat, WrapPositive DEF BalanceOf
    <2>4. Established(txs, y, a) \in Nat /\ EstablishedBy(Trans, y, a) \in Nat
        BY <1>3, EstablishedFacts, WrapPositive DEF EstablishedBy
    <2> HIDE DEF txs
    <2>5. Sent(Append(txs, Trans), y, a) = Sent(txs, y, a) + SentBy(Trans, y, a)
        BY <1>3, SentFacts
    <2>6. Established(Append(txs, Trans), y, a) = Established(txs, y, a) + EstablishedBy(Trans, y, a)
        BY <1>3, EstablishedFacts
    <2>7. Cover(y, a)' = BalanceOf(y, a)' + Established(blk.transactions, y, a)'
        BY DEF Cover
    <2>8. Cover(y, a) = BalanceOf(y, a) + Established(txs, y, a)
        BY DEF Cover, txs
    <2> QED BY <2>1, <2>2, <2>3, <2>4, <2>5, <2>6, <2>7, <2>8
<1>6. ASSUME NEW a \in Assets PROVE Funded(r.balances, a, Sent(blk.transactions, x, a)', Cover(x, a)')
    BY <1>5
<1> QED BY <1>1, <1>2, <1>6, FundedIteration

\* A transfer, accepted or refused, leaves the receipts right about the body.
LEMMA AppendFunded ==
    ASSUME SpendInv, NonceInv, DataInv, DataInv', PackAppend
    PROVE  SpendInv'
<1> PICK x : x = Trans.sender
    OBVIOUS
<1> PICK c : c = Trans.asset
    OBVIOUS
<1> DEFINE n == Trans.count
           old == ReceiptOf(receipts, accounts, x)
           have == IF HasAccount(x) THEN get_balance(accounts[x], c) ELSE 0
           pushed == PushNonce(old, Trans.nonce)
           with == Spend(pushed, c, have, n)
           by == IF HasAccount(x) /\ HasReceipt(x) /\ ~KnownAsset THEN 0 ELSE 1
           b == BalancesOf(x)
           sent(a) == Sent(blk.transactions, x, a)
<1>1. InTransactions /\ UnchangedByTransaction /\ step = "transactions" /\ Trans.op = "Append"
      /\ (HasAccount(x) \/ KnownAsset)
    BY DEF PackAppend, InTransactions
<1>2. \/ check(with) /\ Take(with)
      \/ Leave(Refused(with), by)
    BY Zenon DEF PackAppend, WithTransfer
<1>3. Trans \in Transactions /\ x \in Addresses /\ c \in Assets /\ n \in Uint64 /\ Trans.nonce \in Nat
    <2>1. transactionsQueue \in Seq(Inputs) /\ start \in 1 .. Len(transactionsQueue)
        BY <1>1 DEF DataInv, QueuesTyped, StartInv, InTransactions
    <2>2. Trans \in Transactions
        BY <2>1, InputAssumption DEF Trans
    <2> QED BY <2>2, AmountAssumption DEF Transactions, Uint64
<1>4. Shaped(old, StartOf(x)) /\ old.balances = b
    BY <1>1, ReceiptShaped DEF NonceInv, BalancesOf
<1>5. KnownAsset <=> c \in DOMAIN b
    BY DEF KnownAsset, HasReceipt, BalancesOf, ReceiptOf, NewReceipt, Nothing
<1>6. have = BalanceOf(x, c) /\ have \in Uint64 /\ have <= Cover(x, c) /\ Cover(x, c) \in Nat
    <2>1. have = BalanceOf(x, c)
        BY DEF BalanceOf, HasAccount
    <2>2. Established(blk.transactions, x, c) \in Nat
        BY EstablishedFacts, BlockItems DEF DataInv
    <2>3. BalanceOf(x, c) \in Uint64
        BY BalanceNat
    <2> HIDE DEF have
    <2> QED BY <2>1, <2>2, <2>3, WrapPositive DEF Cover
<1>7. ASSUME NEW a \in Assets PROVE Funded(b, a, sent(a), Cover(x, a)) /\ sent(a) \in Nat
    BY <1>1, <1>3, SentFacts, BlockItems DEF SpendInv, FundedInv, DataInv
<1> HIDE DEF n, old, have, by, b, sent
<1>8. Shaped(pushed, StartOf(x)) /\ pushed.balances = b
    BY <1>3, <1>4, PushOp, OpBalances
<1> HIDE DEF pushed
<1>9. Shaped(with, StartOf(x)) /\ with.balances = Spent(b, c, have, n)
    BY <1>8, SpendOp, SpendBalances
<1> HIDE DEF with
<1>10. CASE check(with) /\ Take(with)
    <2>1. Spent(b, c, have, n)[c].have >= Spent(b, c, have, n)[c].spend
        <3>1. c \in DOMAIN Spent(b, c, have, n)
            BY DEF Spent, Put
        <3> QED BY <1>9, <1>10, <3>1 DEF check
    <2>2. Funded(with.balances, c, sent(c) + n, Cover(x, c))
        BY <1>3, <1>6, <1>7, <1>9, <2>1, SpentFunded
    <2>3. ASSUME NEW a \in Assets
          PROVE  Funded(with.balances, a, Sent(blk.transactions, x, a) + SentBy(Trans, x, a),
                        Cover(x, a) + EstablishedBy(Trans, x, a))
        <3>1. EstablishedBy(Trans, x, a) = 0 /\ SentBy(Trans, x, a) = IF a = c THEN n ELSE 0
            BY <1>1 DEF EstablishedBy, SentBy, n
        <3>2. Cover(x, a) \in Nat
            BY CoverNat
        <3>3. CASE a = c
            BY <2>2, <3>1, <3>2, <3>3 DEF sent
        <3>4. CASE a # c
            <4>1. Funded(with.balances, a, sent(a), Cover(x, a))
                BY <1>7, <1>9, <3>4, OtherAssets
            <4> QED BY <1>7, <3>1, <3>2, <3>4, <4>1 DEF sent
        <3> QED BY <3>3, <3>4
    <2> QED BY <1>1, <1>10, <2>3, TakeFunded
<1>11. CASE Leave(Refused(with), by)
    <2> DEFINE back == Unspend(with, c, n)
               without == [with EXCEPT !.balances = Without(@, c)]
    <2>1. /\ Shaped(back, StartOf(x)) /\ back.balances = Unspent(Spent(b, c, have, n), c, n)
          /\ Shaped(without, StartOf(x)) /\ without.balances = Without(Spent(b, c, have, n), c)
        BY <1>9, BalanceOps, UnspendBalances, OpBalances
    <2>2. \/ Refused(with) \in {PopNonce(back), back} /\ c \in DOMAIN b
          \/ Refused(with) = PopNonce(without) /\ c \notin DOMAIN b
        BY <1>1, <1>5 DEF Refused, n
    <2> HIDE DEF back, without
    <2>3. PopNonce(back).balances = back.balances /\ PopNonce(without).balances = without.balances
        BY <2>1, OpBalances
    <2>4. ASSUME NEW a \in Assets PROVE Funded(Refused(with).balances, a, sent(a), Cover(x, a))
        <3>1. CASE a # c
            BY <1>7, <2>1, <2>2, <2>3, <3>1, OtherAssets
        <3>2. CASE a = c /\ c \in DOMAIN b
            <4>1. Refused(with).balances = Unspent(Spent(b, c, have, n), c, n)
                BY <2>1, <2>2, <2>3, <3>2
            <4> QED BY <1>3, <1>6, <1>7, <3>2, <4>1, UnspentFunded
        <3>3. CASE a = c /\ c \notin DOMAIN b
            <4>1. Refused(with).balances = Without(Spent(b, c, have, n), c)
                BY <2>1, <2>2, <2>3, <3>3
            <4> QED BY <1>7, <3>3, <4>1, WithoutFunded
        <3> QED BY <3>1, <3>2, <3>3
    <2> QED BY <1>1, <1>11, <2>4, LeaveFunded DEF sent
<1> QED BY <1>2, <1>10, <1>11

\* So does package_next_block_body with an asset to establish.
LEMMA EstablishFunded ==
    ASSUME SpendInv, NonceInv, DataInv, DataInv', PackEstablish
    PROVE  SpendInv'
<1> PICK x : x = Trans.sender
    OBVIOUS
<1> PICK c : c = Trans.asset
    OBVIOUS
<1> DEFINE old == ReceiptOf(receipts, accounts, x)
           with == PushNonce(old, Trans.nonce)
           gained == Gain(with, c)
           b == BalancesOf(x)
           sent(a) == Sent(blk.transactions, x, a)
<1>1. InTransactions /\ UnchangedByTransaction /\ step = "transactions" /\ Trans.op = "Establish"
    BY DEF PackEstablish, InTransactions
<1>2. Leave(old, 1) \/ Take(gained) \/ Leave(PopNonce(with), 1)
    BY Zenon DEF PackEstablish, WithAsset
<1>3. Trans \in Transactions /\ x \in Addresses /\ c \in Assets /\ Trans.nonce \in Nat
    <2>1. transactionsQueue \in Seq(Inputs) /\ start \in 1 .. Len(transactionsQueue)
        BY <1>1 DEF DataInv, QueuesTyped, StartInv, InTransactions
    <2>2. Trans \in Transactions
        BY <2>1, InputAssumption DEF Trans
    <2> QED BY <2>2, AmountAssumption DEF Transactions, Uint64
<1>4. Shaped(old, StartOf(x)) /\ old.balances = b
    BY <1>1, ReceiptShaped DEF NonceInv, BalancesOf
<1>5. ASSUME NEW a \in Assets
      PROVE  Funded(b, a, sent(a), Cover(x, a)) /\ sent(a) \in Nat /\ Cover(x, a) \in Nat
    BY <1>1, <1>3, SentFacts, BlockItems, CoverNat DEF SpendInv, FundedInv, DataInv
<1> HIDE DEF old, b, sent
<1>6. Shaped(with, StartOf(x)) /\ with.balances = b /\ PopNonce(with).balances = b
    BY <1>3, <1>4, PushOp, OpBalances
<1> HIDE DEF with
<1>7. gained.balances = Gained(b, c)
    BY <1>6, GainBalances
<1> HIDE DEF gained
<1>8. CASE Leave(old, 1)
    BY <1>1, <1>4, <1>5, <1>8, LeaveFunded DEF sent
<1>9. CASE Leave(PopNonce(with), 1)
    BY <1>1, <1>5, <1>6, <1>9, LeaveFunded DEF sent
<1>10. CASE Take(gained)
    <2>1. ASSUME NEW a \in Assets
          PROVE  Funded(gained.balances, a, Sent(blk.transactions, x, a) + SentBy(Trans, x, a),
                        Cover(x, a) + EstablishedBy(Trans, x, a))
        <3>1. SentBy(Trans, x, a) = 0 /\ EstablishedBy(Trans, x, a) = IF a = c THEN AssetMax ELSE 0
            BY <1>1 DEF EstablishedBy, SentBy
        <3>2. CASE a = c
            <4>1. Funded(Gained(b, c), c, sent(c), Cover(x, c) + AssetMax)
                BY <1>3, <1>5, GainedFunded
            <4> QED BY <1>5, <1>7, <3>1, <3>2, <4>1 DEF sent
        <3>3. CASE a # c
            <4>1. Funded(Gained(b, c), a, sent(a), Cover(x, a))
                BY <1>5, <3>3, OtherAssets
            <4> QED BY <1>5, <1>7, <3>1, <3>3, <4>1 DEF sent
        <3> QED BY <3>2, <3>3
    <2> QED BY <1>1, <1>10, <2>1, TakeFunded
<1> QED BY <1>2, <1>8, <1>9, <1>10

\* Every step keeps what a body spends covered.
LEMMA SpendStep == SpendInv /\ NonceInv /\ DataInv /\ DataInv' /\ [Next]_vars => SpendInv'
<1> SUFFICES ASSUME SpendInv, NonceInv, DataInv, DataInv', [Next]_vars PROVE SpendInv'
    OBVIOUS
<1> DEFINE Packing == {"transactions", "affairs", "tried", "header"}
<1>1. ASSUME step' \notin Packing PROVE SpendInv'
    BY <1>1 DEF SpendInv, FundedInv, NoOverspend
<1>2. ASSUME step \in Packing, step' # "transactions", blk'.transactions = blk.transactions, accounts' = accounts
      PROVE  SpendInv'
    <2>1. ASSUME NEW x, NEW a PROVE BalanceOf(x, a)' = BalanceOf(x, a)
        BY <1>2 DEF BalanceOf
    <2>2. ASSUME NEW x, NEW a
          PROVE  /\ Sent(blk.transactions, x, a)' = Sent(blk.transactions, x, a)
                 /\ Established(blk.transactions, x, a)' = Established(blk.transactions, x, a)
        BY <1>2
    <2> QED BY <1>2, <2>1, <2>2 DEF SpendInv, FundedInv, NoOverspend
<1>3. ASSUME UNCHANGED <<step, blk, receipts, accounts>> PROVE SpendInv'
    <2>1. ASSUME NEW x, NEW a
          PROVE  /\ BalanceOf(x, a)' = BalanceOf(x, a) /\ BalancesOf(x)' = BalancesOf(x)
                 /\ Sent(blk.transactions, x, a)' = Sent(blk.transactions, x, a)
                 /\ Established(blk.transactions, x, a)' = Established(blk.transactions, x, a)
        BY <1>3 DEF BalanceOf, BalancesOf
    <2> QED BY <1>3, <2>1 DEF SpendInv, FundedInv, NoOverspend, Cover
<1>4. CASE StartPackaging
    <2>1. step' = "transactions" /\ blk'.transactions = <<>> /\ receipts' = Nothing
        BY <1>4 DEF StartPackaging, InjectedBlock, EmptyBlock
    <2>2. <<>> \in Seq(Transactions) /\ Len(<<>>) = 0
        BY EmptySeq
    <2>3. ASSUME NEW x \in Addresses, NEW a \in Assets
          PROVE  Funded(BalancesOf(x), a, Sent(blk.transactions, x, a), Cover(x, a))'
        <3>1. BalancesOf(x)' = Nothing
            BY <2>1 DEF BalancesOf, ReceiptOf, NewReceipt, Nothing
        <3>2. Sent(blk.transactions, x, a)' = 0
            BY <2>1, <2>2, SentFacts
        <3> QED BY <3>1, <3>2 DEF Funded, Nothing
    <2>4. FundedInv'
        BY <2>3 DEF FundedInv
    <2>5. (DataInv /\ FundedInv /\ step = "transactions" => NoOverspend)'
        BY FundedCovers, PTL
    <2> QED BY <2>1, <2>4, <2>5 DEF SpendInv
<1>5. CASE DropExpired \/ DropNullOP \/ PostponeAppend
    <2>1. UNCHANGED <<step, blk, receipts, accounts>>
        BY <1>5 DEF DropExpired, DropNullOP, PostponeAppend, UnchangedByTransaction, ledgerVars
    <2> QED BY <1>3, <2>1
<1>6. CASE PackAppend \/ PackEstablish
    BY <1>6, AppendFunded, EstablishFunded
<1>7. CASE EndOfPass
    <2>1. UNCHANGED <<blk, receipts, accounts>> /\ step = "transactions"
        BY <1>7 DEF EndOfPass, ledgerVars
    <2> QED BY <1>2, <1>3, <2>1
<1>8. CASE DropAffair \/ PackAffair \/ EndOfAffairs
    <2>1. UNCHANGED accounts /\ step = "affairs" /\ step' # "transactions"
          /\ (blk' = blk \/ blk' = [blk EXCEPT !.affairs = Append(@, Air)])
        BY <1>8 DEF DropAffair, PackAffair, EndOfAffairs, InAffairs, UnchangedByAffair, ledgerVars
    <2>2. blk'.transactions = blk.transactions
        BY <2>1 DEF DataInv, BlockTyped, Blocks
    <2> QED BY <1>2, <2>1, <2>2
<1>9. CASE TryPackage
    BY <1>1, <1>9 DEF TryPackage
<1>10. CASE \/ Submit \/ transaction_pool_waiting_count \/ PackageHeader \/ PackageRoot \/ TotalRollback
            \/ StoreNext \/ Restart
    <2>1. step' \notin Packing
        BY <1>10 DEF Submit, transaction_pool_waiting_count, PackageHeader, PackageRoot, TotalRollback, RolledBack,
                     StoreNext, GenesisState, GenesisBlock, CommitExtensions, CommitAccounts, CommitFilter,
                     SaveBlock, SaveState, UpdateConnector, Restart
    <2> QED BY <1>1, <2>1
<1>11. CASE UNCHANGED vars
    <2>1. UNCHANGED <<step, blk, receipts, accounts>>
        BY <1>11 DEF vars, ledgerVars, packVars
    <2> QED BY <1>3, <2>1
<1> QED BY <1>4, <1>5, <1>6, <1>7, <1>8, <1>9, <1>10, <1>11 DEF Next, PackagerNext

\* The receipts of a body add up what its transfers spend, and cover it.
THEOREM SpendInvariant == Spec => []SpendInv
<1>1. Init => SpendInv
    BY DEF Init, SpendInv, FundedInv, NoOverspend
<1> QED BY <1>1, SpendStep, NonceInvariant, DataInvariant, PTL DEF Spec

\* package_next_block_body never fills a body in which an account spends more of an
\* asset than its balance and what the body establishes for it, as a uint64_t adds up the
\* amounts: over all passes, and although a refused transfer's amount is taken back by hand.
THEOREM BodiesAreFunded == Spec => []NoOverspend
<1>1. SpendInv => NoOverspend
    BY DEF SpendInv
<1> QED BY <1>1, SpendInvariant, PTL

-----------------------------------------------------------------------------
(* No transfer twice *)

\* Every transfer of the block b is below the nonce its sender has.
Above(accts, b) ==
    \A j \in 1 .. Len(b.transactions) :
        LET t == b.transactions[j]
        IN  t.op = "Append" => /\ t.nonce \in Nat /\ t.sender \in DOMAIN accts
                               /\ t.nonce < accts[t.sender].nonce

SameTransfer(t, u) == t.op = "Append" /\ u.op = "Append" /\ t.sender = u.sender /\ t.nonce = u.nonce

\* The blocks b and c have no transfer in common.
Apart(b, c) ==
    \A j \in 1 .. Len(b.transactions), l \in 1 .. Len(c.transactions) :
        ~SameTransfer(b.transactions[j], c.transactions[l])

\* The block b has no transfer twice.
Once(b) ==
    \A j, l \in 1 .. Len(b.transactions) : SameTransfer(b.transactions[j], b.transactions[l]) => j = l

\* The transfers of the stored chain are below the nonces in accts.
StoredBelow(accts) == \A i \in 1 .. diskState.height : Above(accts, diskBlocks[i])

StoredOnce ==
    /\ \A i \in 1 .. diskState.height : Once(diskBlocks[i])
    /\ \A i, k \in 1 .. diskState.height : i # k => Apart(diskBlocks[i], diskBlocks[k])

\* The accounts on disk have passed every transfer of the stored chain; the accounts in
\* memory have also passed the block that is being written, which repeats none of it.
ReplayInv ==
    ~threw =>
        /\ diskState # NoState => StoredBelow(diskAccounts) /\ StoredOnce
        /\ step \in Writing => /\ StoredBelow(accounts) /\ Above(accounts, blk) /\ Once(blk)
                               /\ \A i \in 1 .. diskState.height : Apart(diskBlocks[i], blk)

\* A block about to be applied is not at the end of the numbers: no nonce of an account or
\* of a transaction comes, with its affairs, to 2^64 - 1, where nonces start again from 0.
NonceRoom ==
    step = "root" =>
        LET more == Len(blk.affairs)
        IN  /\ 1 + more < Wrap /\ Roomy(accounts, 1 + more)
            /\ \A j \in 1 .. Len(blk.transactions) : blk.transactions[j].nonce + 1 + more < Wrap

\* Accounts that are not lower have passed the same blocks.
LEMMA AboveKept ==
    ASSUME NEW f \in AccountMaps, NEW g \in AccountMaps, NotBelow(f, g), NEW b, Above(f, b)
    PROVE  Above(g, b)
<1>1. (\A x \in DOMAIN f : f[x].nonce \in Nat) /\ \A x \in DOMAIN g : g[x].nonce \in Nat
    BY NoncesNat
<1> SUFFICES ASSUME NEW j \in 1 .. Len(b.transactions), b.transactions[j].op = "Append"
             PROVE  /\ b.transactions[j].nonce \in Nat /\ b.transactions[j].sender \in DOMAIN g
                    /\ b.transactions[j].nonce < g[b.transactions[j].sender].nonce
    BY DEF Above
<1> DEFINE t == b.transactions[j]
<1>2. t.nonce \in Nat /\ t.sender \in DOMAIN f /\ t.nonce < f[t.sender].nonce
    BY DEF Above
<1>3. t.sender \in DOMAIN g /\ f[t.sender].nonce <= g[t.sender].nonce
    BY <1>2 DEF NotBelow
<1> HIDE DEF t
<1>4. t.nonce < g[t.sender].nonce
    BY <1>1, <1>2, <1>3
<1> QED BY <1>2, <1>3, <1>4 DEF t

\* The root tells nonces apart: accounts with one root have the same nonces.
LEMMA RootNonces ==
    ASSUME NEW f \in AccountMaps, NEW g \in AccountMaps, RootOf(f) = RootOf(g)
    PROVE  NotBelow(f, g)
<1>1. DOMAIN f = DOMAIN g /\ \A x \in DOMAIN f : get_hash(f[x]) = get_hash(g[x])
    BY SameRoot
<1>2. \A act : get_hash(act).nonce = act.nonce
    BY DEF get_hash
<1>3. \A x \in DOMAIN f : f[x].nonce = g[x].nonce
    BY <1>1, <1>2
<1>4. \A x \in DOMAIN f : f[x].nonce \in Nat
    BY NoncesNat
<1> QED BY <1>1, <1>3, <1>4 DEF NotBelow

\* Where there is room, the nonces of a body are above their accounts'.
LEMMA RisesAbove ==
    ASSUME DataInv, NonceRoom, step = "root", Rising(blk.transactions), NEW j \in 1 .. Len(blk.transactions)
    PROVE  blk.transactions[j].nonce > StartOf(blk.transactions[j].sender)
<1> DEFINE x == blk.transactions[j].sender
           more == Len(blk.affairs)
<1>1. blk.transactions[j].nonce > BaseOf(x)
    BY DEF Rising
<1>2. 1 + more < Wrap /\ Roomy(accounts, 1 + more)
    BY DEF NonceRoom
<1>3. more \in Nat /\ StartOf(x) \in Nat
    BY StartNat, BlockItems, LenProperties DEF DataInv
<1>4. StartOf(x) + 1 < Wrap => BaseOf(x) = StartOf(x)
    BY BaseInt
<1> HIDE DEF x, more
<1>5. StartOf(x) + (1 + more) < Wrap
    BY <1>2, <1>3, AmountAssumption DEF Roomy, StartOf
<1>6. blk.transactions[j].nonce > StartOf(x)
    BY <1>1, <1>3, <1>4, <1>5, AmountAssumption
<1> QED BY <1>6 DEF x

\* Inserting a block of fresh nonces passes its transfers and lowers no nonce.
LEMMA InsertPasses ==
    ASSUME DataInv, ChainInv, NonceInv, NonceRoom, step = "root", InsertBlock(blk)
    PROVE  /\ accounts' \in AccountMaps /\ NotBelow(accounts, accounts')
           /\ Above(accounts', blk) /\ Once(blk)
<1> DEFINE txs == blk.transactions
           more == Len(blk.affairs)
<1>1. /\ accounts \in AccountMaps /\ assetFilter \in SUBSET Assets
      /\ txs \in Seq(Transactions) /\ blk.affairs \in Seq(Affairs)
    BY BlockItems DEF DataInv, AccountsTyped, FiltersTyped
<1>2. Applied(blk).ok /\ accounts' = Applied(blk).accounts
    BY Zenon DEF InsertBlock
<1>3. accounts' \in AccountMaps
    BY <1>2, InsertFacts, StateFields
<1>4. Rising(txs)
    BY DEF NonceInv, RisingInv
<1>5. 1 + more < Wrap /\ Roomy(accounts, 1 + more) /\ \A j \in 1 .. Len(txs) : txs[j].nonce + 1 + more < Wrap
    BY DEF NonceRoom
<1>6. Len(txs) \in Nat /\ \A j \in 1 .. Len(txs) : txs[j].nonce \in Nat
    <2>1. \A t \in Transactions : t.nonce \in Nat
        BY AmountAssumption DEF Transactions, Uint64
    <2> HIDE DEF txs
    <2> QED BY <1>1, <2>1, LenProperties, ElementOfSeq
<1>11. \A j \in 1 .. Len(txs) : txs[j].nonce > StartOf(txs[j].sender)
    BY <1>4, RisesAbove
<1>12. Roomy(accounts, more)
    <2>1. more \in Nat /\ \A x \in DOMAIN accounts : accounts[x].nonce \in Nat
        BY <1>1, NoncesNat, LenProperties
    <2> HIDE DEF more
    <2> QED BY <1>5, <2>1, AmountAssumption DEF Roomy
<1> HIDE DEF txs, more
<1>7. Ascends(accounts, txs, more)
    BY <1>4, <1>5, <1>11 DEF Ascends, Rising, StartOf, NonceOf
<1>8. NotBelow(accounts, accounts') /\ Passed(txs, Len(txs), accounts')
    BY <1>1, <1>2, <1>5, <1>7, <1>12, AppliedNonces DEF txs, more
<1>9. Above(accounts', blk)
    BY <1>6, <1>8 DEF Above, Passed, txs
<1>10. Once(blk)
    <2> SUFFICES ASSUME NEW j \in 1 .. Len(txs), NEW l \in 1 .. Len(txs), SameTransfer(txs[j], txs[l]), j # l
                 PROVE  FALSE
        BY DEF Once, txs
    <2>1. j < l \/ l < j
        BY <1>6
    <2>2. txs[j].nonce < txs[l].nonce \/ txs[l].nonce < txs[j].nonce
        BY <1>4, <2>1 DEF Rising, SameTransfer
    <2> QED BY <1>6, <2>2 DEF SameTransfer
<1> QED BY <1>3, <1>8, <1>9, <1>10

\* A block the accounts have passed has no transfer of a body with fresh nonces.
LEMMA FreshApart ==
    ASSUME DataInv, NonceRoom, step = "root", Rising(blk.transactions), NEW b, Above(accounts, b)
    PROVE  Apart(b, blk)
<1> DEFINE txs == blk.transactions
<1>1. txs \in Seq(Transactions) /\ accounts \in AccountMaps
    BY BlockItems DEF DataInv, AccountsTyped
<1>2. \A l \in 1 .. Len(txs) : txs[l].nonce \in Nat
    <2>1. \A t \in Transactions : t.nonce \in Nat
        BY AmountAssumption DEF Transactions, Uint64
    <2> HIDE DEF txs
    <2> QED BY <1>1, <2>1, ElementOfSeq
<1>3. \A x \in DOMAIN accounts : accounts[x].nonce \in Nat
    BY <1>1, NoncesNat
<1> SUFFICES ASSUME NEW j \in 1 .. Len(b.transactions), NEW l \in 1 .. Len(txs),
                    SameTransfer(b.transactions[j], txs[l])
             PROVE  FALSE
    BY DEF Apart
<1> DEFINE t == b.transactions[j]
<1>4. t.op = "Append" /\ t.sender = txs[l].sender /\ t.nonce = txs[l].nonce
    BY DEF SameTransfer
<1>5. t.sender \in DOMAIN accounts /\ t.nonce < accounts[t.sender].nonce
    BY <1>4 DEF Above
<1> HIDE DEF t
<1>6. txs[l].nonce > accounts[t.sender].nonce
    BY <1>4, <1>5, RisesAbove DEF StartOf
<1> HIDE DEF txs
<1> QED BY <1>2, <1>3, <1>4, <1>5, <1>6

\* Steps that leave the stored chain and what is being written alone.
LEMMA ReplayFrame ==
    ASSUME ReplayInv, threw' = threw \/ threw', UNCHANGED <<diskState, diskBlocks, diskAccounts>>,
           step' \in Writing => step \in Writing /\ UNCHANGED <<accounts, blk>>
    PROVE  ReplayInv'
BY DEF ReplayInv, StoredBelow, StoredOnce

\* Every step keeps it, as long as there is room for the nonces.
LEMMA ReplayStep ==
    ReplayInv /\ NonceRoom /\ RootInv /\ RootInv' /\ NonceInv /\ DataInv /\ DataInv' /\ ChainInv /\ [Next]_vars
        => ReplayInv'
<1> SUFFICES ASSUME ReplayInv, NonceRoom, RootInv, RootInv', NonceInv, DataInv, DataInv', ChainInv, [Next]_vars
             PROVE  ReplayInv'
    OBVIOUS
<1>1. CASE Submit \/ transaction_pool_waiting_count \/ PackageHeader \/ UpdateConnector
    <2>1. UNCHANGED <<diskState, diskBlocks, diskAccounts, threw>> /\ step' \notin Writing
        BY <1>1 DEF Submit, transaction_pool_waiting_count, PackageHeader, UpdateConnector, Writing, ledgerVars,
                    storeVars, diskVars
    <2> QED BY <2>1, ReplayFrame
<1>2. CASE PackagerNext /\ UNCHANGED <<storeVars, submits>>
    <2>1. UNCHANGED <<diskState, diskBlocks, diskAccounts, threw>> /\ step' \notin Writing
        BY <1>2, PackagerFrame, PackagerIsQuiet DEF ChainInv, Quiet, Writing, ledgerVars, storeVars, diskVars
    <2> QED BY <2>1, ReplayFrame
<1>3. CASE PackageRoot /\ UNCHANGED <<queueVars, packVars, storeVars, submits>>
    <2>1. step = "root" /\ UNCHANGED <<diskState, diskBlocks, diskAccounts>>
        BY <1>3 DEF PackageRoot, storeVars, diskVars
    <2>2. CASE InsertBlock(blk) /\ step' = "packed" /\ UNCHANGED blk
        <3>1. threw' = threw
            BY <2>2 DEF InsertBlock
        <3> SUFFICES ASSUME ~threw PROVE ReplayInv'
            BY <3>1 DEF ReplayInv
        <3>2. /\ accounts' \in AccountMaps /\ NotBelow(accounts, accounts')
              /\ Above(accounts', blk) /\ Once(blk)
            BY <2>1, <2>2, InsertPasses
        <3>3. RootOf(diskAccounts) = RootOf(accounts) /\ accounts \in AccountMaps /\ diskAccounts \in AccountMaps
            BY <2>1 DEF RootInv, Quiet, DataInv, AccountsTyped
        <3>4. diskState # NoState
            BY <2>1 DEF ChainInv, StateStored
        <3>5. StoredBelow(diskAccounts) /\ StoredOnce
            BY <3>4 DEF ReplayInv
        <3>6. ASSUME NEW i \in 1 .. diskState.height
              PROVE  Above(accounts, diskBlocks[i]) /\ Above(accounts', diskBlocks[i]) /\ Apart(diskBlocks[i], blk)
            <4>1. Above(diskAccounts, diskBlocks[i])
                BY <3>5 DEF StoredBelow
            <4>2. Above(accounts, diskBlocks[i])
                BY <3>3, <4>1, RootNonces, AboveKept
            <4>3. Above(accounts', diskBlocks[i])
                BY <3>2, <3>3, <4>2, AboveKept
            <4>4. Rising(blk.transactions)
                BY <2>1 DEF NonceInv, RisingInv
            <4> QED BY <2>1, <4>2, <4>3, <4>4, FreshApart
        <3>7. StoredBelow(diskAccounts)' /\ StoredOnce'
            BY <2>1, <3>5 DEF StoredBelow, StoredOnce
        <3>8. StoredBelow(accounts)' /\ Above(accounts, blk)' /\ Once(blk)'
              /\ (\A i \in 1 .. diskState.height : Apart(diskBlocks[i], blk))'
            BY <2>1, <2>2, <3>2, <3>6 DEF StoredBelow
        <3> QED BY <3>7, <3>8 DEF ReplayInv
    <2>3. CASE step' = "idle" /\ (threw' = threw \/ threw')
        BY <2>1, <2>3, ReplayFrame DEF Writing
    <2> QED BY <1>3, <2>2, <2>3 DEF PackageRoot, InsertThrows, ledgerVars
<1>4. CASE TotalRollback /\ UNCHANGED <<queueVars, packVars, storeVars, submits>>
    <2>1. UNCHANGED <<diskState, diskBlocks, diskAccounts, threw>> /\ step' \notin Writing
        BY <1>4 DEF TotalRollback, RolledBack, Writing, storeVars, diskVars
    <2> QED BY <2>1, ReplayFrame
<1>5. CASE GenesisState
    <2>1. step' = "genesisBlock" /\ diskState'.height = 0
        BY <1>5 DEF GenesisState
    <2>2. StoredBelow(diskAccounts)' /\ StoredOnce'
        BY <2>1 DEF StoredBelow, StoredOnce
    <2> QED BY <2>1, <2>2 DEF ReplayInv, Writing
<1>6. CASE GenesisBlock
    <2>1. /\ step = "genesisBlock" /\ step' = "idle" /\ UNCHANGED <<diskState, diskAccounts, threw>>
          /\ \E b : diskBlocks' = Put(diskBlocks, 0, b)
        BY <1>6 DEF GenesisBlock, ledgerVars
    <2>2. diskState # NoState /\ \A i \in 1 .. diskState.height : diskBlocks'[i] = diskBlocks[i]
        BY <2>1 DEF Put, ChainInv, StateStored
    <2>3. StoredBelow(diskAccounts) => StoredBelow(diskAccounts)'
        BY <2>1, <2>2 DEF StoredBelow
    <2>4. StoredOnce => StoredOnce'
        BY <2>1, <2>2 DEF StoredOnce
    <2> QED BY <2>1, <2>2, <2>3, <2>4 DEF ReplayInv, Writing
<1>7. CASE CommitExtensions \/ CommitFilter
    <2>1. UNCHANGED <<diskState, diskBlocks, diskAccounts, threw, accounts, blk>> /\ step \in Writing
        BY <1>7 DEF CommitExtensions, CommitFilter, Writing
    <2> QED BY <2>1, ReplayFrame
<1>8. CASE CommitAccounts
    <2>1. /\ step = "accounts" /\ step' = "filter" /\ UNCHANGED <<diskState, diskBlocks, threw, accounts, blk>>
        BY <1>8 DEF CommitAccounts
    <2> SUFFICES ASSUME ~threw PROVE ReplayInv'
        BY <2>1 DEF ReplayInv
    <2>2. /\ StoredBelow(accounts) /\ Above(accounts, blk) /\ Once(blk)
          /\ \A i \in 1 .. diskState.height : Apart(diskBlocks[i], blk)
        BY <2>1 DEF ReplayInv, Writing
    <2>3. StoredOnce
        BY <2>1 DEF ReplayInv, ChainInv, StateStored
    <2>4. RootOf(accounts') = RootOf(diskAccounts') /\ accounts' \in AccountMaps /\ diskAccounts' \in AccountMaps
        BY <2>1 DEF RootInv, Quiet, DataInv, AccountsTyped
    <2>5. NotBelow(accounts', diskAccounts')
        BY <2>4, RootNonces
    <2>6. \A i \in 1 .. diskState.height : Above(accounts', diskBlocks[i])
        BY <2>1, <2>2 DEF StoredBelow
    <2>7. \A i \in 1 .. diskState.height : Above(diskAccounts', diskBlocks[i])
        BY <2>4, <2>5, <2>6, AboveKept
    <2>8. StoredBelow(diskAccounts)' /\ StoredBelow(accounts)'
        BY <2>1, <2>6, <2>7 DEF StoredBelow
    <2>9. StoredOnce' /\ (Above(accounts, blk) /\ Once(blk))' /\ (\A i \in 1 .. diskState.height : Apart(diskBlocks[i], blk))'
        BY <2>1, <2>2, <2>3 DEF StoredOnce
    <2> QED BY <2>8, <2>9 DEF ReplayInv
<1>9. CASE SaveBlock
    <2>1. /\ step = "block" /\ step' = "state" /\ UNCHANGED <<blk, accounts, threw, diskState, diskAccounts>>
          /\ diskBlocks' = Put(diskBlocks, blk.height, blk)
        BY <1>9 DEF SaveBlock, ledgerVars
    <2>2. diskState # NoState /\ diskState.height \in Nat /\ blk.height = diskState.height + 1
        BY <2>1 DEF ChainInv, StateStored, WritingAhead, Writing
    <2>3. \A i \in 1 .. diskState.height : diskBlocks'[i] = diskBlocks[i]
        BY <2>1, <2>2 DEF Put, ChainInv, StateStored
    <2>4. (StoredBelow(diskAccounts) => StoredBelow(diskAccounts)') /\ (StoredBelow(accounts) => StoredBelow(accounts)')
        BY <2>1, <2>3 DEF StoredBelow
    <2>5. StoredOnce => StoredOnce'
        BY <2>1, <2>3 DEF StoredOnce
    <2>6. (\A i \in 1 .. diskState.height : Apart(diskBlocks[i], blk))
              => (\A i \in 1 .. diskState.height : Apart(diskBlocks[i], blk))'
        BY <2>1, <2>3
    <2>7. (Above(accounts, blk) /\ Once(blk)) => (Above(accounts, blk) /\ Once(blk))'
        BY <2>1
    <2> QED BY <2>1, <2>2, <2>4, <2>5, <2>6, <2>7 DEF ReplayInv, Writing
<1>10. CASE SaveState
    <2>1. /\ step = "state" /\ step' = "idle" /\ UNCHANGED <<accounts, threw, diskBlocks, diskAccounts>>
          /\ diskState' = [height |-> blk.height, top |-> blk.id]
        BY <1>10 DEF SaveState, ledgerVars
    <2> SUFFICES ASSUME ~threw PROVE ReplayInv'
        BY <2>1 DEF ReplayInv
    <2>2. /\ diskState # NoState /\ diskState.height \in Nat /\ blk.height = diskState.height + 1
          /\ diskBlocks[blk.height] = blk
        BY <2>1 DEF ChainInv, StateStored, WritingAhead, Writing, BlockFirst
    <2> DEFINE n == diskState.height
    <2>3. diskState'.height = n + 1 /\ diskBlocks[n + 1] = blk /\ n \in Nat
        BY <2>1, <2>2
    <2>4. /\ StoredBelow(accounts) /\ Above(accounts, blk) /\ Once(blk) /\ StoredOnce /\ StoredBelow(diskAccounts)
          /\ \A i \in 1 .. n : Apart(diskBlocks[i], blk)
        BY <2>1, <2>2 DEF ReplayInv, Writing
    <2>5. Above(diskAccounts, blk)
        <3>1. RootOf(accounts) = RootOf(diskAccounts) /\ accounts \in AccountMaps /\ diskAccounts \in AccountMaps
            BY <2>1 DEF RootInv, Quiet, DataInv, AccountsTyped
        <3>2. NotBelow(accounts, diskAccounts)
            BY <3>1, RootNonces
        <3> QED BY <2>4, <3>1, <3>2, AboveKept
    <2>6. \A i \in 1 .. n + 1 : i \in 1 .. n \/ i = n + 1
        BY <2>3
    <2>7. \A i \in 1 .. n : Above(diskAccounts, diskBlocks[i]) /\ Once(diskBlocks[i])
        BY <2>4 DEF StoredBelow, StoredOnce
    <2>8. \A i, k \in 1 .. n : i # k => Apart(diskBlocks[i], diskBlocks[k])
        BY <2>4 DEF StoredOnce
    <2>9. \A i \in 1 .. n : Apart(blk, diskBlocks[i])
        BY <2>4 DEF Apart, SameTransfer
    <2> HIDE DEF n
    <2>10. \A i \in 1 .. n + 1 : Above(diskAccounts, diskBlocks[i]) /\ Once(diskBlocks[i])
        BY <2>3, <2>4, <2>5, <2>6, <2>7
    <2>11. \A i, k \in 1 .. n + 1 : i # k => Apart(diskBlocks[i], diskBlocks[k])
        BY <2>3, <2>4, <2>6, <2>8, <2>9
    <2>12. StoredBelow(diskAccounts)' /\ StoredOnce'
        BY <2>1, <2>3, <2>10, <2>11 DEF StoredBelow, StoredOnce
    <2> QED BY <2>1, <2>12 DEF ReplayInv, Writing
<1>11. CASE Restart /\ LosePool
    <2>1. UNCHANGED <<diskState, diskBlocks, diskAccounts, threw>> /\ step' \notin Writing
        BY <1>11 DEF Restart, diskVars, Writing
    <2> QED BY <2>1, ReplayFrame
<1>12. CASE UNCHANGED vars
    <2>1. UNCHANGED <<diskState, diskBlocks, diskAccounts, threw, accounts, blk, step>>
        BY <1>12 DEF vars, ledgerVars, storeVars, diskVars
    <2> QED BY <2>1, ReplayFrame
<1> QED BY <1>1, <1>2, <1>3, <1>4, <1>5, <1>6, <1>7, <1>8, <1>9, <1>10, <1>11, <1>12 DEF Next, StoreNext

\* Where the program stops: a total_rollback that does not find the old root leaves the
\* block that was about to be written, and a restart stands where the disk does.
StoppedInv ==
    /\ ~threw /\ step = "failed" => Once(blk) /\ \A i \in 1 .. diskState.height : Apart(diskBlocks[i], blk)
    /\ step = "damaged" => height = diskState.height

\* Every step keeps that.
LEMMA StoppedStep == StoppedInv /\ ReplayInv /\ ChainInv /\ [Next]_vars => StoppedInv'
<1> SUFFICES ASSUME StoppedInv, ReplayInv, ChainInv, [Next]_vars PROVE StoppedInv'
    OBVIOUS
<1>1. ASSUME step' \notin {"failed", "damaged"} PROVE StoppedInv'
    BY <1>1 DEF StoppedInv
<1>2. CASE Submit \/ transaction_pool_waiting_count \/ PackageHeader \/ UpdateConnector
    <2>1. step' \notin {"failed", "damaged"}
        BY <1>2 DEF Submit, transaction_pool_waiting_count, PackageHeader, UpdateConnector
    <2> QED BY <1>1, <2>1
<1>3. CASE PackagerNext /\ UNCHANGED <<storeVars, submits>>
    <2>1. step' \notin {"failed", "damaged"}
        BY <1>3, PackagerIsQuiet DEF ChainInv, Quiet
    <2> QED BY <1>1, <2>1
<1>4. CASE GenesisState \/ GenesisBlock \/ CommitExtensions \/ CommitAccounts \/ CommitFilter \/ SaveBlock \/ SaveState
    <2>1. step' \notin {"failed", "damaged"}
        BY <1>4 DEF GenesisState, GenesisBlock, CommitExtensions, CommitAccounts, CommitFilter, SaveBlock, SaveState
    <2> QED BY <1>1, <2>1
<1>5. CASE PackageRoot /\ UNCHANGED <<queueVars, packVars, storeVars, submits>>
    <2>1. step' \notin {"failed", "damaged"}
        BY <1>5 DEF PackageRoot
    <2> QED BY <1>1, <2>1
<1>6. CASE TotalRollback /\ UNCHANGED <<queueVars, packVars, storeVars, submits>>
    <2>1. step = "packed" /\ UNCHANGED <<diskState, diskBlocks, threw>> /\ (step' = "idle" \/ (step' = "failed" /\ blk' = blk))
        BY <1>6 DEF TotalRollback, RolledBack, storeVars, diskVars
    <2>2. ~threw => Once(blk) /\ \A i \in 1 .. diskState.height : Apart(diskBlocks[i], blk)
        BY <2>1 DEF ReplayInv, Writing
    <2> QED BY <2>1, <2>2 DEF StoppedInv
<1>7. CASE Restart /\ LosePool
    <2>1. step' \in {"genesis", "idle"} \/ (step' = "damaged" /\ height' = diskState.height /\ UNCHANGED diskState)
        BY <1>7 DEF Restart, diskVars
    <2> QED BY <2>1 DEF StoppedInv
<1>8. CASE UNCHANGED vars
    <2>1. UNCHANGED <<diskState, diskBlocks, threw, height, blk, step>>
        BY <1>8 DEF vars, ledgerVars, storeVars, diskVars
    <2> QED BY <2>1 DEF StoppedInv
<1> QED BY <1>2, <1>3, <1>4, <1>5, <1>6, <1>7, <1>8 DEF Next, StoreNext

\* What the invariants say of the chain the accounts in memory belong to.
LEMMA ReplayMeans == ReplayInv /\ StoppedInv /\ ChainInv => NoReplay
<1> SUFFICES ASSUME ReplayInv, StoppedInv, ChainInv, ~threw PROVE NoReplay
    BY DEF NoReplay
<1> DEFINE chain == InMemory
           n == Len(chain)
<1>2. /\ n \in Nat /\ \A i \in 1 .. n : Once(chain[i])
      /\ \A i, k \in 1 .. n : i # k => Apart(chain[i], chain[k])
    <2>1. CASE diskState = NoState
        BY <2>1 DEF InMemory, Durable
    <2>2. CASE diskState # NoState
        <3> DEFINE h == diskState.height
        <3>1. h \in Nat /\ Len(Durable) = h /\ \A i \in 1 .. h : Durable[i] = diskBlocks[i]
            BY <2>2, DurableSeq DEF ChainInv, StateStored
        <3>2. (\A i \in 1 .. h : Once(diskBlocks[i])) /\ \A i, k \in 1 .. h : i # k => Apart(diskBlocks[i], diskBlocks[k])
            BY <2>2 DEF ReplayInv, StoredOnce
        <3>3. CASE height > h
            <4>1. step \in Writing \cup {"failed"}
                BY <2>2, <3>1, <3>3 DEF StoppedInv, ChainInv, StateStored, QuietAgrees, Quiet, Writing, Steps
            <4>2. chain = Append(Durable, blk)
                BY <2>2, <3>3 DEF InMemory
            <4>3. Durable \in Seq({diskBlocks[i] : i \in 1 .. h})
                BY <3>1, <2>2 DEF Durable, ChainInv, StateStored
            <4>4. n = h + 1 /\ chain[h + 1] = blk /\ \A i \in 1 .. h : chain[i] = diskBlocks[i]
                BY <3>1, <4>2, <4>3
            <4>5. Once(blk) /\ \A i \in 1 .. h : Apart(diskBlocks[i], blk)
                BY <4>1 DEF ReplayInv, StoppedInv
            <4>6. \A i \in 1 .. h : Apart(blk, diskBlocks[i])
                BY <4>5 DEF Apart, SameTransfer
            <4>7. \A i \in 1 .. h + 1 : i \in 1 .. h \/ i = h + 1
                BY <3>1
            <4> HIDE DEF chain, n, h
            <4> QED BY <3>1, <3>2, <4>4, <4>5, <4>6, <4>7
        <3>4. CASE ~(height > h)
            <4>2. chain = Durable
                BY <3>4 DEF InMemory
            <4> HIDE DEF chain, h
            <4> QED BY <3>1, <3>2, <4>2 DEF n
        <3> QED BY <3>3, <3>4
    <2> QED BY <2>1, <2>2
<1> HIDE DEF chain, n
<1>3. ASSUME NEW i \in 1 .. n, NEW k \in 1 .. n, NEW j \in 1 .. Len(chain[i].transactions),
             NEW l \in 1 .. Len(chain[k].transactions),
             SameTransfer(chain[i].transactions[j], chain[k].transactions[l])
      PROVE  i = k /\ j = l
    <2>1. i = k
        BY <1>2, <1>3 DEF Apart
    <2> QED BY <1>2, <1>3, <2>1 DEF Once
<1> QED BY <1>3 DEF NoReplay, SameTransfer, chain, n

\* No transfer is in the chain twice, however often it is submitted and put back and
\* wherever a crash falls, also between the accounts and the state, as long as no
\* insertion has thrown and no nonce comes to the end of a uint64_t: the nonces start
\* again from 0 there.
THEOREM NoTransferTwice == Spec /\ []NonceRoom => []NoReplay
<1>1. Init => ReplayInv /\ StoppedInv
    BY DEF Init, ReplayInv, StoppedInv, Writing
<1>2. ReplayInv /\ StoppedInv /\ ChainInv => NoReplay
    BY ReplayMeans
<1> QED BY <1>1, <1>2, ReplayStep, StoppedStep, RootInvariant, NonceInvariant, DataInvariant, ChainInvariant, PTL DEF Spec
=============================================================================
