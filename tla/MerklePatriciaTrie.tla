-------------------------- MODULE MerklePatriciaTrie --------------------------
(***************************************************************************)
(* The trie of the accounts (include/db/merkle_patricia_trie.hpp and the   *)
(* node types it uses): insert, search, erase, the root hash, the change   *)
(* store that becomes a LevelDB batch, and the nodes read back one by one  *)
(* when they are first visited.                                            *)
(*                                                                         *)
(* A key is a sequence of digits.  A node is named by its key, the digits  *)
(* from the root to it; the root has the empty key (in the code the key of *)
(* 64 zeros, which no account may have).  The sum of the children's hashes *)
(* that sha3 is applied to is modelled by their set.                       *)
(***************************************************************************)
EXTENDS Integers, Sequences, FiniteSets, SequencesExt

CONSTANTS
    Keys,        \* addresses of accounts
    Values,      \* contents of accounts
    MaxOps       \* bound: changes between two commits

Root   == <<>>
KeyLen == Len(CHOOSE k \in Keys : TRUE)

ASSUME TrieAssumption ==
    /\ Keys \subseteq Seq(Nat) /\ Keys # {} /\ \A k \in Keys : Len(k) = KeyLen /\ KeyLen > 0
    /\ MaxOps \in Nat

VARIABLES
    nodes,       \* the nodes in memory
    accounts,    \* the values of the leaves
    changes,     \* extension_nodes
    packaged,    \* extensions: the batch of the block to be committed, if any
    disk,        \* extensions_db
    stored,      \* accounts_db, for the keys that have a leaf
    ops,         \* history: changes since the last commit
    outdated,    \* history: entries of the change store an erase has left behind
    dirty        \* history: such entries on the disk

vars == <<nodes, accounts, changes, packaged, disk, stored, ops, outdated, dirty>>

IsLeaf(n) == Len(n) = KeyLen
Drop(s, m) == SubSeq(s, m + 1, Len(s))
Override(f, g) == [x \in DOMAIN f \cup DOMAIN g |-> IF x \in DOMAIN g THEN g[x] ELSE f[x]]
Without(f, S) == [x \in DOMAIN f \ S |-> f[x]]
Only(x, y) == [z \in {x} |-> y]

LeafHash(k, v) == [account |-> <<k, v>>, sum |-> {}]
NodeHash(S)    == [account |-> <<>>, sum |-> S]

Leaf(sub)             == [sub |-> sub, kids |-> <<>>, modified |-> TRUE, hash |-> NodeHash({})]
ExtensionNode(sub, kids) == [sub |-> sub, kids |-> kids, modified |-> TRUE, hash |-> NodeHash({})]

\* to_mpt_node_storage and mns_to_mnp; values is the list of the children.
Storage(node, op) == [sub |-> node.sub, kids |-> node.kids, hash |-> node.hash, op |-> op]
FromStorage(s)    == [sub |-> s.sub, kids |-> s.kids, modified |-> FALSE, hash |-> s.hash]

\* load_node_from_leveldb.
Node(n) == IF n \in DOMAIN nodes THEN nodes[n] ELSE FromStorage(disk[n])
Loaded(S) == [n \in DOMAIN nodes \cup S |-> Node(n)]

\* The constructor on an empty database.
Init ==
    LET root == [ExtensionNode(<<>>, <<>>) EXCEPT !.modified = FALSE]
    IN  /\ nodes = Only(Root, root)
        /\ disk = Only(Root, Storage(root, "put"))
        /\ changes = Only(Root, Storage(root, "put"))
        /\ accounts = <<>> /\ stored = <<>> /\ packaged = <<>>
        /\ ops = 0 /\ outdated = {} /\ dirty = {}

-----------------------------------------------------------------------------
(* The way down, the same in insert, search, find and erase *)

CommonLength(s, t) ==
    CHOOSE m \in 0 .. Len(s) :
        /\ m <= Len(t) /\ SubSeq(s, 1, m) = SubSeq(t, 1, m)
        /\ m = Len(s) \/ m = Len(t) \/ s[m + 1] # t[m + 1]

\* One level: the child under the next digit, and its sub_key digit by digit.
Descend(k, w) ==
    LET rest == Drop(k, w.i)
        kids == Node(w.at).kids
        c    == kids[rest[1]]
        m    == CommonLength(Node(c).sub, rest)
    IN  IF w.status # "down" THEN w
        ELSE IF rest[1] \notin DOMAIN kids THEN [w EXCEPT !.status = "absent"]
        ELSE IF m < Len(Node(c).sub) THEN [w EXCEPT !.status = "differs", !.next = c, !.m = m]
        ELSE IF m = Len(rest) THEN [w EXCEPT !.status = "found", !.next = c, !.m = m]
        ELSE [w EXCEPT !.at = c, !.i = @ + m, !.above = Append(@, w.at)]

\* Where the walk ends: at a node, with `above` the nodes over it.
Walk(k) ==
    FoldLeft(LAMBDA w, x : Descend(k, w),
             [status |-> "down", at |-> Root, i |-> 0, above |-> <<>>, next |-> Root, m |-> 0],
             [x \in 1 .. KeyLen |-> x])

OnWalk(w) == ToSet(w.above) \cup {w.at, w.next}
Marked(ns, S) == [n \in DOMAIN ns |-> IF n \in S THEN [ns[n] EXCEPT !.modified = TRUE] ELSE ns[n]]

\* A change of the next block, or one that takes a packaged block back (no block
\* erases an account that is stored, so none has to be put back).
Change ==
    /\ \/ packaged = <<>> /\ ops < MaxOps /\ ops' = ops + 1
       \/ packaged # <<>> /\ DOMAIN stored \subseteq DOMAIN accounts /\ UNCHANGED ops
    /\ UNCHANGED <<packaged, disk, stored, dirty>>

\* The entries of S are written again with the nodes' present contents.
Record(ns, S, op) == [n \in S |-> Storage(ns[n], op)]

-----------------------------------------------------------------------------
(* Operations *)

\* insert: a new leaf under a node ...
InsertLeaf(k, v) ==
    LET w   == Walk(k)
        ns  == Override(Loaded(OnWalk(w)), Only(k, Leaf(Drop(k, w.i))))
        ns2 == [ns EXCEPT ![w.at].kids = Override(@, Only(k[w.i + 1], k))]
    IN  /\ w.status = "absent"
        /\ changes' = Override(Override(changes, Record(ns2, {w.at}, "put")),
                               Record(ns2, {k}, "put"))
        /\ nodes' = Marked(ns2, ToSet(w.above) \cup {w.at})
        /\ outdated' = outdated \ {w.at, k}
        /\ accounts' = Override(accounts, Only(k, v))

\* ... or a new node e for the digits the key has in common with a child c,
\* over that child and the new leaf.
InsertSplit(k, v) ==
    LET w    == Walk(k)
        c    == w.next
        e    == SubSeq(k, 1, w.i + w.m)
        rest == Drop(Node(c).sub, w.m)
        ns   == Override(Loaded(OnWalk(w)),
                    [n \in {k, e} |->
                        IF n = k THEN Leaf(Drop(k, w.i + w.m))
                        ELSE ExtensionNode(SubSeq(Node(c).sub, 1, w.m),
                                 [d \in {k[w.i + w.m + 1], rest[1]} |->
                                     IF d = rest[1] THEN c ELSE k])])
        ns2  == [ns EXCEPT ![c].sub = rest, ![w.at].kids = Override(@, Only(k[w.i + 1], e))]
    IN  /\ w.status = "differs"
        /\ changes' = Override(Override(changes, Record(ns2, {w.at, c}, "put")),
                               Record(ns2, {e, k}, "put"))
        /\ nodes' = Marked(ns2, ToSet(w.above) \cup {w.at})
        /\ outdated' = outdated \ {w.at, c, e, k}
        /\ accounts' = Override(accounts, Only(k, v))

\* The next block is inserted when the last is committed or taken back.
Insert(k, v) == packaged = <<>> /\ Change /\ (InsertLeaf(k, v) \/ InsertSplit(k, v))

\* search_and_mark, and the caller's change of the account it returns.
Update(k, v) ==
    LET w == Walk(k)
    IN  /\ Change
        /\ w.status = "found" /\ accounts[k] # v
        /\ packaged # <<>> => k \in DOMAIN stored /\ v = stored[k]
        /\ nodes' = Marked(Loaded(OnWalk(w)), ToSet(w.above) \cup {w.at})
        /\ accounts' = [accounts EXCEPT ![k] = v]
        /\ UNCHANGED <<changes, outdated>>

\* find, search, and an insert of a key that is there: nodes are loaded.
Search(k) ==
    /\ OnWalk(Walk(k)) \ DOMAIN nodes # {}
    /\ nodes' = Loaded(OnWalk(Walk(k)))
    /\ UNCHANGED <<accounts, changes, packaged, disk, stored, ops, outdated, dirty>>

\* erase, when the leaf's parent is the root: the root is recorded.
EraseUnderRoot(k, w, ns) ==
    LET left == [Without(ns, {k}) EXCEPT ![Root].kids = Without(@, {k[1]})]
    IN  /\ w.at = Root
        /\ changes' = Override(changes, [n \in {k, Root} |->
               IF n = k THEN Storage(ns[k], "delete") ELSE Storage(left[Root], "put")])
        /\ nodes' = Marked(left, {Root})
        /\ outdated' = outdated \ {k, Root}

\* ... when one brother is left: it takes the place of the parent.
EraseMerging(k, w, ns) ==
    LET p == w.at
        g == Last(w.above)
        b == CHOOSE c \in Range(ns[p].kids) : c # k
        loaded == Override(ns, Only(b, Node(b)))
        left == [Without(loaded, {k, p}) EXCEPT
                     ![b].sub = ns[p].sub \o @, ![g].kids = [@ EXCEPT ![ns[p].sub[1]] = b]]
    IN  /\ p # Root /\ Cardinality(DOMAIN ns[p].kids) = 2
        /\ changes' = Override(Override(changes, [n \in {k, p} |-> Storage(ns[n], "delete")]),
                               Record(left, {b, g}, "put"))
        /\ nodes' = Marked(left, ToSet(w.above) \cup {b})
        /\ outdated' = outdated \ {k, p, b, g}

\* ... when more are left: the parent changes and is not recorded.
EraseAmongMany(k, w, ns) ==
    LET p == w.at
    IN  /\ p # Root /\ Cardinality(DOMAIN ns[p].kids) > 2
        /\ changes' = Override(changes, Only(k, Storage(ns[k], "delete")))
        /\ nodes' = Marked([Without(ns, {k}) EXCEPT ![p].kids = Without(@, {k[w.i + 1]})],
                           ToSet(w.above) \cup {p})
        /\ outdated' = (outdated \ {k}) \cup ({p} \cap DOMAIN changes)

Erase(k) ==
    LET w  == Walk(k)
        ns == Loaded(OnWalk(w))
    IN  /\ Change
        /\ w.status = "found"
        /\ packaged # <<>> => k \notin DOMAIN stored
        /\ \/ EraseUnderRoot(k, w, ns)
           \/ EraseMerging(k, w, ns)
           \/ EraseAmongMany(k, w, ns)
        /\ accounts' = Without(accounts, {k})

-----------------------------------------------------------------------------
(* get_hash: the modified nodes under modified nodes, from below *)

\* Mutant of Visited: only the root is hashed again.
VisitedRoot(ns) == {n \in {Root} : ns[n].modified}

Visited(ns) == {n \in DOMAIN ns : /\ ~IsLeaf(n)
                                  /\ \A a \in DOMAIN ns : IsPrefix(a, n) => ns[a].modified}

Seen(ns) == UNION {Range(ns[n].kids) : n \in Visited(ns)}

HashedNodes(ns) ==
    LET hash[n \in DOMAIN ns] ==
            IF IsLeaf(n) THEN LeafHash(n, accounts[n])
            ELSE IF n \in Visited(ns) THEN NodeHash({hash[c] : c \in Range(ns[n].kids)})
            ELSE ns[n].hash
    IN  [n \in DOMAIN ns |->
            IF n \in Visited(ns) THEN [ns[n] EXCEPT !.modified = FALSE, !.hash = hash[n]]
            ELSE IF n \in Seen(ns) THEN [ns[n] EXCEPT !.modified = FALSE]
            ELSE ns[n]]

\* The children of the nodes it visits are loaded.
ToHash == Loaded(Seen(nodes))

\* A node that is recorded only gets its new hash; one that is not is recorded.
HashedChanges(ns) ==
    LET seen == Visited(ToHash)
        entry(n) == IF n \in DOMAIN changes THEN [changes[n] EXCEPT !.hash = ns[n].hash]
                    ELSE Storage(ns[n], "put")
    IN  Override(changes, [n \in seen |-> entry(n)])

GetHash ==
    /\ nodes[Root].modified
    /\ nodes' = HashedNodes(ToHash)
    /\ changes' = HashedChanges(nodes')
    /\ UNCHANGED <<accounts, packaged, disk, stored, ops, outdated, dirty>>

\* package_next_block_MPTR: the change store becomes the block's batch.
Package ==
    /\ packaged = <<>>
    /\ changes # <<>> \/ nodes[Root].modified
    /\ nodes' = HashedNodes(ToHash)
    /\ packaged' = <<[batch |-> HashedChanges(nodes'), accounts |-> accounts, outdated |-> outdated]>>
    /\ changes' = <<>> /\ outdated' = {}
    /\ UNCHANGED <<accounts, disk, stored, ops, dirty>>

\* Mutant of Written: deleted nodes stay.
WrittenOver(batch) == Override(disk, batch)

\* commit_extensions_node_to_leveldb, and the accounts of the block, unless a
\* rollback has begun; a crash between the two batches is DurableChain's matter.
Written(batch) ==
    Override(Without(disk, DOMAIN batch),
             [n \in {x \in DOMAIN batch : batch[x].op # "delete"} |-> batch[n]])

Commit ==
    /\ packaged # <<>> /\ accounts = packaged[1].accounts
    /\ LET p == packaged[1]
       IN  /\ disk' = Written(p.batch)
           /\ dirty' = (dirty \ DOMAIN p.batch) \cup p.outdated
           /\ stored' = p.accounts
    /\ IF nodes[Root].modified
       THEN nodes' = HashedNodes(ToHash) /\ changes' = HashedChanges(nodes')
       ELSE UNCHANGED <<nodes, changes>>
    /\ packaged' = <<>>
    /\ ops' = 0
    /\ UNCHANGED <<accounts, outdated>>

\* The end of total_rollback: its erases and updates have brought the stored
\* accounts back; the change store and the batch are dropped.
ClearChanges ==
    /\ packaged # <<>> /\ accounts = stored
    /\ nodes' = HashedNodes(ToHash)
    /\ changes' = <<>> /\ outdated' = {} /\ packaged' = <<>>
    /\ ops' = 0
    /\ UNCHANGED <<accounts, disk, stored, dirty>>

\* A new process: the constructor reads the root, the rest comes when it is
\* visited.  A node on the disk that lists a child the disk does not have
\* makes the process throw when it gets there; such behaviours end here.
Restart ==
    /\ dirty = {}
    /\ DOMAIN nodes # {Root}
    /\ nodes' = Only(Root, FromStorage(disk[Root]))
    /\ accounts' = stored
    /\ changes' = <<>> /\ outdated' = {} /\ packaged' = <<>>
    /\ ops' = 0
    /\ UNCHANGED <<disk, stored, dirty>>

Next ==
    \/ \E k \in Keys, v \in Values : Insert(k, v) \/ Update(k, v)
    \/ \E k \in Keys : Search(k) \/ Erase(k)
    \/ GetHash \/ Package \/ Commit \/ ClearChanges \/ Restart

Spec == Init /\ [][Next]_vars

-----------------------------------------------------------------------------
(* The trie of a set of accounts, whatever led to it *)

KeyPrefixes == UNION {{SubSeq(k, 1, m) : m \in 0 .. KeyLen - 1} : k \in Keys}
Branching(S) ==
    {p \in KeyPrefixes : Cardinality({k[Len(p) + 1] : k \in {x \in S : IsPrefix(p, x)}}) > 1}

\* The root, a node wherever two keys part, and a leaf for each key.
Trie(f) ==
    LET inner  == {Root} \cup Branching(DOMAIN f)
        above  == [n \in inner \cup DOMAIN f |-> {p \in inner \ {n} : IsPrefix(p, n)}]
        parent == [n \in DOMAIN above \ {Root} |->
                       CHOOSE p \in above[n] : \A q \in above[n] : Len(q) <= Len(p)]
        kids   == [n \in DOMAIN above |-> {c \in DOMAIN parent : parent[c] = n}]
        hash[n \in DOMAIN above] ==
            IF IsLeaf(n) THEN LeafHash(n, f[n]) ELSE NodeHash({hash[c] : c \in kids[n]})
    IN  [n \in DOMAIN above |->
            [sub  |-> IF n = Root THEN <<>> ELSE Drop(n, Len(parent[n])),
             kids |-> kids[n],
             hash |-> hash[n]]]

\* A node of memory or disk is the node t of such a trie.
SameNode(node, n, t) ==
    /\ node.sub = t.sub
    /\ Range(node.kids) = t.kids
    /\ \A d \in DOMAIN node.kids : node.kids[d][Len(n) + 1] = d

-----------------------------------------------------------------------------
(* Properties *)

\* The trie in memory depends on the accounts alone, not on the inserts, splits,
\* erases, merges, loads and restarts that led to it: every key is found exactly
\* when it has an account, every node in memory is the one of the trie of these
\* accounts, and once get_hash has run the root hash is the hash of that trie.
Canonical ==
    LET trie == Trie(accounts)
    IN  /\ \A k \in Keys : (Walk(k).status = "found") <=> (k \in DOMAIN accounts)
        /\ \A n \in DOMAIN nodes : n \in DOMAIN trie /\ SameNode(nodes[n], n, trie[n])
        /\ ~nodes[Root].modified => nodes[Root].hash = trie[Root].hash

\* What a commit leaves on the disk is the trie of the stored accounts, each node
\* with its children and its hash and no node besides, so that a new process
\* finds the same accounts and the same root; except for the nodes whose entry in
\* the change store was written before an erase that left two or more brothers.
DiskFaithful ==
    LET trie == Trie(stored)
    IN  /\ DOMAIN disk = DOMAIN trie
        /\ \A n \in DOMAIN disk :
               /\ n \notin dirty => SameNode(disk[n], n, trie[n])
               /\ ~IsLeaf(n) => disk[n].hash = trie[n].hash
=============================================================================
