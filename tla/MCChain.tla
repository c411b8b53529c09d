------------------------------ MODULE MCChain ------------------------------
(* Instances of Chain for TLC. *)
EXTENDS Chain

Transfer(s, n, a, c, r) ==
    [op |-> "Append", sender |-> s, nonce |-> n, asset |-> a, count |-> c,
     outs |-> <<[receiver |-> r, count |-> c]>>]
Creation(s, n, a) ==
    [op |-> "Establish", sender |-> s, nonce |-> n, asset |-> a, count |-> 0, outs |-> <<>>]
Empty == [op |-> "NullOP", sender |-> "bob", nonce |-> 1, asset |-> 1, count |-> 0, outs |-> <<>>]
Notice(x, n, t) == [owner |-> x, nonce |-> n, type |-> t]

\* An asset, two transfers of it of which it can pay one, a transfer of nothing
\* of an asset, the same asset again, another asset, and no operation.
MixedInputs == {Creation("alice", 1, 1), Transfer("alice", 2, 1, 2, "bob"),
                Transfer("alice", 3, 1, 3, "bob"), Transfer("alice", 4, 2, 0, "bob"),
                Creation("bob", 1, 1), Creation("bob", 1, 2), Empty}
MixedAffairs == {Notice("bob", 1, "MaliciousBlock"), Notice("alice", 2, "PureData")}
ShortLived == {Transfer("alice", 3, 1, 3, "bob"), Notice("alice", 2, "PureData")}

\* The same two transfers, and one that could follow either.
TransferInputs == {Creation("alice", 1, 1), Transfer("alice", 2, 1, 2, "bob"),
                   Transfer("alice", 3, 1, 3, "bob"), Transfer("alice", 3, 1, 1, "alice"),
                   Transfer("alice", 4, 1, 1, "bob")}
NoAffairs == {}

\* The inputs have the form SupplyConserved and the theorems of BalanceProofs are about.
ASSUME InputsAreWellFormed == WellFormedInputs
=============================================================================
