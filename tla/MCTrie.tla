------------------------------- MODULE MCTrie -------------------------------
(* Instance of MerklePatriciaTrie for TLC: see MCTrie_all.cfg. *)
EXTENDS MerklePatriciaTrie

MCKeys == {<<0, 0, 1>>, <<0, 1, 0>>, <<0, 1, 2>>, <<0, 2, 1>>}
=============================================================================
