--------------------------- MODULE MCConnections ---------------------------
(* Connections with interchangeable clients. *)
EXTENDS Connections, TLC

Symmetry == Permutations(Peers)
=============================================================================
