---------------------------- MODULE MCRpcExchange ----------------------------
(* Instances of RpcExchange for TLC: see the MCRpcExchange_*.cfg files. *)
EXTENDS RpcExchange
=============================================================================
