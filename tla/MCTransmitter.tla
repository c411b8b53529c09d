---------------------------- MODULE MCTransmitter ----------------------------
(* Instance of TransmitterExchange for TLC: see MCTransmitter_all.cfg. *)
EXTENDS TransmitterExchange
=============================================================================
