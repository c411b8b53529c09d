---------------------------- MODULE MCTimerWheel ----------------------------
(* Instance of TimerWheel for TLC: see MCTimerWheel_all.cfg. *)
EXTENDS TimerWheel

MCSize == <<4, 2, 2, 2, 2>>
=============================================================================
