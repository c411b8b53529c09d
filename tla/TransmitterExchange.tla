------------------------- MODULE TransmitterExchange -------------------------
(***************************************************************************)
(* An asynchronous remote call end to end: the Transmitter or the          *)
(* TransmitterLinkReactor, the sub-reactor of the server it calls and the  *)
(* network between them.  A packet of the server may stay in flight for   *)
(* ever, which is its loss.  The payload of a response is not looked at,   *)
(* so the reuse of its memory is left to RpcExchange.                      *)
(***************************************************************************)
EXTENDS Transmitter, MessageServer

vars == <<networkVars, clientVars, serverVars>>

Init == NetworkInit /\ TransmitterInit /\ ServerInit

ClientStep == \/ Send \/ Stop \/ StopImmediately
              \/ LoopStep \/ Timers
              \/ DecodeResponse \/ RunCallback \/ PostDelete \/ EraseActive

\* The server's packets stay within the bound: it waits while the network is full.
NetworkCarries == Cardinality(toServer') + Cardinality(toClient') <= MaxInFlight

ServerStep == \/ \E p \in toServer : ServerReceive(p)
              \/ RunTask \/ StoreResponse \/ ServerTimers

Next ==
    \/ ClientStep /\ UNCHANGED serverVars
    \/ \E p \in toClient : TransmitterReceive(p) /\ UNCHANGED serverVars
    \/ ServerStep /\ NetworkCarries /\ UNCHANGED clientVars

Spec == Init /\ [][Next]_vars

\* The loop keeps running: recv_gap ends every wait for packets, and a timer
\* that is due comes to the front of the tree.  The pool runs the call-back.
FairSpec ==
    /\ Spec
    /\ WF_vars((LoopStep \/ EndTimers) /\ UNCHANGED serverVars)
    /\ SF_vars(DeleteMessage /\ UNCHANGED serverVars)
    /\ WF_vars((DecodeResponse \/ RunCallback \/ PostDelete) /\ UNCHANGED serverVars)

-----------------------------------------------------------------------------
(* Properties *)

TypeOK == NetworkTypeOK /\ TransmitterTypeOK /\ ServerTypeOK

\* The call-back of an event runs once, whichever of the last packet, a packet
\* delivered twice and the two time-outs come to try_trigger, in whatever order;
\* the message is deleted only after that; and a call-back that is told of a
\* success is given the whole response of an execution, although trigger() and
\* the call-back's wrapper read isSuccess at two times and the loop may change
\* it before, between and after them.
CallbackSound ==
    /\ callbacks <= 1
    /\ message = "deleted" => callbacks = 1
    /\ outcome \in {"ok", "raw"} => executions > 0 /\ responseStored = Pieces(ResponsePieces)

\* A success is told with decoded data.  False (README, section 7), so no run
\* checks it: a time-out triggers, trigger() does not decode, and the last piece
\* arrives before the wrapper looks.
SuccessIsDecoded == outcome # "raw"

\* The caller's view: an abstract call.  A StateReset makes the client send its
\* request again, in any phase, but each execution after the first is paid for
\* by a request that the server's timer has deleted.
Call == INSTANCE RpcCall WITH
            MaxExecutions <- MaxExpiry + 1,
            executed <- executions,
            outcome <- IF outcome = "raw" THEN "ok" ELSE outcome
ImplementsCall == Call!CallSpec

\* Once a call is triggered its message goes: the call-back has run and the
\* timer of trigger() erases it, unless the loop was stopped, or is caught in
\* one of its two traps, the future of std::async in a timer (try_trigger) and
\* the packet of a deleted message that is not popped (the link reactor).
TriggerSettles ==
    is_trigger ~> (message = "deleted" \/ loop \in {"ended", "joinTimer", "spinning"})
=============================================================================
