------------------------------- MODULE Invoker -------------------------------
(***************************************************************************)
(* The blocking client of include/rpc/client/invoker.cpp: one call of      *)
(* Invoker::request.  Phase 1 sends the request in rounds of at most       *)
(* `times` packets until everything is acknowledged; phase 2 waits for the *)
(* pieces of the response.  A receive that times out is a step of its own, *)
(* possible whenever the client is receiving: the network may always be    *)
(* slower than the timeout.                                                *)
(***************************************************************************)
EXTENDS RpcNetwork

CONSTANT TryTimes     \* Invoker::tryTimes

ASSUME InvokerAssumption == TryTimes \in Nat \ {0}

VARIABLES
    client,           \* "send", "recv" (phase 1), "wait" (phase 2) or how the call ended
    ack_accept,       \* acknowledged prefix of the request
    slots,            \* receives left in this round (the for loop over j)
    got,              \* receiveMessageCount # 0
    needTry,          \* needTry, and in phase 2 responseNeedTry
    responseStored,   \* piece_state of the ResponseData
    corrupt           \* a stored piece was not the one the server computed

clientVars == <<client, ack_accept, slots, got, needTry, responseStored, corrupt>>

Outcomes == {"ok", "NetworkTimeout", "TheServerResourcesExhausted"}

InvokerInit ==
    /\ client = "send" /\ ack_accept = 0 /\ slots = 0 /\ got = TRUE
    /\ needTry = TryTimes /\ responseStored = {} /\ corrupt = FALSE

SendPackets(S) == toServer' = toServer \cup S

\* The packets of this round: at most `times`, from the first one missing.
Window == {i \in Pieces(PieceCount) :
              ack_accept <= i /\ i < ack_accept + getSendCount(PieceCount)}

\* The head of the while loop: data is sent unless the last round received
\* nothing, and the round will receive one packet for each piece in it.
SendRound ==
    /\ client = "send"
    /\ SendPackets(IF got THEN {Packet("Request", "RequestSend", i) : i \in Window} ELSE {})
    /\ slots' = Cardinality(Window)
    /\ got' = FALSE
    /\ client' = "recv"
    /\ UNCHANGED <<ack_accept, needTry, responseStored, corrupt, toClient, faults>>

\* A packet of another message id uses up a receive.
ReceiveForeign(p) ==
    /\ client = "recv" /\ slots > 0
    /\ p.id # MessageId
    /\ FromServer(p)
    /\ slots' = slots - 1
    /\ UNCHANGED <<client, ack_accept, got, needTry, responseStored, corrupt, toServer>>

\* Mutant of AckAfter: an acknowledgement is taken for one piece more.
AckAfterOffByOne(p) ==
    IF p.phase = "Response" THEN PieceCount
    ELSE IF p.type = "ReceiverACK" /\ p.num >= ack_accept THEN p.num + 1
    ELSE ack_accept

\* ack_accept after a packet of phase 1: acknowledgements are cumulative, and a
\* response packet says that the server has everything.
AckAfter(p) == IF p.phase = "Response" THEN PieceCount
               ELSE IF p.type = "ReceiverACK" /\ p.num > ack_accept THEN p.num
               ELSE ack_accept

\* A packet of this call in phase 1.  A response packet ends the phase and is
\* dropped; a StateReset only counts as an answer.
ReceivePhase1(p) ==
    /\ client = "recv" /\ slots > 0
    /\ p.id = MessageId
    /\ FromServer(p)
    /\ got' = TRUE
    /\ needTry' = TryTimes
    /\ ack_accept' = AckAfter(p)
    /\ slots' = IF p.phase = "Request" /\ p.type = "ReceiverACK" /\ ack_accept' = PieceCount
                THEN 0 ELSE slots - 1
    /\ client' = IF p.phase = "Request" /\ p.type = "TheServerResourcesExhausted"
                 THEN "TheServerResourcesExhausted" ELSE "recv"
    /\ UNCHANGED <<responseStored, corrupt, toServer>>

\* recvfrom timed out: ask for an acknowledgement and leave the round.
Phase1Timeout ==
    /\ client = "recv" /\ slots > 0
    /\ SendPackets({Packet("Request", "RequestACK", 0)})
    /\ slots' = 0
    /\ UNCHANGED <<client, ack_accept, got, needTry, responseStored, corrupt,
                   toClient, faults>>

\* Mutant of EndRound: a silent round does not use up a try.
EndRoundForever ==
    /\ client = "recv" /\ slots = 0
    /\ client' = IF ack_accept = PieceCount THEN "wait" ELSE "send"
    /\ needTry' = IF ack_accept = PieceCount THEN TryTimes ELSE needTry
    /\ UNCHANGED <<ack_accept, slots, got, responseStored, corrupt, networkVars>>

\* The end of the round: a round without an answer uses up a try.
EndRound ==
    /\ client = "recv" /\ slots = 0
    /\ LET left == IF got THEN needTry ELSE needTry - 1
           over == ~got /\ left <= 0
       IN  /\ client' = IF over THEN "NetworkTimeout"
                        ELSE IF ack_accept = PieceCount THEN "wait" ELSE "send"
           /\ needTry' = IF ~over /\ ack_accept = PieceCount THEN TryTimes ELSE left
    /\ UNCHANGED <<ack_accept, slots, got, responseStored, corrupt, networkVars>>

-----------------------------------------------------------------------------
(* Phase 2 *)

\* Any packet of phase Request, and any other that carries no data, only
\* resets the tries; one of another id does not even do that.
ReceiveNoData(p) ==
    /\ client = "wait"
    /\ ~(p.id = MessageId /\ p.phase = "Response" /\ p.type = "RequestSend")
    /\ FromServer(p)
    /\ needTry' = IF p.id = MessageId THEN TryTimes ELSE needTry
    /\ UNCHANGED <<client, ack_accept, slots, got, responseStored, corrupt, toServer>>

\* Mutant of Complete: off by one.
CompleteTooEarly(ack) == ack >= ResponsePieces - 1

\* Every piece of the response has been stored.
Complete(ack) == ack = ResponsePieces

\* A piece of the response is stored and acknowledged.
ReceiveResponse(p) ==
    /\ client = "wait"
    /\ p.id = MessageId /\ p.phase = "Response" /\ p.type = "RequestSend"
    /\ FromServer(p)
    /\ needTry' = TryTimes
    /\ responseStored' = responseStored \cup {p.num}
    /\ corrupt' = (corrupt \/ (p.num \notin responseStored /\ p.data = "bad"))
    /\ LET ack == getAckNumber(responseStored', ResponsePieces)
       IN  /\ SendPackets({Packet("Response", "ReceiverACK", ack)})
           /\ client' = IF Complete(ack) THEN "ok" ELSE "wait"
    /\ UNCHANGED <<ack_accept, slots, got>>

\* recvfrom timed out: a heartbeat request, until the tries are used up.
Phase2Timeout ==
    /\ client = "wait"
    /\ needTry' = needTry - 1
    /\ SendPackets({Packet("Response", "TimedOutRequestHeartbeat", 0)})
    /\ client' = IF needTry' <= 0 THEN "NetworkTimeout" ELSE "wait"
    /\ UNCHANGED <<ack_accept, slots, got, responseStored, corrupt, toClient, faults>>

InvokerReceive(p) == \/ ReceiveForeign(p) \/ ReceivePhase1(p)
                     \/ ReceiveNoData(p) \/ ReceiveResponse(p)
InvokerStep == \/ SendRound \/ Phase1Timeout \/ EndRound \/ Phase2Timeout

InvokerFlagsOK == got \in BOOLEAN /\ corrupt \in BOOLEAN

InvokerTypeOK ==
    /\ InvokerFlagsOK
    /\ client \in {"send", "recv", "wait"} \cup Outcomes
    /\ ack_accept \in 0 .. PieceCount
    /\ slots \in Nat
    /\ needTry \in 0 .. TryTimes
    /\ responseStored \in SUBSET Pieces(ResponsePieces)
=============================================================================
