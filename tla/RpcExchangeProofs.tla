-------------------------- MODULE RpcExchangeProofs --------------------------
(***************************************************************************)
(* Proofs about RpcExchange, for every number of pieces and every bound.   *)
(***************************************************************************)
EXTENDS RpcExchange, FiniteSetTheorems, WellFoundedInduction, TLAPS

-----------------------------------------------------------------------------
(* The network *)

\* getAckNumber is well defined: the number it returns is within bounds, every
\* piece below it is stored, and it is the first missing one or the end.
LEMMA AckNumber ==
    ASSUME NEW n \in Nat, NEW S
    PROVE  /\ getAckNumber(S, n) \in 0 .. n
           /\ Pieces(getAckNumber(S, n)) \subseteq S
           /\ getAckNumber(S, n) = n \/ getAckNumber(S, n) \notin S
<1> DEFINE T == {k \in 0 .. n : k = n \/ k \notin S}
<1>1. T \subseteq Nat /\ T # {}
    <2>1. n \in T
        OBVIOUS
    <2> QED BY <2>1
<1> DEFINE R == {q \in Nat \X Nat : q[1] < q[2]}
<1>2. IsWellFoundedOn(R, Nat)
    <2>1. R = OpToRel(<, Nat)
        BY Zenon DEF OpToRel
    <2> QED BY <2>1, NatLessThanWellFounded, Zenon
<1>3. PICK m \in T : \A y \in T : ~(<<y, m>> \in R)
    <2> HIDE DEF T, R
    <2> QED BY <1>1, <1>2, WFMin
<1>4. Pieces(m) \subseteq S
    <2> SUFFICES ASSUME NEW i \in Pieces(m) PROVE i \in S
        OBVIOUS
    <2>1. m \in 0 .. n /\ i \in 0 .. n /\ i < m
        BY DEF Pieces
    <2> QED BY <1>1, <1>3, <2>1
<1> QED BY <1>3, <1>4 DEF getAckNumber

\* What receiving a packet does to the network, on either side.
LEMMA ReceiveFacts ==
    /\ \A p : NetworkTypeOK /\ FromServer(p) =>
          p \in toClient /\ toClient' \subseteq toClient /\ faults' \in 0 .. MaxFaults
    /\ \A p : NetworkTypeOK /\ FromClient(p) =>
          p \in toServer /\ toServer' \subseteq toServer /\ faults' \in 0 .. MaxFaults
BY NetworkAssumption DEF NetworkTypeOK, FromServer, FromClient

USE DEF MessageId, NoId

-----------------------------------------------------------------------------
(* Facts about the packets *)

\* The bounds are numbers.
LEMMA Constants ==
    /\ PieceCount \in Nat /\ PieceCount > 0 /\ ResponsePieces \in Nat /\ ResponsePieces > 0
    /\ MaxFaults \in Nat /\ MaxExpiry \in Nat /\ MaxStray \in Nat
    /\ TryTimes \in Nat /\ TryTimes > 0
BY NetworkAssumption, ServerAssumption, InvokerAssumption

\* The packets the client sends are packets, and their numbers are in range.
LEMMA ClientPacketFacts ==
    ASSUME NEW p \in ClientPackets
    PROVE  /\ p \in Packets
           /\ p.type = "RequestSend" => p.num \in Pieces(PieceCount)
           /\ p.type = "ReceiverACK" => /\ p.num \in 0 .. ResponsePieces
                                        /\ p = Packet("Response", "ReceiverACK", p.num)
BY Constants DEF ClientPackets, Packets, Packet, Pieces, Phases, ProtocolTypes

\* The same for the server's packets.
LEMMA ServerPacketFacts ==
    ASSUME NEW p \in ServerPackets
    PROVE  /\ p \in Packets
           /\ p.type = "ReceiverACK" => p.num \in 0 .. PieceCount /\ p = ACK(p.num)
           /\ p.phase = "Response" => p.num \in Pieces(ResponsePieces)
<1> USE Constants DEF Packets, Packet, Pieces, Phases, ProtocolTypes
<1>1. CASE p \in {ACK(k) : k \in 0 .. PieceCount}
    BY <1>1 DEF ACK
<1>2. CASE p \in {Reset, Heartbeat, Exhausted}
    BY <1>2 DEF Reset, Heartbeat, Exhausted
<1>3. ASSUME NEW k \in Pieces(ResponsePieces), NEW b \in BOOLEAN, p = ResponsePiece(k, b)
      PROVE  /\ p \in Packets
             /\ p.type = "RequestSend" /\ p.num = k
    BY <1>3 DEF ResponsePiece
<1> QED BY <1>1, <1>2, <1>3 DEF ServerPackets
\* Distinct packets of the server are distinct.
LEMMA ServerPacketKinds ==
    /\ \A k \in 0 .. PieceCount : ACK(k) \in ServerPackets /\ ACK(k).phase = "Request"
    /\ Reset \in ServerPackets /\ Heartbeat \in ServerPackets /\ Exhausted \in ServerPackets
    /\ Reset.phase = "Request" /\ Heartbeat.phase = "Request" /\ Exhausted.phase = "Request"
    /\ \A j, k \in 0 .. PieceCount : ACK(j) = ACK(k) => j = k
    /\ \A k \in 0 .. PieceCount : ACK(k) \notin {Reset, Heartbeat, Exhausted}
    /\ \A k \in Pieces(ResponsePieces), b \in BOOLEAN :
          /\ ResponsePiece(k, b) \in ServerPackets
          /\ \A j \in 0 .. PieceCount : ACK(j) # ResponsePiece(k, b)
<1> USE DEF ACK, Packet
<1>1. \A k \in 0 .. PieceCount : ACK(k) \in ServerPackets /\ ACK(k).phase = "Request"
    BY DEF ServerPackets
<1>2. Reset \in ServerPackets /\ Heartbeat \in ServerPackets /\ Exhausted \in ServerPackets
    BY DEF ServerPackets
<1>3. Reset.phase = "Request" /\ Heartbeat.phase = "Request" /\ Exhausted.phase = "Request"
    BY DEF Reset, Heartbeat, Exhausted
<1>4. \A j, k \in 0 .. PieceCount : ACK(j) = ACK(k) => j = k
    <2> TAKE j, k \in 0 .. PieceCount
    <2>1. ACK(j).num = j /\ ACK(k).num = k
        OBVIOUS
    <2> QED BY <2>1
<1>5. \A k \in 0 .. PieceCount : ACK(k) \notin {Reset, Heartbeat, Exhausted}
    <2> TAKE k \in 0 .. PieceCount
    <2>1. /\ ACK(k).type = "ReceiverACK" /\ Reset.type = "StateReset"
          /\ Heartbeat.type = "TimedOutResponseHeartbeat"
          /\ Exhausted.type = "TheServerResourcesExhausted"
        BY DEF Reset, Heartbeat, Exhausted
    <2> QED BY <2>1
<1>6. \A k \in Pieces(ResponsePieces), b \in BOOLEAN : ResponsePiece(k, b) \in ServerPackets
    BY DEF ServerPackets
<1>7. \A k \in Pieces(ResponsePieces), b \in BOOLEAN :
        \A j \in 0 .. PieceCount : ACK(j) # ResponsePiece(k, b)
    <2> TAKE k \in Pieces(ResponsePieces), b \in BOOLEAN
    <2> TAKE j \in 0 .. PieceCount
    <2>1. ACK(j).phase = "Request" /\ ResponsePiece(k, b).phase = "Response"
        BY DEF ResponsePiece
    <2> QED BY <2>1
<1> QED BY <1>1, <1>2, <1>3, <1>4, <1>5, <1>6, <1>7

\* ... and so are those of the client.
LEMMA ClientPacketKinds ==
    /\ \A k \in Pieces(PieceCount) : Packet("Request", "RequestSend", k) \in ClientPackets
    /\ \A k \in 0 .. ResponsePieces : Packet("Response", "ReceiverACK", k) \in ClientPackets
    /\ Packet("Request", "RequestACK", 0) \in ClientPackets
    /\ Packet("Response", "TimedOutRequestHeartbeat", 0) \in ClientPackets
    /\ \A j, k \in 0 .. ResponsePieces :
          Packet("Response", "ReceiverACK", j) = Packet("Response", "ReceiverACK", k) => j = k
    /\ \A k \in 0 .. ResponsePieces, n \in Nat :
          Packet("Response", "ReceiverACK", k) \notin {Packet("Request", "RequestSend", n),
              Packet("Request", "RequestACK", 0), Packet("Response", "TimedOutRequestHeartbeat", 0)}
<1>1. \A ph, ty, n : Packet(ph, ty, n).num = n /\ Packet(ph, ty, n).type = ty
    BY DEF Packet
<1>2. \A k \in Pieces(PieceCount) : Packet("Request", "RequestSend", k) \in ClientPackets
    BY DEF ClientPackets
<1>3. \A k \in 0 .. ResponsePieces : Packet("Response", "ReceiverACK", k) \in ClientPackets
    BY DEF ClientPackets
<1>4. /\ Packet("Request", "RequestACK", 0) \in ClientPackets
      /\ Packet("Response", "TimedOutRequestHeartbeat", 0) \in ClientPackets
    BY DEF ClientPackets
<1>5. \A j, k \in 0 .. ResponsePieces :
          Packet("Response", "ReceiverACK", j) = Packet("Response", "ReceiverACK", k) => j = k
    <2> TAKE j, k \in 0 .. ResponsePieces
    <2>1. /\ Packet("Response", "ReceiverACK", j).num = j
          /\ Packet("Response", "ReceiverACK", k).num = k
        BY <1>1
    <2> QED BY <2>1
<1>6. \A k \in 0 .. ResponsePieces, n \in Nat :
          Packet("Response", "ReceiverACK", k) \notin {Packet("Request", "RequestSend", n),
              Packet("Request", "RequestACK", 0), Packet("Response", "TimedOutRequestHeartbeat", 0)}
    <2> TAKE k \in 0 .. ResponsePieces, n \in Nat
    <2> QED BY <1>1
<1> QED BY <1>2, <1>3, <1>4, <1>5, <1>6
-----------------------------------------------------------------------------
(* The invariant holds initially and is preserved, one lemma per action *)

\* The invariant holds at the start.
LEMMA InitIInv == Init => IInv
<1> SUFFICES ASSUME Init PROVE IInv
    OBVIOUS
<1> USE Constants DEF Init, NetworkInit, InvokerInit, ServerInit
<1>1. TypeOK
    <2>1. NetworkTypeOK
        BY DEF NetworkTypeOK
    <2>2. InvokerFlagsOK /\ ServerFlagsOK
        BY Zenon DEF InvokerFlagsOK, ServerFlagsOK
    <2>3. InvokerTypeOK
        BY <2>2 DEF InvokerTypeOK
    <2>4. ServerTypeOK
        BY <2>2 DEF ServerTypeOK
    <2> QED BY <2>1, <2>3, <2>4 DEF TypeOK
<1>2. PacketInv /\ TryInv
    BY DEF PacketInv, TryInv
<1>3. DeliveryInv
    BY DEF DeliveryInv, Pieces
<1>4. ExecutionInv
    BY DEF ExecutionInv, AnswerExists
<1>5. ResponseInv
    BY DEF ResponseInv, Pieces
<1> QED BY <1>1, <1>2, <1>3, <1>4, <1>5 DEF IInv

\* The packets in flight are packets.
LEMMA PacketTypes == ClientPackets \subseteq Packets /\ ServerPackets \subseteq Packets
BY ClientPacketFacts, ServerPacketFacts

\* A step of the client leaves the server alone, and the other way round.
LEMMA ServerFrame == ServerTypeOK /\ UNCHANGED serverVars => ServerTypeOK'
BY DEF ServerTypeOK, ServerFlagsOK, serverVars, requestVars, responseVars, workVars, timerVars

LEMMA ClientFrame ==
    /\ InvokerTypeOK /\ UNCHANGED clientVars => InvokerTypeOK'
    /\ TryInv /\ UNCHANGED clientVars => TryInv'
BY DEF InvokerTypeOK, InvokerFlagsOK, clientVars, TryInv

LEMMA WindowFinite == InvokerTypeOK => Cardinality(Window) \in Nat
<1> SUFFICES ASSUME InvokerTypeOK PROVE Cardinality(Window) \in Nat
    OBVIOUS
<1>1. Window \subseteq 0 .. PieceCount - 1
    BY DEF Window, Pieces
<1>2. IsFiniteSet(0 .. PieceCount - 1)
    BY Constants, FS_Interval
<1> QED BY <1>1, <1>2, FS_Subset, FS_CardinalityType

LEMMA SendRoundIInv == IInv /\ SendRound /\ UNCHANGED serverVars => IInv'
<1> SUFFICES ASSUME IInv, SendRound, UNCHANGED serverVars PROVE IInv'
    OBVIOUS
<1> USE Constants DEF IInv, SendRound, SendPackets
<1>1. PacketInv'
    BY ClientPacketKinds DEF PacketInv, Window
<1>2. TypeOK'
    <2>1. NetworkTypeOK'
        BY <1>1, PacketTypes DEF TypeOK, NetworkTypeOK, PacketInv
    <2>2. InvokerFlagsOK'
        BY Zenon DEF TypeOK, InvokerTypeOK, InvokerFlagsOK
    <2>3. InvokerTypeOK'
        BY <2>2, WindowFinite DEF TypeOK, InvokerTypeOK
    <2> QED BY <2>1, <2>3, ServerFrame DEF TypeOK
<1>3. TryInv'
    BY DEF TryInv, Outcomes
<1>4. DeliveryInv'
    BY DEF DeliveryInv, serverVars, requestVars, ACK
<1>5. ExecutionInv'
    BY DEF ExecutionInv, AnswerExists, serverVars, requestVars, responseVars, workVars, timerVars
<1>6. ResponseInv'
    <2>1. \A k \in 0 .. ResponsePieces : Packet("Response", "ReceiverACK", k) \in toServer' =>
              Packet("Response", "ReceiverACK", k) \in toServer
        BY ClientPacketKinds DEF Window, Pieces
    <2> QED BY <2>1 DEF ResponseInv, serverVars, responseVars
<1> QED BY <1>1, <1>2, <1>3, <1>4, <1>5, <1>6

LEMMA ReceiveForeignIInv ==
    ASSUME NEW p PROVE IInv /\ ReceiveForeign(p) /\ UNCHANGED serverVars => IInv'
<1> SUFFICES ASSUME IInv, ReceiveForeign(p), UNCHANGED serverVars PROVE IInv'
    OBVIOUS
<1> USE Constants DEF IInv, ReceiveForeign
<1>0. toClient' \subseteq toClient /\ faults' \in 0 .. MaxFaults
    BY ReceiveFacts DEF TypeOK
<1>1. PacketInv'
    BY <1>0 DEF PacketInv
<1>2. TypeOK'
    <2>1. NetworkTypeOK'
        BY <1>0 DEF TypeOK, NetworkTypeOK
    <2>2. InvokerFlagsOK'
        BY Zenon DEF TypeOK, InvokerTypeOK, InvokerFlagsOK
    <2>3. InvokerTypeOK'
        BY <2>2 DEF TypeOK, InvokerTypeOK
    <2> QED BY <2>1, <2>3, ServerFrame DEF TypeOK
<1>3. TryInv'
    BY DEF TryInv
<1>4. DeliveryInv'
    BY <1>0 DEF DeliveryInv, serverVars, requestVars, ACK
<1>5. ExecutionInv'
    BY <1>0 DEF ExecutionInv, AnswerExists, serverVars, requestVars, responseVars, workVars, timerVars
<1>6. ResponseInv'
    BY DEF ResponseInv, serverVars, responseVars
<1> QED BY <1>1, <1>2, <1>3, <1>4, <1>5, <1>6

\* A response packet in flight proves that the whole request was delivered.
LEMMA ReceivePhase1IInv ==
    ASSUME NEW p PROVE IInv /\ ReceivePhase1(p) /\ UNCHANGED serverVars => IInv'
<1> SUFFICES ASSUME IInv, ReceivePhase1(p), UNCHANGED serverVars PROVE IInv'
    OBVIOUS
<1> USE Constants DEF IInv, ReceivePhase1
<1>0. p \in toClient /\ toClient' \subseteq toClient /\ faults' \in 0 .. MaxFaults
    BY ReceiveFacts DEF TypeOK
<1>a. ack_accept' \in 0 .. PieceCount /\ Pieces(ack_accept') \subseteq received
    <2>1. CASE p.phase = "Response"
        <3>1. received = AllPieces
            BY <1>0, <2>1 DEF ExecutionInv, AnswerExists, TypeOK, ServerTypeOK
        <3> QED BY <2>1, <3>1 DEF AckAfter, AllPieces
    <2>2. CASE p.phase # "Response" /\ p.type = "ReceiverACK" /\ p.num > ack_accept
        <3>1. p.num \in 0 .. PieceCount /\ p = ACK(p.num)
            BY <1>0, <2>2, ServerPacketFacts DEF PacketInv
        <3> QED BY <1>0, <2>2, <3>1 DEF AckAfter, DeliveryInv
    <2>3. CASE p.phase # "Response" /\ ~(p.type = "ReceiverACK" /\ p.num > ack_accept)
        BY <2>3 DEF AckAfter, DeliveryInv, TypeOK, InvokerTypeOK
    <2> QED BY <2>1, <2>2, <2>3
<1>1. PacketInv'
    BY <1>0 DEF PacketInv
<1>2. TypeOK'
    <2>1. NetworkTypeOK'
        BY <1>0 DEF TypeOK, NetworkTypeOK
    <2>2. InvokerFlagsOK'
        BY Zenon DEF TypeOK, InvokerTypeOK, InvokerFlagsOK
    <2>3. InvokerTypeOK'
        BY <1>a, <2>2 DEF TypeOK, InvokerTypeOK, Outcomes
    <2> QED BY <2>1, <2>3, ServerFrame DEF TypeOK
<1>3. TryInv'
    BY DEF TryInv
<1>4. DeliveryInv'
    BY <1>0, <1>a DEF DeliveryInv, serverVars, requestVars, ACK
<1>5. ExecutionInv'
    BY <1>0 DEF ExecutionInv, AnswerExists, serverVars, requestVars, responseVars, workVars, timerVars
<1>6. ResponseInv'
    BY DEF ResponseInv, serverVars, responseVars
<1> QED BY <1>1, <1>2, <1>3, <1>4, <1>5, <1>6

LEMMA Phase1TimeoutIInv == IInv /\ Phase1Timeout /\ UNCHANGED serverVars => IInv'
<1> SUFFICES ASSUME IInv, Phase1Timeout, UNCHANGED serverVars PROVE IInv'
    OBVIOUS
<1> USE Constants DEF IInv, Phase1Timeout, SendPackets
<1>1. PacketInv'
    BY ClientPacketKinds DEF PacketInv
<1>2. TypeOK'
    <2>1. NetworkTypeOK'
        BY <1>1, PacketTypes DEF TypeOK, NetworkTypeOK, PacketInv
    <2>2. InvokerFlagsOK'
        BY Zenon DEF TypeOK, InvokerTypeOK, InvokerFlagsOK
    <2>3. InvokerTypeOK'
        BY <2>2 DEF TypeOK, InvokerTypeOK
    <2> QED BY <2>1, <2>3, ServerFrame DEF TypeOK
<1>3. TryInv'
    BY DEF TryInv
<1>4. DeliveryInv'
    BY DEF DeliveryInv, serverVars, requestVars, ACK
<1>5. ExecutionInv'
    BY DEF ExecutionInv, AnswerExists, serverVars, requestVars, responseVars, workVars, timerVars
<1>6. ResponseInv'
    BY ClientPacketKinds DEF ResponseInv, serverVars, responseVars
<1> QED BY <1>1, <1>2, <1>3, <1>4, <1>5, <1>6

LEMMA EndRoundIInv == IInv /\ EndRound /\ UNCHANGED serverVars => IInv'
<1> SUFFICES ASSUME IInv, EndRound, UNCHANGED serverVars PROVE IInv'
    OBVIOUS
<1> USE Constants DEF IInv, EndRound, networkVars
<1>1. PacketInv'
    BY DEF PacketInv
<1>2. TypeOK' /\ TryInv'
    <2>1. NetworkTypeOK'
        BY DEF TypeOK, NetworkTypeOK
    <2>2. InvokerFlagsOK'
        BY Zenon DEF TypeOK, InvokerTypeOK, InvokerFlagsOK
    <2>3. needTry' \in 0 .. TryTimes /\ TryInv'
        BY DEF TypeOK, InvokerTypeOK, TryInv, Outcomes
    <2>4. InvokerTypeOK'
        BY <2>2, <2>3 DEF TypeOK, InvokerTypeOK, Outcomes
    <2> QED BY <2>1, <2>3, <2>4, ServerFrame DEF TypeOK
<1>3. DeliveryInv'
    BY DEF DeliveryInv, serverVars, requestVars, ACK
<1>4. ExecutionInv'
    BY DEF ExecutionInv, AnswerExists, serverVars, requestVars, responseVars, workVars, timerVars
<1>5. ResponseInv'
    BY DEF ResponseInv, serverVars, responseVars
<1> QED BY <1>1, <1>2, <1>3, <1>4, <1>5

LEMMA ReceiveNoDataIInv ==
    ASSUME NEW p PROVE IInv /\ ReceiveNoData(p) /\ UNCHANGED serverVars => IInv'
<1> SUFFICES ASSUME IInv, ReceiveNoData(p), UNCHANGED serverVars PROVE IInv'
    OBVIOUS
<1> USE Constants DEF IInv, ReceiveNoData
<1>0. toClient' \subseteq toClient /\ faults' \in 0 .. MaxFaults
    BY ReceiveFacts DEF TypeOK
<1>1. PacketInv'
    BY <1>0 DEF PacketInv
<1>2. TypeOK'
    <2>1. NetworkTypeOK'
        BY <1>0 DEF TypeOK, NetworkTypeOK
    <2>2. InvokerFlagsOK'
        BY Zenon DEF TypeOK, InvokerTypeOK, InvokerFlagsOK
    <2>3. InvokerTypeOK'
        BY <2>2 DEF TypeOK, InvokerTypeOK
    <2> QED BY <2>1, <2>3, ServerFrame DEF TypeOK
<1>3. TryInv'
    BY DEF TryInv
<1>4. DeliveryInv'
    BY <1>0 DEF DeliveryInv, serverVars, requestVars, ACK
<1>5. ExecutionInv'
    BY <1>0 DEF ExecutionInv, AnswerExists, serverVars, requestVars, responseVars, workVars, timerVars
<1>6. ResponseInv'
    BY DEF ResponseInv, serverVars, responseVars
<1> QED BY <1>1, <1>2, <1>3, <1>4, <1>5, <1>6

\* The acknowledgement the client sends counts pieces it has just stored.
LEMMA ReceiveResponseIInv ==
    ASSUME NEW p PROVE IInv /\ ReceiveResponse(p) /\ UNCHANGED serverVars => IInv'
<1> SUFFICES ASSUME IInv, ReceiveResponse(p), UNCHANGED serverVars PROVE IInv'
    OBVIOUS
<1> DEFINE ack == getAckNumber(responseStored', ResponsePieces)
<1> USE Constants DEF IInv, ReceiveResponse, SendPackets
<1>0. p \in toClient /\ toClient' \subseteq toClient /\ faults' \in 0 .. MaxFaults
    BY ReceiveFacts DEF TypeOK
<1>a. ack \in 0 .. ResponsePieces /\ Pieces(ack) \subseteq responseStored'
    BY AckNumber
<1>b. responseStored' \in SUBSET Pieces(ResponsePieces) /\ responseStored \subseteq responseStored'
    BY <1>0, ServerPacketFacts DEF PacketInv, TypeOK, InvokerTypeOK
<1>c. toServer' = toServer \cup {Packet("Response", "ReceiverACK", ack)}
    OBVIOUS
<1> HIDE DEF ack
<1>1. PacketInv'
    BY <1>0, <1>a, <1>c, ClientPacketKinds DEF PacketInv
<1>2. TypeOK'
    <2>1. NetworkTypeOK'
        BY <1>0, <1>1, PacketTypes DEF TypeOK, NetworkTypeOK, PacketInv
    <2>2. InvokerFlagsOK'
        BY Zenon DEF TypeOK, InvokerTypeOK, InvokerFlagsOK
    <2>3. InvokerTypeOK'
        BY <1>b, <2>2 DEF TypeOK, InvokerTypeOK, Outcomes
    <2> QED BY <2>1, <2>3, ServerFrame DEF TypeOK
<1>3. TryInv'
    BY DEF TryInv
<1>4. DeliveryInv'
    BY <1>0 DEF DeliveryInv, serverVars, requestVars, ACK
<1>5. ExecutionInv'
    BY <1>0 DEF ExecutionInv, AnswerExists, serverVars, requestVars, responseVars, workVars, timerVars
<1>6. ResponseInv'
    <2>1. \A k \in 0 .. ResponsePieces : Packet("Response", "ReceiverACK", k) \in toServer' =>
              Pieces(k) \subseteq responseStored'
        BY <1>a, <1>b, <1>c, ClientPacketKinds DEF ResponseInv
    <2>2. Pieces(responseAck') \subseteq responseStored'
        BY <1>b DEF ResponseInv, serverVars, responseVars
    <2>3. client' = "ok" => responseStored' = Pieces(ResponsePieces)
        BY <1>a, <1>b DEF Complete, ack
    <2> QED BY <2>1, <2>2, <2>3 DEF ResponseInv
<1> QED BY <1>1, <1>2, <1>3, <1>4, <1>5, <1>6

LEMMA Phase2TimeoutIInv == IInv /\ Phase2Timeout /\ UNCHANGED serverVars => IInv'
<1> SUFFICES ASSUME IInv, Phase2Timeout, UNCHANGED serverVars PROVE IInv'
    OBVIOUS
<1> USE Constants DEF IInv, Phase2Timeout, SendPackets
<1>1. PacketInv'
    BY ClientPacketKinds DEF PacketInv
<1>2. TypeOK' /\ TryInv'
    <2>1. NetworkTypeOK'
        BY <1>1, PacketTypes DEF TypeOK, NetworkTypeOK, PacketInv
    <2>2. InvokerFlagsOK'
        BY Zenon DEF TypeOK, InvokerTypeOK, InvokerFlagsOK
    <2>3. needTry' \in 0 .. TryTimes /\ TryInv'
        BY DEF TypeOK, InvokerTypeOK, TryInv, Outcomes
    <2>4. InvokerTypeOK'
        BY <2>2, <2>3 DEF TypeOK, InvokerTypeOK, Outcomes
    <2> QED BY <2>1, <2>3, <2>4, ServerFrame DEF TypeOK
<1>3. DeliveryInv'
    BY DEF DeliveryInv, serverVars, requestVars, ACK
<1>4. ExecutionInv'
    BY DEF ExecutionInv, AnswerExists, serverVars, requestVars, responseVars, workVars, timerVars
<1>5. ResponseInv'
    BY ClientPacketKinds DEF ResponseInv, serverVars, responseVars
<1> QED BY <1>1, <1>2, <1>3, <1>4, <1>5

-----------------------------------------------------------------------------
(* The server's actions *)

\* A packet's route never adds more than the bounded strays.
LEMMA RouteFacts ==
    ASSUME NEW fromMain \in BOOLEAN
    PROVE  ServerTypeOK /\ Route(fromMain) => connected' = TRUE /\ strays' \in 0 .. MaxStray
BY Constants DEF ServerTypeOK, Route

\* What a data packet is answered with never exceeds what is stored.
LEMMA PieceAckFacts ==
    ASSUME NEW p, NEW fromMain \in BOOLEAN, ServerTypeOK
    PROVE  /\ PieceAck(p, fromMain) \in 0 .. PieceCount
           /\ Pieces(PieceAck(p, fromMain)) \subseteq StoredNow(p)
<1> USE Constants
<1>1. CASE fromMain /\ hasRequest /\ p.num \in pieces
    BY <1>1 DEF PieceAck, Pieces
<1>2. CASE ~(fromMain /\ hasRequest /\ p.num \in pieces)
    BY <1>2, AckNumber DEF PieceAck
<1> QED BY <1>1, <1>2

LEMMA ReceivePieceIInv ==
    ASSUME NEW p, NEW fromMain \in BOOLEAN
    PROVE  IInv /\ ReceivePiece(p, fromMain) /\ UNCHANGED clientVars => IInv'
<1> SUFFICES ASSUME IInv, ReceivePiece(p, fromMain), UNCHANGED clientVars PROVE IInv'
    OBVIOUS
<1> DEFINE ack == PieceAck(p, fromMain)
<1> USE Constants DEF IInv
<1>0. /\ p \in toServer /\ toServer' \subseteq toServer /\ faults' \in 0 .. MaxFaults
      /\ p.num \in Pieces(PieceCount)
    BY ReceiveFacts, ClientPacketFacts DEF TypeOK, ReceivePiece, PacketInv
<1>a. ack \in 0 .. PieceCount /\ Pieces(ack) \subseteq StoredNow(p)
    BY PieceAckFacts DEF TypeOK
<1>b. /\ pieces' = StoredNow(p) /\ received' = received \cup {p.num}
      /\ hasRequest' = TRUE /\ triggered' = (triggered \/ Fires(ack))
      /\ UNCHANGED <<ready, executions, hasResponse, responseAck, responseStamp, buffer,
                     expired, cleared>>
    BY Zenon DEF ReceivePiece, responseVars, timerVars
<1>c. /\ pieces \subseteq StoredNow(p) /\ StoredNow(p) \subseteq received \cup {p.num}
      /\ received \cup {p.num} \subseteq AllPieces
    BY <1>0 DEF DeliveryInv, StoredNow, TypeOK, ServerTypeOK, AllPieces
<1>d. /\ toClient' = toClient \cup {ACK(ack)} \/ toClient' = toClient \cup {ACK(ack), Exhausted}
      /\ tasks' = tasks \/ (Fires(ack) /\ tasks' = tasks + 1)
    BY DEF ReceivePiece, Trigger, Reply
<1>e. Fires(ack) => ~triggered /\ StoredNow(p) = AllPieces
    BY <1>a, <1>c DEF Fires, AllPieces
<1>f. /\ received \subseteq received' /\ StoredNow(p) \subseteq received'
      /\ received = AllPieces => received' = AllPieces
    BY <1>b, <1>c
<1> HIDE DEF ack
<1>1. PacketInv'
    BY <1>0, <1>a, <1>d, ServerPacketKinds DEF PacketInv
<1>2. TypeOK'
    <2>1. NetworkTypeOK'
        BY <1>0, <1>1, <1>b, PacketTypes DEF TypeOK, NetworkTypeOK, PacketInv
    <2>2. connected' = TRUE /\ strays' \in 0 .. MaxStray
        BY RouteFacts DEF ReceivePiece, TypeOK
    <2>3. ServerFlagsOK'
        BY <1>b, <2>2, Zenon DEF ReceivePiece, TypeOK, ServerTypeOK, ServerFlagsOK
    <2>4. ServerTypeOK'
        BY <1>b, <1>c, <1>d, <2>2, <2>3 DEF TypeOK, ServerTypeOK, AllPieces
    <2> QED BY <2>1, <2>4, ClientFrame DEF TypeOK
<1>3. TryInv'
    BY ClientFrame
<1>4. DeliveryInv'
    <2>1. pieces' \subseteq received' /\ (~hasRequest' => pieces' = {} /\ ~triggered')
        BY <1>b, <1>f
    <2>2. triggered' => pieces' = AllPieces
        BY <1>b, <1>c, <1>e DEF DeliveryInv
    <2>3. \A k \in 0 .. PieceCount : ACK(k) \in toClient' => Pieces(k) \subseteq received'
        BY <1>a, <1>d, <1>f, ServerPacketKinds DEF DeliveryInv
    <2> QED BY <1>f, <2>1, <2>2, <2>3 DEF DeliveryInv, clientVars
<1>5. ExecutionInv'
    <2>1. tasks' > 0 \/ executions' > 0 => received' = AllPieces
        <3>1. Fires(ack) => received' = AllPieces
            BY <1>b, <1>c, <1>e, <1>f
        <3> QED BY <1>b, <1>d, <1>f, <3>1 DEF ExecutionInv, TypeOK, ServerTypeOK
    <2>2. AnswerExists' => executions' > 0
        <3>1. \A q \in toClient' : q.phase = "Response" => q \in toClient
            BY <1>a, <1>d, ServerPacketKinds
        <3> QED BY <1>b, <3>1 DEF ExecutionInv, AnswerExists, clientVars
    <2>3. executions' + tasks' <= expired' + (IF triggered' THEN 1 ELSE 0)
        <3>1. (triggered => triggered') /\ (Fires(ack) => triggered')
            BY <1>b, Zenon
        <3> QED BY <1>b, <1>d, <1>e, <3>1 DEF ExecutionInv, TypeOK, ServerTypeOK
    <2> QED BY <2>1, <2>2, <2>3 DEF ExecutionInv
<1>6. ResponseInv'
    BY <1>0, <1>b DEF ResponseInv, clientVars
<1> QED BY <1>1, <1>2, <1>3, <1>4, <1>5, <1>6

LEMMA ReceiveControlIInv ==
    ASSUME NEW p, NEW fromMain \in BOOLEAN
    PROVE  IInv /\ ReceiveControl(p, fromMain) /\ UNCHANGED clientVars => IInv'
<1> SUFFICES ASSUME IInv, ReceiveControl(p, fromMain), UNCHANGED clientVars PROVE IInv'
    OBVIOUS
<1> DEFINE ack == getAckNumber(pieces, PieceCount)
<1> USE Constants DEF IInv
<1>0. p \in toServer /\ toServer' \subseteq toServer /\ faults' \in 0 .. MaxFaults
    BY ReceiveFacts DEF TypeOK, ReceiveControl
<1>a. ack \in 0 .. PieceCount /\ Pieces(ack) \subseteq received
    BY AckNumber DEF DeliveryInv
<1>b. /\ UNCHANGED <<hasRequest, pieces, triggered, received, listed, tasks, ready, executions,
                     hasResponse, responseAck, responseStamp, buffer, expired, cleared>>
      /\ requestActive' = (IF fromMain THEN requestActive ELSE hasRequest)
    BY Zenon DEF ReceiveControl, responseVars, workVars, timerVars
<1>c. \/ toClient' = toClient \cup {ACK(ack)}
      \/ toClient' = toClient \cup {Reset} \/ toClient' = toClient \cup {Heartbeat}
    BY DEF ReceiveControl, ControlReply, Reply
<1> HIDE DEF ack
<1>1. PacketInv'
    BY <1>0, <1>a, <1>c, ServerPacketKinds DEF PacketInv
<1>2. TypeOK'
    <2>1. NetworkTypeOK'
        BY <1>0, <1>1, <1>b, PacketTypes DEF TypeOK, NetworkTypeOK, PacketInv
    <2>2. connected' = TRUE /\ strays' \in 0 .. MaxStray
        BY RouteFacts DEF ReceiveControl, TypeOK
    <2>3. ServerFlagsOK'
        BY <1>b, <2>2, Zenon DEF TypeOK, ServerTypeOK, ServerFlagsOK
    <2>4. ServerTypeOK'
        BY <1>b, <2>2, <2>3 DEF TypeOK, ServerTypeOK
    <2> QED BY <2>1, <2>4, ClientFrame DEF TypeOK
<1>3. TryInv'
    BY ClientFrame
<1>4. DeliveryInv'
    <2>1. \A k \in 0 .. PieceCount : ACK(k) \in toClient' => Pieces(k) \subseteq received'
        BY <1>a, <1>b, <1>c, ServerPacketKinds DEF DeliveryInv
    <2> QED BY <1>b, <2>1 DEF DeliveryInv, clientVars
<1>5. ExecutionInv'
    <2>1. \A q \in toClient' : q.phase = "Response" => q \in toClient
        BY <1>a, <1>c, ServerPacketKinds
    <2> QED BY <1>b, <2>1 DEF ExecutionInv, AnswerExists, clientVars
<1>6. ResponseInv'
    BY <1>0, <1>b DEF ResponseInv, clientVars
<1> QED BY <1>1, <1>2, <1>3, <1>4, <1>5, <1>6

\* A response piece the server sends: only while it holds a response.
LEMMA ResponseDataFacts ==
    ASSUME NEW ack \in 0 .. ResponsePieces, NEW intact \in BOOLEAN
    PROVE  /\ ResponseData(ack, intact) \subseteq ServerPackets
           /\ \A k \in 0 .. PieceCount : ACK(k) \notin ResponseData(ack, intact)
<1>1. CASE ack < ResponsePieces
    <2>1. ack \in Pieces(ResponsePieces)
        BY <1>1, Constants DEF Pieces
    <2> QED BY <1>1, <2>1, ServerPacketKinds DEF ResponseData
<1>2. CASE ~(ack < ResponsePieces)
    BY <1>2 DEF ResponseData
<1> QED BY <1>1, <1>2

LEMMA ReceiveResponsePhaseIInv ==
    ASSUME NEW p
    PROVE  IInv /\ ReceiveResponsePhase(p) /\ UNCHANGED clientVars => IInv'
<1> SUFFICES ASSUME IInv, ReceiveResponsePhase(p), UNCHANGED clientVars PROVE IInv'
    OBVIOUS
<1> USE Constants DEF IInv
<1>0. p \in toServer /\ toServer' \subseteq toServer /\ faults' \in 0 .. MaxFaults
    BY ReceiveFacts DEF TypeOK, ReceiveResponsePhase
<1>a. AckAccepted(p) \in 0 .. ResponsePieces /\ Pieces(AckAccepted(p)) \subseteq responseStored
    <2>1. CASE p.type = "ReceiverACK" /\ p.num > responseAck
        <3>1. p.num \in 0 .. ResponsePieces /\ p = Packet("Response", "ReceiverACK", p.num)
            BY <1>0, <2>1, ClientPacketFacts DEF PacketInv
        <3> QED BY <1>0, <2>1, <3>1 DEF AckAccepted, ResponseInv
    <2>2. CASE ~(p.type = "ReceiverACK" /\ p.num > responseAck)
        BY <2>2 DEF AckAccepted, ResponseInv, TypeOK, ServerTypeOK
    <2> QED BY <2>1, <2>2
<1>b. /\ UNCHANGED <<connected, strays, hasRequest, pieces, triggered, received, listed, tasks,
                     ready, executions, hasResponse, buffer, expired, cleared>>
      /\ requestActive' = hasRequest
    BY Zenon DEF ReceiveResponsePhase, workVars, timerVars
<1>c. responseAck' = responseAck \/ responseAck' = AckAccepted(p)
    BY DEF ReceiveResponsePhase
<1>d. responseAck' \in 0 .. ResponsePieces /\ Pieces(responseAck') \subseteq responseStored
    BY <1>a, <1>c DEF TypeOK, ServerTypeOK, ResponseInv
<1>e. \/ toClient' = toClient \cup {Reset} \/ toClient' = toClient \cup {Heartbeat}
      \/ toClient' = toClient
      \/ hasResponse /\ toClient' = toClient \cup ResponseData(responseAck', buffer # "reused")
    BY DEF ReceiveResponsePhase, Reply
<1>f. /\ ResponseData(responseAck', buffer # "reused") \subseteq ServerPackets
      /\ \A k \in 0 .. PieceCount : ACK(k) \notin ResponseData(responseAck', buffer # "reused")
    <2>1. (buffer # "reused") \in BOOLEAN
        OBVIOUS
    <2> QED BY <1>d, <2>1, ResponseDataFacts
<1>1. PacketInv'
    BY <1>0, <1>e, <1>f, ServerPacketKinds DEF PacketInv
<1>2. TypeOK'
    <2>1. NetworkTypeOK'
        BY <1>0, <1>1, <1>b, PacketTypes DEF TypeOK, NetworkTypeOK, PacketInv
    <2>2. ServerFlagsOK'
        BY <1>b, Zenon DEF TypeOK, ServerTypeOK, ServerFlagsOK
    <2>3. responseStamp' \in {"fresh", "old", "garbage"}
        BY DEF ReceiveResponsePhase, TypeOK, ServerTypeOK
    <2>4. ServerTypeOK'
        BY <1>b, <1>d, <2>2, <2>3 DEF TypeOK, ServerTypeOK
    <2> QED BY <2>1, <2>4, ClientFrame DEF TypeOK
<1>3. TryInv'
    BY ClientFrame
<1>4. DeliveryInv'
    <2>1. \A k \in 0 .. PieceCount : ACK(k) \in toClient' => ACK(k) \in toClient
        BY <1>e, <1>f, ServerPacketKinds
    <2> QED BY <1>b, <2>1 DEF DeliveryInv, clientVars
<1>5. ExecutionInv'
    <2>1. (\E q \in toClient' : q.phase = "Response") => AnswerExists
        BY <1>e, ServerPacketKinds DEF AnswerExists
    <2> QED BY <1>b, <2>1 DEF ExecutionInv, AnswerExists, clientVars
<1>6. ResponseInv'
    BY <1>0, <1>d DEF ResponseInv, clientVars
<1> QED BY <1>1, <1>2, <1>3, <1>4, <1>5, <1>6

\* The steps that touch neither the network nor the request: what is left to
\* show for each is the answer's accounting.
LEMMA RunTaskIInv == IInv /\ RunTask /\ UNCHANGED clientVars => IInv'
<1> SUFFICES ASSUME IInv, RunTask, UNCHANGED clientVars PROVE IInv'
    OBVIOUS
<1> USE Constants DEF IInv, RunTask, networkVars, requestVars, responseVars, timerVars
<1>1. TypeOK'
    <2>1. NetworkTypeOK'
        BY DEF TypeOK, NetworkTypeOK
    <2>2. ServerFlagsOK'
        BY Zenon DEF TypeOK, ServerTypeOK, ServerFlagsOK
    <2>3. ServerTypeOK'
        BY <2>2 DEF TypeOK, ServerTypeOK
    <2> QED BY <2>1, <2>3, ClientFrame DEF TypeOK
<1>2. PacketInv' /\ TryInv'
    BY ClientFrame DEF PacketInv
<1>3. DeliveryInv'
    BY DEF DeliveryInv, clientVars, ACK
<1>4. ExecutionInv'
    BY DEF ExecutionInv, AnswerExists, TypeOK, ServerTypeOK
<1>5. ResponseInv'
    BY DEF ResponseInv, clientVars
<1> QED BY <1>1, <1>2, <1>3, <1>4, <1>5

LEMMA StoreResponseIInv == IInv /\ StoreResponse /\ UNCHANGED clientVars => IInv'
<1> SUFFICES ASSUME IInv, StoreResponse, UNCHANGED clientVars PROVE IInv'
    OBVIOUS
<1> USE Constants DEF IInv, StoreResponse, requestVars, timerVars
<1>0. toClient' = toClient \/ toClient' = toClient \cup ResponseData(0, TRUE)
    BY Zenon DEF Reply
<1>a. /\ ResponseData(0, TRUE) \subseteq ServerPackets
      /\ \A k \in 0 .. PieceCount : ACK(k) \notin ResponseData(0, TRUE)
    <2>1. 0 \in 0 .. ResponsePieces
        OBVIOUS
    <2>2. TRUE \in BOOLEAN
        OBVIOUS
    <2> QED BY ONLY <2>1, <2>2, ResponseDataFacts, Zenon
<1>1. PacketInv'
    BY <1>0, <1>a DEF PacketInv
<1>2. TypeOK'
    <2>1. NetworkTypeOK'
        BY <1>1, PacketTypes DEF TypeOK, NetworkTypeOK, PacketInv
    <2>2. ServerFlagsOK'
        BY Zenon DEF TypeOK, ServerTypeOK, ServerFlagsOK
    <2>3. responseStamp' \in {"fresh", "old", "garbage"} /\ buffer' \in {"owned", "freed", "reused"}
        BY Zenon
    <2>4. /\ UNCHANGED <<strays, pieces, received, tasks, executions, expired, cleared>>
          /\ ready > 0 /\ ready' = ready - 1 /\ responseAck' = 0
        BY Zenon
    <2>5. ServerTypeOK'
        BY ONLY Constants, IInv, <2>2, <2>3, <2>4 DEF IInv, TypeOK, ServerTypeOK
    <2> QED BY <2>1, <2>5, ClientFrame DEF TypeOK
<1>3. TryInv'
    BY ClientFrame
<1>4. DeliveryInv'
    BY <1>0, <1>a DEF DeliveryInv, clientVars
<1>5. ExecutionInv'
    <2>1. executions > 0
        BY DEF ExecutionInv, AnswerExists
    <2> QED BY <2>1 DEF ExecutionInv
<1>6. ResponseInv'
    BY DEF ResponseInv, clientVars, Pieces
<1> QED BY <1>1, <1>2, <1>3, <1>4, <1>5, <1>6

LEMMA ReuseBufferIInv == IInv /\ ReuseBuffer /\ UNCHANGED clientVars => IInv'
<1> SUFFICES ASSUME IInv, ReuseBuffer, UNCHANGED clientVars PROVE IInv'
    OBVIOUS
<1> USE Constants DEF IInv, ReuseBuffer, networkVars, requestVars, workVars, timerVars
<1>1. TypeOK'
    <2>1. NetworkTypeOK'
        BY DEF TypeOK, NetworkTypeOK
    <2>2. ServerFlagsOK'
        BY Zenon DEF TypeOK, ServerTypeOK, ServerFlagsOK
    <2>3. ServerTypeOK'
        BY <2>2 DEF TypeOK, ServerTypeOK
    <2> QED BY <2>1, <2>3, ClientFrame DEF TypeOK
<1>2. PacketInv' /\ TryInv'
    BY ClientFrame DEF PacketInv
<1>3. DeliveryInv'
    BY DEF DeliveryInv, clientVars, ACK
<1>4. ExecutionInv'
    BY DEF ExecutionInv, AnswerExists, clientVars
<1>5. ResponseInv'
    BY DEF ResponseInv, clientVars
<1> QED BY <1>1, <1>2, <1>3, <1>4, <1>5

\* Deleting a request frees its trigger flag and counts one expiry.
LEMMA RequestTimerIInv ==
    IInv /\ (RearmRequestTimer \/ ExpireRequest) /\ UNCHANGED clientVars => IInv'
<1> SUFFICES ASSUME IInv, RearmRequestTimer \/ ExpireRequest, UNCHANGED clientVars PROVE IInv'
    OBVIOUS
<1> USE Constants DEF IInv, networkVars, workVars, responseVars, timerVars
<1>0. /\ UNCHANGED <<toServer, toClient, faults, connected, strays, received, listed, tasks,
                     ready, executions, hasResponse, responseAck, responseStamp, buffer, cleared>>
      /\ \/ UNCHANGED <<hasRequest, pieces, triggered, expired>> /\ requestActive' = FALSE
         \/ /\ hasRequest' = FALSE /\ triggered' = FALSE /\ pieces' = {}
            /\ expired + cleared < MaxExpiry /\ expired' = expired + 1 /\ UNCHANGED requestActive
    BY Zenon DEF RearmRequestTimer, ExpireRequest
<1>1. TypeOK'
    <2>1. NetworkTypeOK'
        BY <1>0 DEF TypeOK, NetworkTypeOK
    <2>2. ServerFlagsOK'
        BY <1>0, Zenon DEF TypeOK, ServerTypeOK, ServerFlagsOK
    <2>3. ServerTypeOK'
        BY <1>0, <2>2 DEF TypeOK, ServerTypeOK
    <2> QED BY <2>1, <2>3, ClientFrame DEF TypeOK
<1>2. PacketInv' /\ TryInv'
    BY <1>0, ClientFrame DEF PacketInv
<1>3. DeliveryInv'
    BY <1>0 DEF DeliveryInv, clientVars, ACK
<1>4. ExecutionInv'
    <2>1. executions' + tasks' <= expired' + (IF triggered' THEN 1 ELSE 0)
        BY <1>0 DEF ExecutionInv, TypeOK, ServerTypeOK
    <2> QED BY <1>0, <2>1 DEF ExecutionInv, AnswerExists, clientVars
<1>5. ResponseInv'
    BY <1>0 DEF ResponseInv, clientVars
<1> QED BY <1>1, <1>2, <1>3, <1>4, <1>5

LEMMA ResponseTimerIInv ==
    IInv /\ (RearmResponseTimer \/ ClearResponse) /\ UNCHANGED clientVars => IInv'
<1> SUFFICES ASSUME IInv, RearmResponseTimer \/ ClearResponse, UNCHANGED clientVars PROVE IInv'
    OBVIOUS
<1> USE Constants DEF IInv, networkVars, workVars, requestVars, timerVars
<1>0. /\ UNCHANGED <<toServer, toClient, faults, connected, strays, hasRequest, pieces,
                     triggered, requestActive, received, tasks, ready, executions, expired>>
      /\ \/ /\ UNCHANGED <<listed, hasResponse, responseAck, buffer, cleared>>
            /\ responseStamp' = "old"
         \/ /\ listed' = FALSE /\ hasResponse' = FALSE /\ responseAck' = 0 /\ buffer' = "owned"
            /\ expired + cleared < MaxExpiry /\ cleared' = cleared + 1 /\ UNCHANGED responseStamp
    BY Zenon DEF RearmResponseTimer, ClearResponse
<1>1. TypeOK'
    <2>1. NetworkTypeOK'
        BY <1>0 DEF TypeOK, NetworkTypeOK
    <2>2. ServerFlagsOK'
        BY <1>0, Zenon DEF TypeOK, ServerTypeOK, ServerFlagsOK
    <2>3. ServerTypeOK'
        BY <1>0, <2>2 DEF TypeOK, ServerTypeOK
    <2> QED BY <2>1, <2>3, ClientFrame DEF TypeOK
<1>2. PacketInv' /\ TryInv'
    BY <1>0, ClientFrame DEF PacketInv
<1>3. DeliveryInv'
    BY <1>0 DEF DeliveryInv, clientVars, ACK
<1>4. ExecutionInv'
    BY <1>0 DEF ExecutionInv, AnswerExists, clientVars
<1>5. ResponseInv'
    BY <1>0 DEF ResponseInv, clientVars, Pieces
<1> QED BY <1>1, <1>2, <1>3, <1>4, <1>5

LEMMA LoseIInv == IInv /\ Lose /\ UNCHANGED <<clientVars, serverVars>> => IInv'
<1> SUFFICES ASSUME IInv, Lose, UNCHANGED clientVars, UNCHANGED serverVars PROVE IInv'
    OBVIOUS
<1> USE Constants DEF IInv
<1>0. toServer' \subseteq toServer /\ toClient' \subseteq toClient 
    BY DEF Lose
<1>1. TypeOK'
    <2>1. NetworkTypeOK'
        BY <1>0 DEF TypeOK, NetworkTypeOK, Lose
    <2> QED BY <2>1, ClientFrame, ServerFrame DEF TypeOK
<1>2. PacketInv' /\ TryInv'
    BY <1>0, ClientFrame DEF PacketInv
<1>3. DeliveryInv'
    BY <1>0 DEF DeliveryInv, clientVars, serverVars, requestVars, ACK
<1>4. ExecutionInv'
    BY <1>0 DEF ExecutionInv, AnswerExists, clientVars, serverVars, requestVars, responseVars,
                workVars, timerVars
<1>5. ResponseInv'
    BY <1>0 DEF ResponseInv, clientVars, serverVars, responseVars
<1> QED BY <1>1, <1>2, <1>3, <1>4, <1>5

\* The invariant is inductive.
LEMMA NextIInv == IInv /\ [Next]_vars => IInv'
<1> SUFFICES ASSUME IInv, [Next]_vars PROVE IInv'
    OBVIOUS
<1>1. CASE InvokerStep /\ UNCHANGED serverVars
    BY <1>1, SendRoundIInv, Phase1TimeoutIInv, EndRoundIInv, Phase2TimeoutIInv DEF InvokerStep
<1>2. CASE \E p \in toClient : InvokerReceive(p) /\ UNCHANGED serverVars
    BY <1>2, ReceiveForeignIInv, ReceivePhase1IInv, ReceiveNoDataIInv, ReceiveResponseIInv
       DEF InvokerReceive
<1>3. CASE \E p \in toServer : ServerReceive(p) /\ UNCHANGED clientVars
    BY <1>3, ReceivePieceIInv, ReceiveControlIInv, ReceiveResponsePhaseIInv DEF ServerReceive
<1>4. CASE (RunTask \/ StoreResponse \/ ReuseBuffer) /\ UNCHANGED clientVars
    BY <1>4, RunTaskIInv, StoreResponseIInv, ReuseBufferIInv
<1>5. CASE ServerTimers /\ UNCHANGED clientVars
    BY <1>5, RequestTimerIInv, ResponseTimerIInv DEF ServerTimers
<1>6. CASE Lose /\ UNCHANGED <<clientVars, serverVars>>
    BY <1>6, LoseIInv
<1>7. CASE Done \/ UNCHANGED vars
    <2>1. UNCHANGED networkVars /\ UNCHANGED clientVars /\ UNCHANGED serverVars
        BY <1>7 DEF Done, vars
    <2> USE <2>1 DEF IInv, networkVars
    <2>2. TypeOK' /\ TryInv'
        BY ClientFrame, ServerFrame DEF TypeOK, NetworkTypeOK
    <2>3. PacketInv' /\ DeliveryInv'
        BY DEF PacketInv, DeliveryInv, clientVars, serverVars, requestVars, ACK
    <2>4. ExecutionInv'
        BY DEF ExecutionInv, AnswerExists, clientVars, serverVars, requestVars, responseVars,
               workVars, timerVars
    <2>5. ResponseInv'
        BY DEF ResponseInv, clientVars, serverVars, responseVars
    <2> QED BY <2>2, <2>3, <2>4, <2>5
<1> QED BY <1>1, <1>2, <1>3, <1>4, <1>5, <1>6, <1>7 DEF Next
-----------------------------------------------------------------------------
(* The theorems *)

\* IInv holds in every reachable state of the exchange.
THEOREM Invariance == Spec => []IInv
BY InitIInv, NextIInv, PTL DEF Spec

\* Every variable of invoker.cpp, sub_reactor.cpp and the network keeps its
\* type; for the client's ack_accept and the server's responseAck that means
\* they never pass the number of pieces.
THEOREM TypeCorrect == Spec => []TypeOK
<1>1. IInv => TypeOK
    BY DEF IInv
<1> QED BY <1>1, Invariance, PTL

\* The client waits for the response only when the server has stored the whole
\* request, for every number of pieces and every loss and duplication.
THEOREM WaitsOnlyAfterDeliveryHolds == Spec => []WaitsOnlyAfterDelivery
<1>1. IInv => WaitsOnlyAfterDelivery
    BY DEF IInv, DeliveryInv, WaitsOnlyAfterDelivery, TypeOK, ServerTypeOK
<1> QED BY <1>1, Invariance, PTL

\* A request runs only when complete, and once for every request stored.
THEOREM OneExecutionPerRequestHolds == Spec => []OneExecutionPerRequest
<1>1. IInv => OneExecutionPerRequest
    BY DEF IInv, DeliveryInv, ExecutionInv, OneExecutionPerRequest, AllPieces, TypeOK, ServerTypeOK
<1> QED BY <1>1, Invariance, PTL

\* The server never counts a response piece the client does not hold.
THEOREM ResponseAckSoundHolds == Spec => []ResponseAckSound
<1>1. IInv => ResponseAckSound
    BY DEF IInv, ResponseInv, ResponseAckSound
<1> QED BY <1>1, Invariance, PTL

\* A call that succeeds has the complete response of a real execution.
THEOREM SuccessIsRealHolds == Spec => []SuccessIsReal
<1>1. IInv => SuccessIsReal
    <2> SUFFICES ASSUME IInv, client = "ok" PROVE executions > 0 /\ responseStored = Pieces(ResponsePieces)
        BY DEF SuccessIsReal
    <2>1. responseStored = Pieces(ResponsePieces)
        BY DEF IInv, ResponseInv
    <2>2. 0 \in Pieces(ResponsePieces)
        BY Constants DEF Pieces
    <2> QED BY <2>1, <2>2 DEF IInv, ExecutionInv, AnswerExists
<1> QED BY <1>1, Invariance, PTL

\* Only the pool executes, and only a client that has not returned moves.
LEMMA StepKinds ==
    ASSUME [Next]_vars
    PROVE  \/ RunTask /\ UNCHANGED client
           \/ UNCHANGED executions /\ (UNCHANGED client \/ client \notin Outcomes)
<1> USE DEF serverVars, workVars, clientVars
<1>1. CASE InvokerStep /\ UNCHANGED serverVars
    BY <1>1 DEF InvokerStep, SendRound, Phase1Timeout, EndRound, Phase2Timeout, Outcomes
<1>2. CASE \E p \in toClient : InvokerReceive(p) /\ UNCHANGED serverVars
    BY <1>2 DEF InvokerReceive, ReceiveForeign, ReceivePhase1, ReceiveNoData, ReceiveResponse, Outcomes
<1>3. CASE \E p \in toServer : ServerReceive(p) /\ UNCHANGED clientVars
    BY <1>3 DEF ServerReceive, ReceivePiece, ReceiveControl, ReceiveResponsePhase
<1>4. CASE (RunTask \/ StoreResponse \/ ReuseBuffer \/ ServerTimers) /\ UNCHANGED clientVars
    BY <1>4 DEF StoreResponse, ReuseBuffer, ServerTimers, RearmRequestTimer, ExpireRequest,
                RearmResponseTimer, ClearResponse
<1>5. CASE (Lose /\ UNCHANGED <<clientVars, serverVars>>) \/ Done \/ UNCHANGED vars
    BY <1>5 DEF Done, vars
<1> QED BY <1>1, <1>2, <1>3, <1>4, <1>5 DEF Next

\* The exchange implements the abstract remote call: at most MaxExpiry + 1
\* executions, one outcome, success only after an execution.
THEOREM Refinement == Spec => ImplementsCall
<1> USE DEF Call!callVars
<1>1. Init => Call!CallInit
    BY DEF Init, InvokerInit, ServerInit, Call!CallInit, Outcomes
<1>2. ASSUME IInv, IInv', [Next]_vars
      PROVE  [Call!CallNext]_(Call!callVars)
    <2>1. CASE RunTask /\ UNCHANGED client
        <3>1. executions < MaxExpiry + 1 /\ executions' = executions + 1
            BY <1>2, <2>1, Constants DEF IInv, ExecutionInv, TypeOK, ServerTypeOK, RunTask
        <3> QED BY <2>1, <3>1 DEF Call!CallNext, Call!Execute
    <2>2. CASE UNCHANGED executions /\ UNCHANGED client
        BY <2>2
    <2>3. CASE UNCHANGED executions /\ client \notin Outcomes
        <3>1. CASE client' = "ok"
            <4>1. executions' > 0
                <5>1. responseStored' = Pieces(ResponsePieces) /\ 0 \in Pieces(ResponsePieces)
                    BY <1>2, <3>1, Constants DEF IInv, ResponseInv, Pieces
                <5> QED BY <1>2, <5>1 DEF IInv, ExecutionInv, AnswerExists
            <4> QED BY <2>3, <3>1, <4>1 DEF Call!CallNext, Call!Succeed, Outcomes
        <3>2. CASE client' # "ok" /\ client' \in Outcomes
            BY <2>3, <3>2 DEF Call!CallNext, Call!Fail, Outcomes
        <3>3. CASE client' \notin Outcomes
            BY <2>3, <3>3 DEF Outcomes
        <3> QED BY <3>1, <3>2, <3>3
    <2> QED BY <1>2, <2>1, <2>2, <2>3, StepKinds
<1> QED BY <1>1, <1>2, Invariance, PTL DEF Spec, ImplementsCall, Call!CallSpec
=============================================================================
