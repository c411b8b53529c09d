---------------------- MODULE TransmitterExchangeProofs ----------------------
(***************************************************************************)
(* Proofs about TransmitterExchange, for every number of pieces of the     *)
(* request and of the response, every number of retries and every bound.   *)
(***************************************************************************)
EXTENDS TransmitterExchange, FiniteSetTheorems, WellFoundedInduction, TLAPS

-----------------------------------------------------------------------------
(* The network *)

\* getAckNumber is well defined: the number it returns is within bounds, every
\* piece below it is stored, and it is the first missing one or the end.
LEMMA AckNumber ==
    ASSUME NEW n \in Nat, NEW S
    PROVE  /\ getAckNumber(S, n) \in 0 .. n
           /\ Pieces(getAckNumber(S, n)) \subseteq S
           /\ getAckNumber(S, n) = n \/ getAckNumber(S, n) \notin S
<1> DEFINE T == {k \in 0 .. n : k = n \/ k \notin S}
<1>1. T \subseteq Nat /\ T # {}
    <2>1. n \in T
        OBVIOUS
    <2> QED BY <2>1
<1> DEFINE R == {q \in Nat \X Nat : q[1] < q[2]}
<1>2. IsWellFoundedOn(R, Nat)
    <2>1. R = OpToRel(<, Nat)
        BY Zenon DEF OpToRel
    <2> QED BY <2>1, NatLessThanWellFounded, Zenon
<1>3. PICK m \in T : \A y \in T : ~(<<y, m>> \in R)
    <2> HIDE DEF T, R
    <2> QED BY <1>1, <1>2, WFMin
<1>4. Pieces(m) \subseteq S
    <2> SUFFICES ASSUME NEW i \in Pieces(m) PROVE i \in S
        OBVIOUS
    <2>1. m \in 0 .. n /\ i \in 0 .. n /\ i < m
        BY DEF Pieces
    <2> QED BY <1>1, <1>3, <2>1
<1> QED BY <1>3, <1>4 DEF getAckNumber

\* What receiving a packet does to the network, on either side.
LEMMA ReceiveFacts ==
    /\ \A p : NetworkTypeOK /\ FromServer(p) =>
          p \in toClient /\ toClient' \subseteq toClient /\ faults' \in 0 .. MaxFaults
    /\ \A p : NetworkTypeOK /\ FromClient(p) =>
          p \in toServer /\ toServer' \subseteq toServer /\ faults' \in 0 .. MaxFaults
BY NetworkAssumption DEF NetworkTypeOK, FromServer, FromClient

USE DEF MessageId, NoId

-----------------------------------------------------------------------------
(* The inductive invariant *)

\* What the transmitter puts on the wire: piece orders and acknowledgements of
\* the response within their bounds.
FromTransmitter(p) ==
    /\ p \in Packets
    /\ p.type = "RequestSend" => p.num \in Pieces(PieceCount)
    /\ p.type = "ReceiverACK" => p.num \in 0 .. ResponsePieces

\* What the sub-reactor puts on the wire: acknowledgements of the request
\* within their bounds, and response data only of an execution.
FromSubReactor(p) ==
    /\ p \in Packets
    /\ p.type = "ReceiverACK" => p.num \in 0 .. PieceCount
    /\ p.phase = "Response" => p.num \in Pieces(ResponsePieces) /\ executions > 0

PacketInv == (\A p \in toServer : FromTransmitter(p)) /\ (\A p \in toClient : FromSubReactor(p))

\* An is_trigger that is set, or was deleted with its request, pays for one
\* execution, and every trace of an answer, on either side, comes from one.
ExecutionInv ==
    /\ tasks + executions <= expired + (IF triggered THEN 1 ELSE 0)
    /\ ready > 0 \/ hasResponse \/ responseStored # {} => executions > 0

\* The way of the call-back: is_trigger lets it start once, the message goes
\* after its end, and whatever claims success holds the whole response.
CallbackInv ==
    /\ is_trigger <=> work # "none"
    /\ callbacks = (IF work \in {"locking", "done"} THEN 1 ELSE 0)
    /\ outcome = "pending" <=> callbacks = 0
    /\ deleteDue \/ message = "deleted" => work = "done"
    /\ isSuccess \/ outcome \in {"ok", "raw"} => responseStored = Pieces(ResponsePieces)

IInv == TypeOK /\ PacketInv /\ ExecutionInv /\ CallbackInv

-----------------------------------------------------------------------------
(* Lemmas about the model's operators *)

\* The bounds are numbers.
LEMMA Constants ==
    /\ PieceCount \in Nat /\ PieceCount > 0 /\ ResponsePieces \in Nat /\ ResponsePieces > 0
    /\ MaxFaults \in Nat /\ MaxExpiry \in Nat /\ MaxStray \in Nat
    /\ TryTime \in Nat /\ TryTime > 0 /\ MaxTimers \in Nat /\ MaxTimers > 0
BY NetworkAssumption, ServerAssumption, TransmitterAssumption

\* send_data never sends, nor counts, a piece past the end of the request.
LEMMA WindowBound ==
    ASSUME NEW a \in 0 .. PieceCount
    PROVE  a + Cardinality(WindowFrom(a)) \in 0 .. PieceCount
<1> USE Constants
<1>1. WindowFrom(a) \subseteq a .. PieceCount - 1
    BY DEF WindowFrom, Pieces
<1>2. /\ IsFiniteSet(a .. PieceCount - 1)
      /\ Cardinality(a .. PieceCount - 1) = PieceCount - a
    BY FS_Interval
<1>3. Cardinality(WindowFrom(a)) \in Nat /\ Cardinality(WindowFrom(a)) <= PieceCount - a
    BY <1>1, <1>2, FS_Subset, FS_CardinalityType
<1> QED BY <1>3

\* The five packets of the transmitter.
LEMMA TransmitterPackets ==
    /\ \A k \in Pieces(PieceCount) : FromTransmitter(Packet("Request", "RequestSend", k))
    /\ \A k \in 0 .. ResponsePieces : FromTransmitter(Packet("Response", "ReceiverACK", k))
    /\ FromTransmitter(Packet("Request", "RequestACK", 0))
    /\ FromTransmitter(Packet("Response", "TimedOutRequestHeartbeat", 0))
BY Constants DEF FromTransmitter, Packet, Packets, Phases, ProtocolTypes, Pieces

\* The packets of the sub-reactor that carry no response data.
LEMMA ServerPackets ==
    /\ \A k \in 0 .. PieceCount : FromSubReactor(ACK(k)) 
    /\ FromSubReactor(Reset) /\ FromSubReactor(Heartbeat) /\ FromSubReactor(Exhausted)
<1> USE Constants DEF FromSubReactor, Packet, Packets, Phases, ProtocolTypes
<1>1. \A k \in 0 .. PieceCount : FromSubReactor(ACK(k)) 
    BY DEF ACK
<1>2. FromSubReactor(Reset) /\ FromSubReactor(Heartbeat) /\ FromSubReactor(Exhausted)
    BY DEF Reset, Heartbeat, Exhausted
<1> QED BY <1>1, <1>2

\* The packets with response data, once there was an execution.
LEMMA ResponsePackets ==
    ASSUME executions > 0, NEW ack \in 0 .. ResponsePieces, NEW intact \in BOOLEAN
    PROVE  \A q \in ResponseData(ack, intact) : FromSubReactor(q)
<1> USE Constants DEF FromSubReactor, Packet, Packets, Phases, ProtocolTypes, Pieces
<1>1. CASE ack < ResponsePieces
    <2>1. ResponsePiece(ack, intact) = [phase |-> "Response", type |-> "RequestSend", num |-> ack,
              id |-> 1, data |-> IF intact THEN "good" ELSE "bad"]
        BY DEF ResponsePiece
    <2>2. FromSubReactor(ResponsePiece(ack, intact))
        BY <1>1, <2>1
    <2> QED BY <1>1, <2>2 DEF ResponseData
<1>2. CASE ~(ack < ResponsePieces)
    BY <1>2 DEF ResponseData
<1> QED BY <1>1, <1>2

\* Whatever set of its packets the transmitter sends, and whether or not the
\* network takes it, only its packets are in flight.
LEMMA SendFacts ==
    ASSUME NEW S, \A q \in S : FromTransmitter(q), PacketInv, SendPackets(S)
    PROVE  \A q \in toServer' : FromTransmitter(q)
BY DEF SendPackets, PacketInv

\* SendData: the packets, ack_expect and the timer's index are in range.
LEMMA SendDataFacts ==
    ASSUME NEW a \in 0 .. PieceCount, PacketInv, TransmitterTypeOK, SendData(a)
    PROVE  /\ \A q \in toServer' : FromTransmitter(q)
           /\ ack_expect' \in 0 .. PieceCount
           /\ requestTimers' \in [0 .. PieceCount -> 0 .. MaxTimers]
<1> USE Constants
<1>1. \A q \in {Packet("Request", "RequestSend", i) : i \in WindowFrom(a)} : FromTransmitter(q)
    BY TransmitterPackets DEF WindowFrom
<1>2. \A q \in toServer' : FromTransmitter(q)
    BY <1>1, SendFacts DEF SendData
<1>3. ack_expect' \in 0 .. PieceCount
    BY WindowBound DEF SendData
<1>4. requestTimers' \in [0 .. PieceCount -> 0 .. MaxTimers]
    BY DEF SendData, TransmitterTypeOK, OneMore
<1> QED BY <1>2, <1>3, <1>4

\* The invariant holds at the start.
LEMMA InitIInv == Init => IInv
<1> SUFFICES ASSUME Init PROVE IInv
    OBVIOUS
<1> USE Constants DEF Init, NetworkInit, TransmitterInit, ServerInit
<1>1. TypeOK
    <2>1. NetworkTypeOK
        BY DEF NetworkTypeOK
    <2>2. TransmitterFlagsOK /\ ServerFlagsOK
        BY Zenon DEF TransmitterFlagsOK, ServerFlagsOK
    <2>3. requestTimers \in [0 .. PieceCount -> 0 .. MaxTimers]
        BY DEF NoTimers
    <2>4. TransmitterTypeOK
        BY <2>2, <2>3 DEF TransmitterTypeOK, LoopStages, WorkStages, Phases
    <2>5. ServerTypeOK
        BY <2>2 DEF ServerTypeOK
    <2> QED BY <2>1, <2>4, <2>5 DEF TypeOK
<1>2. PacketInv /\ ExecutionInv /\ CallbackInv
    BY DEF PacketInv, ExecutionInv, CallbackInv
<1> QED BY <1>1, <1>2 DEF IInv
-----------------------------------------------------------------------------
(* The transmitter's steps.  What each has to show is the same: *)

\* ClientGoal is what a step of the transmitter has to establish, the server's
\* variables and the packets towards the client being as they were, or fewer.
LEMMA ClientGoal ==
    ASSUME IInv, UNCHANGED serverVars,
           \A q \in toServer' : FromTransmitter(q),
           toClient' \subseteq toClient, faults' \in 0 .. MaxFaults,
           TransmitterTypeOK', CallbackInv', responseStored' # {} => executions > 0
    PROVE  IInv'
<1> USE DEF IInv, serverVars, workVars
<1>1. PacketInv'
    BY DEF PacketInv, FromTransmitter, FromSubReactor
<1>2. NetworkTypeOK'
    BY <1>1 DEF PacketInv, FromTransmitter, FromSubReactor, NetworkTypeOK
<1>3. ServerTypeOK'
    BY DEF TypeOK, ServerTypeOK, ServerFlagsOK, requestVars, responseVars, timerVars
<1>4. ExecutionInv'
    BY DEF ExecutionInv, requestVars, responseVars, timerVars
<1> QED BY <1>1, <1>2, <1>3, <1>4 DEF TypeOK

\* The steps that send and receive nothing.
LEMMA QuietSteps ==
    ASSUME IInv, UNCHANGED serverVars,
           Send \/ Stop \/ StopImmediately \/ LoopTest \/ Doze \/ JoinAsync \/ DecodeResponse
           \/ RunCallback \/ PostDelete \/ EndTimers \/ DeleteMessage \/ EraseActive
    PROVE  IInv'
<1> USE Constants DEF IInv
<1> USE DEF taskVars, waitVars, doneVars, backVars
<1>1. UNCHANGED networkVars
    BY DEF Send, Stop, StopImmediately, StopLoop, LoopTest, Doze, JoinAsync, DecodeResponse,
           RunCallback, PostDelete, EndTimers, DeleteMessage, EraseActive
<1>2. UNCHANGED responseStored
    BY DEF Send, Stop, StopImmediately, StopLoop, LoopTest, Doze, JoinAsync, DecodeResponse,
           RunCallback, PostDelete, EndTimers, DeleteMessage, EraseActive
<1>3. TransmitterTypeOK'
    <2>0. TransmitterTypeOK
        BY DEF TypeOK
    <2>1. TransmitterFlagsOK'
        <3>0. TransmitterFlagsOK
            BY <2>0 DEF TransmitterTypeOK
        <3>1. CASE Send \/ Stop \/ StopImmediately \/ LoopTest \/ Doze \/ JoinAsync
            BY ONLY <3>0, <3>1, Zenon DEF TransmitterFlagsOK, Send, Stop, StopImmediately, StopLoop,
                LoopTest, Doze, JoinAsync, taskVars, doneVars
        <3>2. CASE DecodeResponse \/ RunCallback \/ PostDelete \/ EndTimers \/ DeleteMessage
                   \/ EraseActive
            BY ONLY <3>0, <3>2, Zenon DEF TransmitterFlagsOK, DecodeResponse, RunCallback,
                PostDelete, EndTimers, DeleteMessage, EraseActive, taskVars, doneVars
        <3> QED BY <3>1, <3>2
    <2>2. CASE Send \/ Stop \/ StopImmediately \/ LoopTest \/ Doze \/ JoinAsync
        BY <2>0, <2>1, <2>2 DEF TransmitterTypeOK, Send, Stop, StopImmediately, StopLoop,
            LoopTest, Doze, JoinAsync, Notified, LoopStages
    <2>3. CASE DecodeResponse \/ RunCallback \/ PostDelete \/ EndTimers \/ EraseActive
        <3>1. CASE DecodeResponse \/ RunCallback
            BY <2>0, <2>1, <3>1 DEF TransmitterTypeOK, DecodeResponse, RunCallback, WorkStages
        <3>2. CASE PostDelete
            BY <2>0, <2>1, <3>2 DEF TransmitterTypeOK, PostDelete, WorkStages
        <3>3. CASE EndTimers \/ EraseActive
            BY <2>0, <2>1, <3>3 DEF TransmitterTypeOK, EndTimers, EraseActive, LoopStages
        <3> QED BY <2>3, <3>1, <3>2, <3>3
    <2>4. CASE DeleteMessage
        <3>1. requestTimers' \in [0 .. PieceCount -> 0 .. MaxTimers]
            BY <2>4 DEF DeleteMessage, NoTimers
        <3> QED BY <2>0, <2>1, <2>4, <3>1 DEF TransmitterTypeOK, DeleteMessage, AfterTimer, LoopStages,
                Phases
    <2> QED BY <2>2, <2>3, <2>4
<1>4. CallbackInv'
    <2>0. CallbackInv /\ UNCHANGED responseStored
        BY <1>2
    <2>1. CASE Send \/ Stop \/ StopImmediately \/ LoopTest \/ Doze \/ JoinAsync \/ EndTimers
               \/ EraseActive
        BY ONLY <2>0, <2>1 DEF CallbackInv, Send, Stop, StopImmediately, StopLoop, LoopTest, Doze,
            JoinAsync, EndTimers, EraseActive, taskVars, doneVars, backVars
    <2>2. CASE DecodeResponse \/ RunCallback
        BY ONLY <2>0, <2>2 DEF CallbackInv, DecodeResponse, RunCallback, backVars
    <2>3. CASE PostDelete
        BY ONLY <2>0, <2>3 DEF CallbackInv, PostDelete, backVars
    <2>4. CASE DeleteMessage
        BY ONLY <2>0, <2>4 DEF CallbackInv, DeleteMessage, doneVars, backVars
    <2> QED BY <2>1, <2>2, <2>3, <2>4
<1> QED BY <1>1, <1>2, <1>3, <1>4, ClientGoal DEF networkVars, PacketInv, ExecutionInv, TypeOK,
        NetworkTypeOK

\* try_trigger: is_trigger lets the call-back start once.
LEMMA TriggerFacts ==
    ASSUME CallbackInv, TransmitterTypeOK, NEW then \in LoopStages, NEW join \in LoopStages,
           TryTrigger(then, join), UNCHANGED <<callbacks, outcome, deleteDue, message>>
    PROVE  /\ is_trigger' = TRUE /\ work' # "none"
           /\ eraseDue' \in BOOLEAN
           /\ loop' \in LoopStages
           /\ work' \in WorkStages
           /\ callbacks' = (IF work' \in {"locking", "done"} THEN 1 ELSE 0)
           /\ outcome' = "pending" <=> callbacks' = 0
           /\ deleteDue' \/ message' = "deleted" => work' = "done"
<1>0. work \in WorkStages /\ eraseDue \in BOOLEAN /\ linked \in BOOLEAN
    BY Zenon DEF TransmitterTypeOK, TransmitterFlagsOK
<1>1. CASE is_trigger
    <2>1. is_trigger' = is_trigger /\ work' = work /\ eraseDue' = eraseDue /\ loop' = then
        BY <1>1 DEF TryTrigger
    <2>2. is_trigger' = TRUE /\ eraseDue' \in BOOLEAN
        BY <1>0, <1>1, <2>1, Zenon DEF TransmitterTypeOK, TransmitterFlagsOK
    <2> QED BY <1>0, <1>1, <2>1, <2>2 DEF CallbackInv
<1>2. CASE ~is_trigger
    <2>1. is_trigger' = TRUE /\ eraseDue' = linked
        BY <1>2 DEF TryTrigger
    <2>2. work' \in {"queued", "async"} /\ loop' \in LoopStages
        BY <1>2 DEF TryTrigger
    <2>3. work = "none"
        BY <1>2 DEF CallbackInv
    <2> QED BY <1>0, <2>1, <2>2, <2>3 DEF CallbackInv, WorkStages
<1> QED BY <1>1, <1>2

\* What a step of the loop that receives a packet or runs a timer has to show.
LEMMA TaskGoal ==
    ASSUME IInv, UNCHANGED serverVars,
           UNCHANGED <<linked, run_state, message, active, deleteDue, callbacks, outcome>>,
           sent' \in BOOLEAN, phase' \in Phases,
           ack_accept' \in 0 .. PieceCount, ack_expect' \in 0 .. PieceCount,
           timeout_time' \in 0 .. TryTime + 1,
           responseStored' \in SUBSET Pieces(ResponsePieces), responseStored \subseteq responseStored',
           responseStored' # {} => executions > 0,
           requestTimers' \in [0 .. PieceCount -> 0 .. MaxTimers],
           responseTimers' \in 0 .. MaxTimers,
           \A q \in toServer' : FromTransmitter(q),
           toClient' \subseteq toClient, faults' \in 0 .. MaxFaults,
           \/ UNCHANGED doneVars /\ loop' \in LoopStages
           \/ /\ isSuccess' \in BOOLEAN
              /\ isSuccess' => responseStored' = Pieces(ResponsePieces)
              /\ \E then, join \in LoopStages : TryTrigger(then, join)
    PROVE  IInv'
<1>0. TransmitterTypeOK /\ CallbackInv
    BY DEF IInv, TypeOK
<1>1. CASE UNCHANGED doneVars /\ loop' \in LoopStages
    <2>1. TransmitterFlagsOK'
        BY <1>0, <1>1, Zenon DEF TransmitterTypeOK, TransmitterFlagsOK, doneVars
    <2>2. TransmitterTypeOK'
        BY <1>0, <1>1, <2>1 DEF TransmitterTypeOK, doneVars
    <2>3. CallbackInv'
        BY <1>0, <1>1 DEF CallbackInv, doneVars
    <2> QED BY <2>2, <2>3, ClientGoal
<1>2. ASSUME NEW then \in LoopStages, NEW join \in LoopStages, TryTrigger(then, join),
             isSuccess' \in BOOLEAN, isSuccess' => responseStored' = Pieces(ResponsePieces)
      PROVE  IInv'
    <2>1. /\ is_trigger' = TRUE /\ work' # "none"
          /\ eraseDue' \in BOOLEAN
          /\ loop' \in LoopStages
          /\ work' \in WorkStages
        BY <1>0, <1>2, TriggerFacts
    <2>2. /\ callbacks' = (IF work' \in {"locking", "done"} THEN 1 ELSE 0)
          /\ outcome' = "pending" <=> callbacks' = 0
          /\ deleteDue' \/ message' = "deleted" => work' = "done"
        BY <1>0, <1>2, TriggerFacts
    <2>3. TransmitterFlagsOK'
        BY <1>0, <1>2, <2>1, Zenon DEF TransmitterTypeOK, TransmitterFlagsOK
    <2>4. TransmitterTypeOK'
        BY <1>0, <2>1, <2>3 DEF TransmitterTypeOK
    <2>5. outcome' \in {"ok", "raw"} => responseStored' = Pieces(ResponsePieces)
        BY <1>0 DEF CallbackInv
    <2>6. CallbackInv'
        BY <1>2, <2>1, <2>2, <2>5 DEF CallbackInv
    <2> QED BY <2>4, <2>6, ClientGoal
<1> QED BY <1>1, <1>2

LEMMA SendMessagesStep == ASSUME IInv, UNCHANGED serverVars, SendMessages PROVE IInv'
<1> USE Constants
<1>0. TransmitterTypeOK /\ PacketInv /\ CallbackInv /\ ExecutionInv /\ NetworkTypeOK
    BY DEF IInv, TypeOK
<1>1. /\ loop' = "recv" /\ sent' \in BOOLEAN
      /\ UNCHANGED <<linked, run_state, message, active, phase, ack_accept, timeout_time,
                     responseStored, responseTimers, is_trigger, isSuccess, work, eraseDue,
                     deleteDue, callbacks, outcome, toClient, faults>>
    BY <1>0, Zenon DEF SendMessages, doneVars, backVars, TransmitterTypeOK, TransmitterFlagsOK
<1>2. /\ \A q \in toServer' : FromTransmitter(q)
      /\ ack_expect' \in 0 .. PieceCount
      /\ requestTimers' \in [0 .. PieceCount -> 0 .. MaxTimers]
    <2>1. CASE WantsSend
        <3>1. ack_accept \in 0 .. PieceCount /\ SendData(ack_accept)
            BY <1>0, <2>1 DEF SendMessages, TransmitterTypeOK
        <3> QED BY <1>0, <3>1, SendDataFacts
    <2>2. CASE ~WantsSend
        BY <1>0, <2>2 DEF SendMessages, TransmitterTypeOK, PacketInv
    <2> QED BY <2>1, <2>2
<1>3. TransmitterTypeOK'
    <2>1. TransmitterFlagsOK'
        BY <1>0, <1>1, Zenon DEF TransmitterTypeOK, TransmitterFlagsOK
    <2> QED BY <1>0, <1>1, <1>2, <2>1 DEF TransmitterTypeOK, LoopStages
<1>4. CallbackInv' /\ (responseStored' # {} => executions > 0)
    BY <1>0, <1>1 DEF CallbackInv, ExecutionInv
<1>5. toClient' \subseteq toClient /\ faults' \in 0 .. MaxFaults
    BY <1>0, <1>1 DEF NetworkTypeOK
<1> QED BY <1>2, <1>3, <1>4, <1>5, ClientGoal

\* What the two timers leave alone.
LEMMA TimerFrame ==
    ASSUME IInv, OneTimer
    PROVE  /\ TransmitterTypeOK /\ PacketInv /\ CallbackInv /\ ExecutionInv
           /\ toClient' \subseteq toClient /\ faults' \in 0 .. MaxFaults
           /\ responseStored' # {} => executions > 0
           /\ UNCHANGED <<linked, run_state, message, active, deleteDue, phase, ack_accept, ack_expect,
                          sent, responseStored, callbacks, outcome>>
           /\ AfterTimer \in LoopStages /\ "joinTimer" \in LoopStages
           /\ CountedTimeout \in 0 .. TryTime + 1
<1>1. CountedTimeout \in 0 .. TryTime + 1
    BY Constants DEF IInv, TypeOK, TransmitterTypeOK, CountedTimeout
<1>2. AfterTimer \in LoopStages /\ "joinTimer" \in LoopStages
    BY DEF AfterTimer, LoopStages
<1>3. /\ toClient' \subseteq toClient /\ faults' \in 0 .. MaxFaults
      /\ responseStored' # {} => executions > 0
    BY DEF IInv, TypeOK, NetworkTypeOK, OneTimer, ExecutionInv
<1>4. TransmitterTypeOK /\ PacketInv /\ CallbackInv /\ ExecutionInv
    BY DEF IInv, TypeOK
<1> QED BY <1>1, <1>2, <1>3, <1>4 DEF OneTimer, backVars

LEMMA TimeoutEventStep ==
    ASSUME IInv, UNCHANGED serverVars, NEW a \in 0 .. PieceCount, TimeoutEvent(a) PROVE IInv'
<1> USE Constants
<1>0. OneTimer /\ requestTimers[a] > 0 /\ responseTimers' = responseTimers
    BY DEF TimeoutEvent
<1>1. /\ TransmitterTypeOK /\ PacketInv /\ CallbackInv /\ ExecutionInv
      /\ toClient' \subseteq toClient /\ faults' \in 0 .. MaxFaults
      /\ responseStored' # {} => executions > 0
    BY <1>0, TimerFrame
<1>2. /\ UNCHANGED <<linked, run_state, message, active, deleteDue, phase, ack_accept, ack_expect,
                     sent, responseStored, callbacks, outcome>>
      /\ AfterTimer \in LoopStages /\ "joinTimer" \in LoopStages
      /\ CountedTimeout \in 0 .. TryTime + 1
    BY <1>0, TimerFrame
<1>3. requestTimers' = requestTimers \/ requestTimers' = [requestTimers EXCEPT ![a] = @ - 1]
    BY DEF TimeoutEvent
<1>4. requestTimers' \in [0 .. PieceCount -> 0 .. MaxTimers]
    <2>1. requestTimers \in [0 .. PieceCount -> 0 .. MaxTimers]
        BY <1>1 DEF TransmitterTypeOK
    <2>2. requestTimers[a] - 1 \in 0 .. MaxTimers
        BY ONLY <1>0, <2>1, Constants, a \in 0 .. PieceCount
    <2> QED BY <1>3, <2>1, <2>2
<1>5. timeout_time' \in 0 .. TryTime + 1
    BY <1>1, <1>2 DEF TimeoutEvent, TransmitterTypeOK
<1>6. \A q \in toServer' : FromTransmitter(q)
    <2>1. toServer' = toServer \/ SendPackets({Packet("Request", "RequestACK", 0)})
        BY DEF TimeoutEvent
    <2> QED BY <1>1, <2>1, SendFacts, TransmitterPackets DEF PacketInv
<1>7. \/ UNCHANGED doneVars /\ loop' \in LoopStages
      \/ /\ isSuccess' \in BOOLEAN
         /\ isSuccess' => responseStored' = Pieces(ResponsePieces)
         /\ \E then, join \in LoopStages : TryTrigger(then, join)
    <2>1. \/ isSuccess' = FALSE /\ TryTrigger(AfterTimer, "joinTimer")
          \/ UNCHANGED doneVars /\ loop' = AfterTimer
        BY DEF TimeoutEvent
    <2> QED BY <1>2, <2>1, Zenon
<1>8. /\ sent' \in BOOLEAN /\ phase' \in Phases
      /\ ack_accept' \in 0 .. PieceCount /\ ack_expect' \in 0 .. PieceCount
      /\ responseTimers' \in 0 .. MaxTimers
      /\ responseStored' \in SUBSET Pieces(ResponsePieces) /\ responseStored \subseteq responseStored'
    BY <1>0, <1>1, <1>2, Zenon DEF TransmitterTypeOK, TransmitterFlagsOK
<1> QED BY <1>1, <1>2, <1>4, <1>5, <1>6, <1>7, <1>8, TaskGoal

LEMMA ResponseTimeoutEventStep ==
    ASSUME IInv, UNCHANGED serverVars, ResponseTimeoutEvent PROVE IInv'
<1> USE Constants
<1>0. OneTimer /\ responseTimers > 0 /\ requestTimers' = requestTimers
    BY DEF ResponseTimeoutEvent
<1>1. /\ TransmitterTypeOK /\ PacketInv /\ CallbackInv /\ ExecutionInv
      /\ toClient' \subseteq toClient /\ faults' \in 0 .. MaxFaults
      /\ responseStored' # {} => executions > 0
    BY <1>0, TimerFrame
<1>2. /\ UNCHANGED <<linked, run_state, message, active, deleteDue, phase, ack_accept, ack_expect,
                     sent, responseStored, callbacks, outcome>>
      /\ AfterTimer \in LoopStages /\ "joinTimer" \in LoopStages
      /\ CountedTimeout \in 0 .. TryTime + 1
    BY <1>0, TimerFrame
<1>4. responseTimers' \in 0 .. MaxTimers
    <2>1. responseTimers' = responseTimers \/ responseTimers' = responseTimers - 1
        BY DEF ResponseTimeoutEvent
    <2> QED BY <1>0, <1>1, <2>1 DEF TransmitterTypeOK
<1>5. timeout_time' \in 0 .. TryTime + 1
    BY <1>2 DEF ResponseTimeoutEvent
<1>6. \A q \in toServer' : FromTransmitter(q)
    <2>1. toServer' = toServer \/ SendPackets({Packet("Response", "TimedOutRequestHeartbeat", 0)})
        BY DEF ResponseTimeoutEvent
    <2> QED BY <1>1, <2>1, SendFacts, TransmitterPackets DEF PacketInv
<1>7. \/ UNCHANGED doneVars /\ loop' \in LoopStages
      \/ /\ isSuccess' \in BOOLEAN
         /\ isSuccess' => responseStored' = Pieces(ResponsePieces)
         /\ \E then, join \in LoopStages : TryTrigger(then, join)
    <2>1. \/ isSuccess' = (isSuccess /\ is_trigger) /\ TryTrigger(AfterTimer, "joinTimer")
          \/ UNCHANGED doneVars /\ loop' = AfterTimer
        BY DEF ResponseTimeoutEvent
    <2>2. isSuccess => responseStored = Pieces(ResponsePieces)
        BY <1>1 DEF CallbackInv
    <2> QED BY <1>2, <2>1, <2>2, Zenon
<1>8. /\ sent' \in BOOLEAN /\ phase' \in Phases
      /\ ack_accept' \in 0 .. PieceCount /\ ack_expect' \in 0 .. PieceCount
      /\ requestTimers' \in [0 .. PieceCount -> 0 .. MaxTimers]
      /\ responseStored' \in SUBSET Pieces(ResponsePieces) /\ responseStored \subseteq responseStored'
    BY <1>0, <1>1, <1>2, Zenon DEF TransmitterTypeOK, TransmitterFlagsOK
<1> QED BY <1>1, <1>2, <1>4, <1>5, <1>6, <1>7, <1>8, TaskGoal

-----------------------------------------------------------------------------
(* The transmitter's packets *)

\* The packet of a message that is gone changes no task.
LEMMA ReceiveUnknownStep == ASSUME IInv, UNCHANGED serverVars, NEW p, ReceiveUnknown(p) PROVE IInv'
<1>0. TransmitterTypeOK /\ PacketInv /\ CallbackInv /\ ExecutionInv /\ NetworkTypeOK
    BY DEF IInv, TypeOK
<1>1. toClient' \subseteq toClient /\ faults' \in 0 .. MaxFaults
    BY <1>0, ReceiveFacts DEF ReceiveUnknown
<1>2. TransmitterTypeOK'
    <2>1. TransmitterFlagsOK'
        BY <1>0, Zenon DEF ReceiveUnknown, TransmitterTypeOK, TransmitterFlagsOK, taskVars, doneVars
    <2> QED BY <1>0, <2>1 DEF ReceiveUnknown, TransmitterTypeOK, taskVars, waitVars, doneVars,
            backVars, LoopStages
<1>3. CallbackInv' /\ (responseStored' # {} => executions > 0)
    BY <1>0 DEF ReceiveUnknown, CallbackInv, ExecutionInv, taskVars, doneVars, backVars
<1>4. \A q \in toServer' : FromTransmitter(q)
    BY <1>0 DEF ReceiveUnknown, PacketInv
<1> QED BY <1>1, <1>2, <1>3, <1>4, ClientGoal

\* What every packet of a message in `messages` finds, and leaves alone.
LEMMA KnownFrame ==
    ASSUME IInv, NEW p, Known(p)
    PROVE  /\ TransmitterTypeOK /\ PacketInv /\ CallbackInv /\ ExecutionInv /\ FromSubReactor(p)
           /\ toClient' \subseteq toClient /\ faults' \in 0 .. MaxFaults
           /\ UNCHANGED <<linked, run_state, message, active, deleteDue, callbacks, outcome>>
           /\ sent' \in BOOLEAN /\ loop = "recv" /\ loop \in LoopStages
           /\ \A t \in Kept : t \in 0 .. MaxTimers /\ OneMore(t) \in 0 .. MaxTimers
<1>1. TransmitterTypeOK /\ PacketInv /\ CallbackInv /\ ExecutionInv /\ NetworkTypeOK
    BY DEF IInv, TypeOK
<1>2. p \in toClient /\ toClient' \subseteq toClient /\ faults' \in 0 .. MaxFaults
    BY <1>1, ReceiveFacts DEF Known
<1>3. FromSubReactor(p)
    BY <1>1, <1>2 DEF PacketInv
<1>4. \A t \in Kept : t \in 0 .. MaxTimers /\ OneMore(t) \in 0 .. MaxTimers
    BY <1>1, Constants DEF Kept, OneMore, TransmitterTypeOK
<1>5. /\ UNCHANGED <<linked, run_state, message, active, deleteDue, callbacks, outcome>>
      /\ sent' \in BOOLEAN /\ loop = "recv" /\ loop \in LoopStages
    BY Zenon DEF Known, backVars, LoopStages
<1> QED BY <1>1, <1>2, <1>3, <1>4, <1>5

LEMMA ReceiveACKStep == ASSUME IInv, UNCHANGED serverVars, NEW p, ReceiveACK(p) PROVE IInv'
<1> USE Constants
<1>0. Known(p)
    BY DEF ReceiveACK
<1>1. /\ TransmitterTypeOK /\ PacketInv /\ CallbackInv /\ ExecutionInv /\ FromSubReactor(p)
      /\ \A t \in Kept : t \in 0 .. MaxTimers /\ OneMore(t) \in 0 .. MaxTimers
      /\ loop \in LoopStages
    BY <1>0, KnownFrame
<1>2. /\ toClient' \subseteq toClient /\ faults' \in 0 .. MaxFaults
      /\ UNCHANGED <<linked, run_state, message, active, deleteDue, callbacks, outcome>>
      /\ sent' \in BOOLEAN
    BY <1>0, KnownFrame
<1>3. ack_accept' \in 0 .. PieceCount
    BY <1>1 DEF ReceiveACK, FromSubReactor, TransmitterTypeOK
<1>4. /\ ack_expect' \in 0 .. PieceCount /\ responseStored' = responseStored
      /\ requestTimers' \in [0 .. PieceCount -> 0 .. MaxTimers]
      /\ UNCHANGED doneVars /\ loop' \in LoopStages
    BY <1>1 DEF ReceiveACK, TransmitterTypeOK
<1>5. PICK t \in Kept :
         IF p.num > ack_accept /\ p.num = PieceCount
         THEN phase' = "Response" /\ AskResponse(t)
         ELSE responseTimers' = t /\ timeout_time' = 0 /\ UNCHANGED <<phase, toServer>>
    BY DEF ReceiveACK
<1>6. phase' \in Phases /\ responseTimers' \in 0 .. MaxTimers /\ timeout_time' \in 0 .. TryTime + 1
    BY <1>1, <1>5 DEF AskResponse, TransmitterTypeOK, Phases
<1>7. \A q \in toServer' : FromTransmitter(q)
    <2>1. toServer' = toServer \/ SendPackets({Packet("Response", "TimedOutRequestHeartbeat", 0)})
        BY <1>5 DEF AskResponse
    <2> QED BY <1>1, <2>1, SendFacts, TransmitterPackets DEF PacketInv
<1>8. /\ responseStored' \in SUBSET Pieces(ResponsePieces) /\ responseStored \subseteq responseStored'
      /\ responseStored' # {} => executions > 0
    BY <1>1, <1>4 DEF TransmitterTypeOK, ExecutionInv
<1> QED BY <1>2, <1>3, <1>4, <1>6, <1>7, <1>8, TaskGoal

LEMMA ReceiveResetStep == ASSUME IInv, UNCHANGED serverVars, NEW p, ReceiveReset(p) PROVE IInv'
<1> USE Constants
<1>0. Known(p) /\ SendData(0) /\ 0 \in 0 .. PieceCount
    BY DEF ReceiveReset
<1>1. /\ TransmitterTypeOK /\ PacketInv /\ ExecutionInv
      /\ \A t \in Kept : t \in 0 .. MaxTimers /\ OneMore(t) \in 0 .. MaxTimers
      /\ loop \in LoopStages
    BY <1>0, KnownFrame
<1>2. /\ toClient' \subseteq toClient /\ faults' \in 0 .. MaxFaults
      /\ UNCHANGED <<linked, run_state, message, active, deleteDue, callbacks, outcome>>
      /\ sent' \in BOOLEAN
    BY <1>0, KnownFrame
<1>3. /\ \A q \in toServer' : FromTransmitter(q)
      /\ ack_expect' \in 0 .. PieceCount
      /\ requestTimers' \in [0 .. PieceCount -> 0 .. MaxTimers]
    BY <1>0, <1>1, SendDataFacts
<1>4. /\ ack_accept' \in 0 .. PieceCount /\ timeout_time' \in 0 .. TryTime + 1
      /\ responseTimers' \in 0 .. MaxTimers /\ phase' \in Phases
      /\ responseStored' = responseStored
      /\ UNCHANGED doneVars /\ loop' \in LoopStages
    BY <1>1 DEF ReceiveReset, TransmitterTypeOK
<1>5. /\ responseStored' \in SUBSET Pieces(ResponsePieces) /\ responseStored \subseteq responseStored'
      /\ responseStored' # {} => executions > 0
    BY <1>1, <1>4 DEF TransmitterTypeOK, ExecutionInv
<1> QED BY <1>2, <1>3, <1>4, <1>5, TaskGoal

LEMMA ReceiveNoDataStep ==
    ASSUME IInv, UNCHANGED serverVars, NEW p, ReceiveHeartbeat(p) \/ ReceiveEarly(p) PROVE IInv'
<1> USE Constants
<1>0. Known(p)
    BY DEF ReceiveHeartbeat, ReceiveEarly
<1>1. /\ TransmitterTypeOK /\ PacketInv /\ ExecutionInv
      /\ \A t \in Kept : t \in 0 .. MaxTimers /\ OneMore(t) \in 0 .. MaxTimers
      /\ loop \in LoopStages
    BY <1>0, KnownFrame
<1>2. /\ toClient' \subseteq toClient /\ faults' \in 0 .. MaxFaults
      /\ UNCHANGED <<linked, run_state, message, active, deleteDue, callbacks, outcome>>
      /\ sent' \in BOOLEAN
    BY <1>0, KnownFrame
<1>3. /\ ack_accept' \in 0 .. PieceCount /\ ack_expect' \in 0 .. PieceCount
      /\ timeout_time' \in 0 .. TryTime + 1
      /\ responseTimers' \in 0 .. MaxTimers /\ phase' \in Phases
      /\ requestTimers' \in [0 .. PieceCount -> 0 .. MaxTimers]
      /\ responseStored' = responseStored /\ toServer' = toServer
      /\ UNCHANGED doneVars /\ loop' \in LoopStages
    BY <1>1 DEF ReceiveHeartbeat, ReceiveEarly, TransmitterTypeOK, Phases
<1>4. /\ responseStored' \in SUBSET Pieces(ResponsePieces) /\ responseStored \subseteq responseStored'
      /\ responseStored' # {} => executions > 0
      /\ \A q \in toServer' : FromTransmitter(q)
    BY <1>1, <1>3 DEF TransmitterTypeOK, ExecutionInv, PacketInv
<1> QED BY <1>2, <1>3, <1>4, TaskGoal

\* A piece of the response: the call is a success only when none is missing.
LEMMA ReceiveResponseStep == ASSUME IInv, UNCHANGED serverVars, NEW p, ReceiveResponse(p) PROVE IInv'
<1> USE Constants
<1>0. Known(p)
    BY DEF ReceiveResponse
<1>1. /\ TransmitterTypeOK /\ PacketInv /\ ExecutionInv /\ FromSubReactor(p)
      /\ \A t \in Kept : t \in 0 .. MaxTimers /\ OneMore(t) \in 0 .. MaxTimers
      /\ loop \in LoopStages
    BY <1>0, KnownFrame
<1>2. /\ toClient' \subseteq toClient /\ faults' \in 0 .. MaxFaults
      /\ UNCHANGED <<linked, run_state, message, active, deleteDue, callbacks, outcome>>
      /\ sent' \in BOOLEAN
    BY <1>0, KnownFrame
<1>3. PICK ack : ack = getAckNumber(responseStored', ResponsePieces)
    OBVIOUS
<1>4. ack \in 0 .. ResponsePieces /\ Pieces(ack) \subseteq responseStored'
    BY <1>3, AckNumber
<1>5. /\ responseStored' \in SUBSET Pieces(ResponsePieces) /\ responseStored \subseteq responseStored'
      /\ executions > 0
    BY <1>1 DEF ReceiveResponse, FromSubReactor, TransmitterTypeOK
<1>6. PICK t \in Kept :
         IF Complete(ack)
         THEN /\ isSuccess' = TRUE
              /\ TryTrigger("recv", "joinRecv")
              /\ responseTimers' = t /\ timeout_time' = 0
              /\ SendPackets({Packet("Response", "ReceiverACK", ack)})
         ELSE /\ responseTimers' = OneMore(t) /\ timeout_time' = 1
              /\ SendPackets({Packet("Response", "ReceiverACK", ack),
                              Packet("Response", "TimedOutRequestHeartbeat", 0)})
              /\ loop' = loop
              /\ UNCHANGED doneVars
    BY <1>3, Zenon DEF ReceiveResponse
<1>7. responseTimers' \in 0 .. MaxTimers /\ timeout_time' \in 0 .. TryTime + 1
    BY <1>1, <1>6
<1>8. \A q \in toServer' : FromTransmitter(q)
    <2>1. \A q \in {Packet("Response", "ReceiverACK", ack),
                    Packet("Response", "TimedOutRequestHeartbeat", 0)} : FromTransmitter(q)
        BY <1>4, TransmitterPackets
    <2>2. CASE SendPackets({Packet("Response", "ReceiverACK", ack)})
        BY <1>1, <2>1, <2>2, SendFacts
    <2>3. CASE SendPackets({Packet("Response", "ReceiverACK", ack),
                            Packet("Response", "TimedOutRequestHeartbeat", 0)})
        BY <1>1, <2>1, <2>3, SendFacts
    <2> QED BY <1>6, <2>2, <2>3
<1>9. \/ UNCHANGED doneVars /\ loop' \in LoopStages
      \/ /\ isSuccess' \in BOOLEAN
         /\ isSuccess' => responseStored' = Pieces(ResponsePieces)
         /\ \E then, join \in LoopStages : TryTrigger(then, join)
    <2>1. CASE Complete(ack)
        <3>1. responseStored' = Pieces(ResponsePieces)
            BY <1>4, <1>5, <2>1 DEF Complete
        <3>2. "recv" \in LoopStages /\ "joinRecv" \in LoopStages
            BY DEF LoopStages
        <3> QED BY <1>6, <2>1, <3>1, <3>2, Zenon
    <2>2. CASE ~Complete(ack)
        BY <1>1, <1>6, <2>2, Zenon
    <2> QED BY <2>1, <2>2
<1>10. /\ phase' \in Phases /\ ack_accept' \in 0 .. PieceCount /\ ack_expect' \in 0 .. PieceCount
       /\ requestTimers' \in [0 .. PieceCount -> 0 .. MaxTimers]
    BY <1>1 DEF ReceiveResponse, TransmitterTypeOK
<1> QED BY <1>2, <1>5, <1>7, <1>8, <1>9, <1>10, TaskGoal

-----------------------------------------------------------------------------
(* The server's steps *)

LEMMA ClientFrame ==
    ASSUME UNCHANGED clientVars
    PROVE  /\ TransmitterTypeOK => TransmitterTypeOK'
           /\ CallbackInv => CallbackInv'
           /\ UNCHANGED responseStored
BY DEF TransmitterTypeOK, TransmitterFlagsOK, CallbackInv, clientVars, taskVars, waitVars, doneVars,
       backVars

\* ServerGoal is what a step of the server has to establish.
LEMMA ServerGoal ==
    ASSUME IInv, UNCHANGED clientVars, toServer' \subseteq toServer, faults' \in 0 .. MaxFaults,
           \A q \in toClient' : FromSubReactor(q)', ServerTypeOK', ExecutionInv'
    PROVE  IInv'
<1>1. PacketInv'
    BY DEF IInv, PacketInv, FromTransmitter
<1>2. NetworkTypeOK'
    BY <1>1 DEF PacketInv, FromTransmitter, FromSubReactor, NetworkTypeOK
<1> QED BY <1>1, <1>2, ClientFrame DEF IInv, TypeOK

\* A packet's route adds no more than the bounded strays.
LEMMA RouteFacts ==
    ASSUME NEW fromMain \in BOOLEAN, ServerTypeOK, Route(fromMain)
    PROVE  connected' = TRUE /\ strays' \in 0 .. MaxStray
BY Constants DEF ServerTypeOK, Route

\* The packets already on the way to the client stay what they are, as long as
\* executions are not taken back.
LEMMA StillServerPackets ==
    ASSUME IInv, executions' = executions \/ executions' = executions + 1
    PROVE  \A q : (q \in toClient \/ FromSubReactor(q)) => FromSubReactor(q)'
<1>1. executions > 0 => executions' > 0
    BY DEF IInv, TypeOK, ServerTypeOK
<1>2. \A q : FromSubReactor(q) => FromSubReactor(q)'
    BY <1>1 DEF FromSubReactor
<1> QED BY <1>2 DEF IInv, PacketInv

LEMMA ReceivePieceStep ==
    ASSUME IInv, UNCHANGED clientVars, NEW p, NEW fromMain \in BOOLEAN, ReceivePiece(p, fromMain)
    PROVE  IInv'
<1> USE Constants
<1>0. ServerTypeOK /\ NetworkTypeOK /\ PacketInv /\ ExecutionInv
    BY DEF IInv, TypeOK
<1>1. p \in toServer /\ toServer' \subseteq toServer /\ faults' \in 0 .. MaxFaults
    BY <1>0, ReceiveFacts DEF ReceivePiece
<1>2. p.num \in Pieces(PieceCount)
    BY <1>0, <1>1 DEF PacketInv, FromTransmitter, ReceivePiece
<1>3. PICK ack : ack = PieceAck(p, fromMain)
    OBVIOUS
<1>4. ack \in 0 .. PieceCount
    BY <1>3, AckNumber DEF PieceAck
<1>5. /\ pieces' = StoredNow(p) /\ received' = received \cup {p.num}
      /\ hasRequest' = TRUE /\ triggered' = (triggered \/ Fires(ack))
      /\ requestActive' = hasRequest /\ listed' = (listed \/ ack = PieceCount)
      /\ UNCHANGED <<ready, executions, hasResponse, responseAck, responseStamp, buffer,
                     expired, cleared>>
    BY <1>3, Zenon DEF ReceivePiece, responseVars, timerVars
<1>6. /\ toClient' = toClient \cup {ACK(ack)} \/ toClient' = toClient \cup {ACK(ack), Exhausted}
      /\ tasks' = tasks \/ (Fires(ack) /\ tasks' = tasks + 1)
    BY <1>3 DEF ReceivePiece, Trigger, Reply
<1>7. connected' = TRUE /\ strays' \in 0 .. MaxStray
    BY <1>0, RouteFacts DEF ReceivePiece
<1>8. ServerTypeOK'
    <2>1. ServerFlagsOK'
        BY <1>0, <1>5, <1>7, Zenon DEF ServerTypeOK, ServerFlagsOK
    <2>2. pieces' \in SUBSET Pieces(PieceCount) /\ received' \in SUBSET Pieces(PieceCount)
        BY <1>0, <1>2, <1>5 DEF ServerTypeOK, StoredNow
    <2> QED BY <1>0, <1>5, <1>6, <1>7, <2>1, <2>2 DEF ServerTypeOK
<1>9. \A q \in toClient' : FromSubReactor(q)'
    BY <1>4, <1>5, <1>6, ServerPackets, StillServerPackets
<1>10. ExecutionInv'
    <2>1. tasks' + executions' <= expired' + (IF triggered' THEN 1 ELSE 0)
        <3>1. (triggered => triggered') /\ (Fires(ack) => triggered') /\ (Fires(ack) => ~triggered)
            BY <1>5, Zenon DEF Fires
        <3> QED BY <1>0, <1>5, <1>6, <3>1 DEF ExecutionInv, ServerTypeOK
    <2> QED BY <1>0, <1>5, <2>1, ClientFrame DEF ExecutionInv
<1> QED BY <1>1, <1>8, <1>9, <1>10, ServerGoal

LEMMA ReceiveControlStep ==
    ASSUME IInv, UNCHANGED clientVars, NEW p, NEW fromMain \in BOOLEAN, ReceiveControl(p, fromMain)
    PROVE  IInv'
<1> USE Constants
<1>0. ServerTypeOK /\ NetworkTypeOK /\ PacketInv /\ ExecutionInv
    BY DEF IInv, TypeOK
<1>1. p \in toServer /\ toServer' \subseteq toServer /\ faults' \in 0 .. MaxFaults
    BY <1>0, ReceiveFacts DEF ReceiveControl
<1>2. /\ UNCHANGED <<hasRequest, pieces, triggered, received, listed, tasks, ready, executions,
                     hasResponse, responseAck, responseStamp, buffer, expired, cleared>>
      /\ requestActive' = (IF fromMain THEN requestActive ELSE hasRequest)
    BY Zenon DEF ReceiveControl, responseVars, workVars, timerVars
<1>3. PICK ack : ack = getAckNumber(pieces, PieceCount)
    OBVIOUS
<1>4. ack \in 0 .. PieceCount
    BY <1>3, AckNumber
<1>5. \/ toClient' = toClient \cup {ACK(ack)}
      \/ toClient' = toClient \cup {Reset} \/ toClient' = toClient \cup {Heartbeat}
    BY <1>3 DEF ReceiveControl, ControlReply, Reply
<1>6. connected' = TRUE /\ strays' \in 0 .. MaxStray
    BY <1>0, RouteFacts DEF ReceiveControl
<1>7. ServerTypeOK'
    <2>1. ServerFlagsOK'
        BY <1>0, <1>2, <1>6, Zenon DEF ServerTypeOK, ServerFlagsOK
    <2> QED BY <1>0, <1>2, <1>6, <2>1 DEF ServerTypeOK
<1>8. \A q \in toClient' : FromSubReactor(q)'
    BY <1>2, <1>4, <1>5, ServerPackets, StillServerPackets
<1>9. ExecutionInv'
    BY <1>0, <1>2, ClientFrame DEF ExecutionInv
<1> QED BY <1>1, <1>7, <1>8, <1>9, ServerGoal

LEMMA ReceiveResponsePhaseStep ==
    ASSUME IInv, UNCHANGED clientVars, NEW p, ReceiveResponsePhase(p)
    PROVE  IInv'
<1> USE Constants
<1>0. ServerTypeOK /\ NetworkTypeOK /\ PacketInv /\ ExecutionInv
    BY DEF IInv, TypeOK
<1>1. p \in toServer /\ toServer' \subseteq toServer /\ faults' \in 0 .. MaxFaults
    BY <1>0, ReceiveFacts DEF ReceiveResponsePhase
<1>2. /\ UNCHANGED <<connected, strays, hasRequest, pieces, triggered, received, listed, tasks,
                     ready, executions, hasResponse, buffer, expired, cleared>>
      /\ requestActive' = hasRequest
    BY Zenon DEF ReceiveResponsePhase, workVars, timerVars
<1>3. AckAccepted(p) \in 0 .. ResponsePieces
    BY <1>0, <1>1 DEF AckAccepted, PacketInv, FromTransmitter, ServerTypeOK
<1>4. responseAck' \in 0 .. ResponsePieces /\ responseStamp' \in {"fresh", "old", "garbage"}
    BY <1>0, <1>3 DEF ReceiveResponsePhase, ServerTypeOK
<1>5. PICK intact \in BOOLEAN : intact = (buffer # "reused")
    OBVIOUS
<1>6. PICK n : n = responseAck'
    OBVIOUS
<1>7. \/ toClient' = toClient \cup {Reset} \/ toClient' = toClient \cup {Heartbeat}
      \/ toClient' = toClient
      \/ hasResponse /\ toClient' = toClient \cup ResponseData(n, intact)
    BY <1>5, <1>6 DEF ReceiveResponsePhase, Reply
<1>8. ServerTypeOK'
    <2>1. ServerFlagsOK'
        BY <1>0, <1>2, Zenon DEF ServerTypeOK, ServerFlagsOK
    <2> QED BY <1>0, <1>2, <1>4, <2>1 DEF ServerTypeOK
<1>9. \A q \in toClient' : FromSubReactor(q)'
    <2>1. hasResponse => \A q \in ResponseData(n, intact) : FromSubReactor(q)
        BY <1>0, <1>4, <1>6, ResponsePackets DEF ExecutionInv
    <2> QED BY <1>2, <1>7, <2>1, ServerPackets, StillServerPackets
<1>10. ExecutionInv'
    BY <1>0, <1>2, ClientFrame DEF ExecutionInv
<1> QED BY <1>1, <1>8, <1>9, <1>10, ServerGoal

LEMMA RunTaskStep == ASSUME IInv, UNCHANGED clientVars, RunTask PROVE IInv'
<1> USE Constants DEF RunTask, networkVars, requestVars, responseVars, timerVars
<1>0. ServerTypeOK /\ NetworkTypeOK /\ PacketInv /\ ExecutionInv
    BY DEF IInv, TypeOK
<1>1. ServerTypeOK'
    <2>1. ServerFlagsOK'
        BY <1>0, Zenon DEF ServerTypeOK, ServerFlagsOK
    <2> QED BY <1>0, <2>1 DEF ServerTypeOK
<1>2. \A q \in toClient' : FromSubReactor(q)'
    BY StillServerPackets
<1>3. ExecutionInv'
    BY <1>0, ClientFrame DEF ExecutionInv, ServerTypeOK
<1>4. toServer' \subseteq toServer /\ faults' \in 0 .. MaxFaults
    BY <1>0 DEF NetworkTypeOK
<1> QED BY <1>1, <1>2, <1>3, <1>4, ServerGoal

LEMMA StoreResponseStep == ASSUME IInv, UNCHANGED clientVars, StoreResponse PROVE IInv'
<1> USE Constants
<1>0. ServerTypeOK /\ NetworkTypeOK /\ PacketInv /\ ExecutionInv
    BY DEF IInv, TypeOK
<1>1. /\ UNCHANGED <<connected, strays, hasRequest, pieces, triggered, requestActive, received,
                     listed, tasks, executions, expired, cleared, toServer, faults>>
      /\ ready > 0 /\ ready' = ready - 1 /\ responseAck' = 0 /\ buffer' = "freed"
      /\ hasResponse' = TRUE /\ responseStamp' \in {"fresh", "old", "garbage"}
    BY Zenon DEF StoreResponse, requestVars, timerVars
<1>2. toClient' = toClient \/ toClient' = toClient \cup ResponseData(0, TRUE)
    BY DEF StoreResponse, Reply
<1>3. executions > 0
    BY <1>0, <1>1 DEF ExecutionInv
<1>4. \A q \in ResponseData(0, TRUE) : FromSubReactor(q)
    <2>1. 0 \in 0 .. ResponsePieces /\ TRUE \in BOOLEAN
        OBVIOUS
    <2> QED BY ONLY <1>3, <2>1, ResponsePackets
<1>5. \A q \in toClient' : FromSubReactor(q)'
    BY <1>1, <1>2, <1>4, StillServerPackets
<1>6. ServerTypeOK'
    <2>1. ServerFlagsOK'
        BY <1>0, <1>1, Zenon DEF ServerTypeOK, ServerFlagsOK
    <2> QED BY <1>0, <1>1, <2>1 DEF ServerTypeOK
<1>7. ExecutionInv'
    BY <1>0, <1>1, <1>3 DEF ExecutionInv
<1>8. toServer' \subseteq toServer /\ faults' \in 0 .. MaxFaults
    BY <1>0, <1>1 DEF NetworkTypeOK
<1> QED BY <1>5, <1>6, <1>7, <1>8, ServerGoal

\* judgeDelete and judgeResponseClearTimeout: a request goes with its is_trigger,
\* and expired counts it.
LEMMA ServerTimersStep == ASSUME IInv, UNCHANGED clientVars, ServerTimers PROVE IInv'
<1> USE Constants
<1>0. ServerTypeOK /\ NetworkTypeOK /\ PacketInv /\ ExecutionInv
    BY DEF IInv, TypeOK
<1>1. /\ UNCHANGED <<connected, strays, received, tasks, ready, executions,
                     toServer, toClient, faults>>
      /\ hasResponse' => hasResponse
    BY DEF ServerTimers, RearmRequestTimer, ExpireRequest, RearmResponseTimer, ClearResponse,
        workVars, timerVars, requestVars, responseVars, networkVars
<1>2. \/ UNCHANGED <<expired, triggered>>
      \/ expired' = expired + 1 /\ expired + cleared < MaxExpiry
    BY DEF ServerTimers, RearmRequestTimer, ExpireRequest, RearmResponseTimer, ClearResponse,
        timerVars, requestVars
<1>3. ServerTypeOK'
    <2>1. ServerFlagsOK'
        BY <1>0, Zenon DEF ServerTypeOK, ServerFlagsOK, ServerTimers, RearmRequestTimer,
            ExpireRequest, RearmResponseTimer, ClearResponse, requestVars, responseVars
    <2>2. pieces' \in SUBSET Pieces(PieceCount) /\ responseAck' \in 0 .. ResponsePieces
        BY <1>0 DEF ServerTypeOK, ServerTimers, RearmRequestTimer, ExpireRequest,
            RearmResponseTimer, ClearResponse, requestVars, responseVars
    <2>3. /\ responseStamp' \in {"fresh", "old", "garbage"}
          /\ buffer' \in {"owned", "freed", "reused"}
        BY <1>0 DEF ServerTypeOK, ServerTimers, RearmRequestTimer, ExpireRequest,
            RearmResponseTimer, ClearResponse, requestVars, responseVars
    <2>4. expired' \in 0 .. MaxExpiry /\ cleared' \in 0 .. MaxExpiry
        BY <1>0 DEF ServerTypeOK, ServerTimers, RearmRequestTimer, ExpireRequest,
            RearmResponseTimer, ClearResponse, timerVars
    <2> QED BY <1>0, <1>1, <2>1, <2>2, <2>3, <2>4 DEF ServerTypeOK
<1>4. \A q \in toClient' : FromSubReactor(q)'
    BY <1>1, StillServerPackets
<1>5. ExecutionInv'
    BY <1>0, <1>1, <1>2, ClientFrame DEF ExecutionInv, ServerTypeOK
<1>6. toServer' \subseteq toServer /\ faults' \in 0 .. MaxFaults
    BY <1>0, <1>1 DEF NetworkTypeOK
<1> QED BY <1>3, <1>4, <1>5, <1>6, ServerGoal

\* The invariant is inductive.
LEMMA NextIInv == IInv /\ [Next]_vars => IInv'
<1> SUFFICES ASSUME IInv, [Next]_vars PROVE IInv'
    OBVIOUS
<1>1. CASE ClientStep /\ UNCHANGED serverVars
    BY <1>1, QuietSteps, SendMessagesStep, TimeoutEventStep, ResponseTimeoutEventStep
       DEF ClientStep, LoopStep, Timers
<1>2. CASE \E p \in toClient : TransmitterReceive(p) /\ UNCHANGED serverVars
    BY <1>2, ReceiveUnknownStep, ReceiveACKStep, ReceiveResetStep, ReceiveNoDataStep,
       ReceiveResponseStep DEF TransmitterReceive
<1>3. CASE (\E p \in toServer : ServerReceive(p)) /\ UNCHANGED clientVars
    BY <1>3, ReceivePieceStep, ReceiveControlStep, ReceiveResponsePhaseStep DEF ServerReceive
<1>4. CASE (RunTask \/ StoreResponse \/ ServerTimers) /\ UNCHANGED clientVars
    BY <1>4, RunTaskStep, StoreResponseStep, ServerTimersStep
<1>5. CASE UNCHANGED vars
    <2>1. UNCHANGED networkVars /\ UNCHANGED clientVars /\ UNCHANGED serverVars
        BY <1>5 DEF vars
    <2> QED BY <2>1, ClientFrame, ClientGoal DEF networkVars, IInv, TypeOK, NetworkTypeOK,
            PacketInv, ExecutionInv
<1> QED BY <1>1, <1>2, <1>3, <1>4, <1>5 DEF Next, ServerStep
-----------------------------------------------------------------------------
(* The theorems *)

\* IInv holds in every reachable state of the exchange.
LEMMA Invariance == Spec => []IInv
BY InitIInv, NextIInv, PTL DEF Spec

\* Every variable of the transmitter, the sub-reactor and the network keeps its
\* type: ack_accept and ack_expect never pass the request's pieces (send_data
\* and the resets included), and no timer table is indexed outside its range.
THEOREM TypeCorrect == Spec => []TypeOK
<1>1. IInv => TypeOK
    BY DEF IInv
<1> QED BY <1>1, Invariance, PTL

\* The call-back runs once, before delete_message takes the message, and one
\* that is told of a success reads the whole response of an execution, for every
\* number of pieces and every order of packets and time-outs, also those between
\* the two reads of isSuccess.
THEOREM CallbackSafe == Spec => []CallbackSound
<1>1. IInv => CallbackSound
    <2> SUFFICES ASSUME IInv PROVE CallbackSound
        OBVIOUS
    <2>1. callbacks <= 1 /\ (message = "deleted" => callbacks = 1)
        BY DEF IInv, CallbackInv
    <2>2. outcome \in {"ok", "raw"} => executions > 0 /\ responseStored = Pieces(ResponsePieces)
        <3>1. 0 \in Pieces(ResponsePieces)
            BY Constants DEF Pieces
        <3> QED BY <3>1 DEF IInv, CallbackInv, ExecutionInv
    <2> QED BY <2>1, <2>2 DEF CallbackSound
<1> QED BY <1>1, Invariance, PTL

\* Only the server's pool executes, and only a call-back changes the outcome.
LEMMA StepKinds ==
    ASSUME [Next]_vars
    PROVE  \/ RunTask /\ UNCHANGED outcome
           \/ RunCallback /\ UNCHANGED executions
           \/ UNCHANGED <<executions, outcome>>
<1> USE DEF serverVars, workVars, clientVars, backVars
<1>1. CASE ClientStep /\ UNCHANGED serverVars
    <2>1. CASE \/ Send \/ Stop \/ StopImmediately \/ LoopStep \/ DecodeResponse
               \/ PostDelete \/ EraseActive
        BY <1>1, <2>1 DEF Send, Stop, StopImmediately, StopLoop, LoopStep, LoopTest, Doze,
            SendMessages, JoinAsync, DecodeResponse, PostDelete, EraseActive
    <2>2. CASE Timers
        BY <1>1, <2>2 DEF Timers, EndTimers, ResponseTimeoutEvent, TimeoutEvent, OneTimer, DeleteMessage
    <2>3. CASE RunCallback
        BY <1>1, <2>3
    <2> QED BY <1>1, <2>1, <2>2, <2>3 DEF ClientStep
<1>2. CASE \E p \in toClient : TransmitterReceive(p) /\ UNCHANGED serverVars
    BY <1>2 DEF TransmitterReceive, ReceiveUnknown, ReceiveACK, ReceiveReset, ReceiveHeartbeat,
                ReceiveEarly, ReceiveResponse, Known
<1>3. CASE (\E p \in toServer : ServerReceive(p)) /\ UNCHANGED clientVars
    BY <1>3 DEF ServerReceive, ReceivePiece, ReceiveControl, ReceiveResponsePhase
<1>4. CASE (RunTask \/ StoreResponse \/ ServerTimers) /\ UNCHANGED clientVars
    BY <1>4 DEF StoreResponse, ServerTimers, RearmRequestTimer, ExpireRequest, RearmResponseTimer,
        ClearResponse
<1>5. CASE UNCHANGED vars
    BY <1>5 DEF vars
<1> QED BY <1>1, <1>2, <1>3, <1>4, <1>5 DEF Next, ServerStep

\* The asynchronous call implements the abstract one: at most one execution more
\* than the server's timers delete requests, however often a StateReset makes
\* the client send its pieces again; one outcome; success only after an execution.
THEOREM Refinement == Spec => ImplementsCall
<1> USE DEF Call!callVars
<1>1. Init => Call!CallInit
    BY DEF Init, TransmitterInit, ServerInit, Call!CallInit
<1>2. ASSUME IInv, IInv', [Next]_vars
      PROVE  [Call!CallNext]_(Call!callVars)
    <2>1. CASE RunTask /\ UNCHANGED outcome
        <3>1. executions < MaxExpiry + 1 /\ executions' = executions + 1
            BY <1>2, <2>1, Constants DEF IInv, ExecutionInv, TypeOK, ServerTypeOK, RunTask
        <3> QED BY <2>1, <3>1 DEF Call!CallNext, Call!Execute
    <2>2. CASE RunCallback /\ UNCHANGED executions
        <3>1. /\ outcome = "pending"
              /\ outcome' = "failed" \/ (isSuccess /\ outcome' \in {"ok", "raw"})
            BY <1>2, <2>2 DEF IInv, CallbackInv, RunCallback
        <3>2. isSuccess => executions > 0
            <4>1. 0 \in Pieces(ResponsePieces)
                BY Constants DEF Pieces
            <4> QED BY <1>2, <4>1 DEF IInv, CallbackInv, ExecutionInv
        <3> QED BY <2>2, <3>1, <3>2 DEF Call!CallNext, Call!Succeed, Call!Fail
    <2>3. CASE UNCHANGED <<executions, outcome>>
        BY <2>3
    <2> QED BY <1>2, <2>1, <2>2, <2>3, StepKinds
<1> QED BY <1>1, <1>2, Invariance, PTL DEF Spec, ImplementsCall, Call!CallSpec
=============================================================================
