----------------------------- MODULE RpcExchange -----------------------------
(***************************************************************************)
(* A blocking remote call end to end: the Invoker, the sub-reactor and the *)
(* network between them.                                                   *)
(***************************************************************************)
EXTENDS Invoker, MessageServer

vars == <<networkVars, clientVars, serverVars>>

Init == NetworkInit /\ InvokerInit /\ ServerInit

\* The call has ended and nothing is left that could still happen.
Done == client \in Outcomes /\ UNCHANGED vars

Next ==
    \/ InvokerStep /\ UNCHANGED serverVars
    \/ \E p \in toClient : InvokerReceive(p) /\ UNCHANGED serverVars
    \/ \E p \in toServer : ServerReceive(p) /\ UNCHANGED clientVars
    \/ RunTask /\ UNCHANGED clientVars
    \/ StoreResponse /\ UNCHANGED clientVars
    \/ ReuseBuffer /\ UNCHANGED clientVars
    \/ ServerTimers /\ UNCHANGED clientVars
    \/ Lose /\ UNCHANGED <<clientVars, serverVars>>
    \/ Done

Spec == Init /\ [][Next]_vars

\* The packets the two ends can produce.
ServerPackets == {ACK(k) : k \in 0 .. PieceCount} \cup {Reset, Heartbeat, Exhausted}
                 \cup {ResponsePiece(k, b) : k \in Pieces(ResponsePieces), b \in BOOLEAN}
ClientPackets == {Packet("Request", "RequestSend", k) : k \in Pieces(PieceCount)}
                 \cup {Packet("Response", "ReceiverACK", k) : k \in 0 .. ResponsePieces}
                 \cup {Packet("Request", "RequestACK", 0),
                       Packet("Response", "TimedOutRequestHeartbeat", 0)}

\* A piece of the request that the server does not have.
NewPiece(p) == p.type = "RequestSend" /\ ~(hasRequest /\ p.num \in pieces)

\* The client keeps running (every receive ends with a packet or a timeout), the
\* pool runs its tasks and the reactor its 5 ms timers.  Of the network only this
\* is asked: new pieces and the acknowledgements of the response reach the server
\* in the end if the client goes on sending them.  Any packet to the client, and
\* any question of the client, may be lost however often it is repeated.
FairSpec ==
    /\ Spec
    /\ WF_vars(InvokerStep /\ UNCHANGED serverVars)
    /\ WF_vars(\E p \in toServer : NewPiece(p) /\ ServerReceive(p) /\ UNCHANGED clientVars)
    /\ WF_vars(\E p \in toServer : /\ p.type = "ReceiverACK"
                                  /\ ServerReceive(p) /\ UNCHANGED clientVars)
    /\ WF_vars(RunTask /\ UNCHANGED clientVars)
    /\ WF_vars(StoreResponse /\ UNCHANGED clientVars)

-----------------------------------------------------------------------------
(* Properties *)

TypeOK == NetworkTypeOK /\ InvokerTypeOK /\ ServerTypeOK

\* The client enters phase 2 only when the server has stored every piece of the
\* request, however acknowledgements are lost, repeated or reordered, and
\* whichever path of the sub-reactor produced them.
WaitsOnlyAfterDelivery == client = "wait" => received = Pieces(PieceCount)

\* A request is executed only when it is complete, and one stored request is
\* executed once: every further execution needs the timer to have deleted the
\* request in between (getTriggerState, judgeDelete).
OneExecutionPerRequest ==
    /\ triggered => pieces = Pieces(PieceCount)
    /\ executions + tasks <= expired + 1

\* The server counts a response piece as delivered only if the client holds it
\* (sendResponseACK and setAckAccept), so the end of the exchange on the server
\* implies its end on the client.
ResponseAckSound == hasResponse => Pieces(responseAck) \subseteq responseStored

\* A call that returns with success returns the complete response of an
\* execution of the procedure.
SuccessIsReal == client = "ok" => executions > 0 /\ responseStored = Pieces(ResponsePieces)

\* The caller's view: an abstract call, executed at most once more than the
\* number of requests the server's timer deletes.
Call == INSTANCE RpcCall WITH
            MaxExecutions <- MaxExpiry + 1,
            executed <- executions,
            outcome <- IF client = "ok" THEN "ok"
                       ELSE IF client \in Outcomes THEN "failed" ELSE "pending"
ImplementsCall == Call!CallSpec

\* commit_executor has refused the task of the stored request, which stays
\* marked as triggered and so is never committed again (trigger()).
Refused == triggered /\ tasks = 0 /\ executions = 0

\* Every call ends, through lost packets and retries: each silence uses up a try
\* and each answer brings the call forward.  The exception is a call whose task
\* the pool has refused: the notice about it carries message id 0, so nobody
\* takes it, and the server's heartbeats give the client its tries back for as
\* long as packets get through.
CallReturns == <>(client \in Outcomes \/ Refused)

\* The response object owns the response data: what the client stores is what
\* the procedure returned.  False (README, section 7), so no run checks it.
ResponseIntact == ~corrupt

-----------------------------------------------------------------------------
(* The inductive invariant behind the theorems of RpcExchangeProofs *)

AllPieces == Pieces(PieceCount)

\* Only packets the two ends produce are in flight.
PacketInv == toServer \subseteq ClientPackets /\ toClient \subseteq ServerPackets

\* A client that has not returned has a try left.
TryInv == client \notin Outcomes => needTry > 0

\* The request side: an acknowledgement, in flight or accepted, never promises
\* a piece the server has not stored.
DeliveryInv ==
    /\ pieces \subseteq received
    /\ ~hasRequest => pieces = {} /\ ~triggered
    /\ triggered => pieces = AllPieces
    /\ \A k \in 0 .. PieceCount : ACK(k) \in toClient => Pieces(k) \subseteq received
    /\ Pieces(ack_accept) \subseteq received
    /\ client = "wait" => ack_accept = PieceCount

\* An answer exists somewhere: computed, stored, in flight or received.
AnswerExists == \/ ready > 0 \/ hasResponse \/ responseStored # {}
                \/ \E p \in toClient : p.phase = "Response"

\* Executions need a complete request, answers need an execution, and each
\* execution is paid for by a trigger flag that is set or was deleted.
ExecutionInv ==
    /\ tasks > 0 \/ executions > 0 => received = AllPieces
    /\ AnswerExists => executions > 0
    /\ executions + tasks <= expired + (IF triggered THEN 1 ELSE 0)

\* The response side: what DeliveryInv says of the request.
ResponseInv ==
    /\ \A k \in 0 .. ResponsePieces :
           Packet("Response", "ReceiverACK", k) \in toServer => Pieces(k) \subseteq responseStored
    /\ Pieces(responseAck) \subseteq responseStored
    /\ client = "ok" => responseStored = Pieces(ResponsePieces)

IInv == TypeOK /\ PacketInv /\ TryInv /\ DeliveryInv /\ ExecutionInv /\ ResponseInv
=============================================================================
