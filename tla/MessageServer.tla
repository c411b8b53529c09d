---------------------------- MODULE MessageServer ----------------------------
(***************************************************************************)
(* How a sub-reactor (include/rpc/server/sub_reactor.cpp) handles the      *)
(* packets of one message of one client: it collects the pieces of the     *)
(* request, hands the complete request to the thread pool once, stores the *)
(* response the pool computes and sends it piece by piece, and forgets the *)
(* request and the response after a time without packets.                  *)
(*                                                                         *)
(* A packet reaches the handler by one of two paths: dealWithNewConnection *)
(* for a packet the main reactor received (the first of a connection, or   *)
(* one that was already queued on the listening socket), and the epoll     *)
(* loop for a packet on the connected socket.                              *)
(***************************************************************************)
EXTENDS RpcNetwork

CONSTANTS
    PoolMayRefuse,    \* commit_executor may find the queue full
    BufferReuse,      \* other traffic allocates from the same memory pool
    MaxExpiry,        \* bound: requests and responses deleted by a timer, together
    MaxStray          \* bound: packets of a connected client on the listening socket

ASSUME ServerAssumption ==
    /\ PoolMayRefuse \in BOOLEAN /\ BufferReuse \in BOOLEAN
    /\ MaxExpiry \in Nat /\ MaxStray \in Nat

VARIABLES
    connected,        \* the client has a connected socket in the epoll set
    strays,           \* history: packets that came through the main reactor since
    hasRequest,       \* `messages` holds the Request
    pieces,           \* its piece_state
    triggered,        \* its is_trigger
    requestActive,    \* active_dt was set after the timer last looked
    listed,           \* the id is in vc->messages
    tasks,            \* executions of triggerTask committed and not yet run
    ready,            \* 5 ms timers that will store a response
    executions,       \* history: completed executions of the remote procedure
    hasResponse,      \* vc->responses holds the Response
    responseAck,      \* its ack_accept
    responseStamp,    \* what its lastActive says at the next timer
    buffer,           \* its data: "owned", "freed" or "reused" memory
    received,         \* history: piece orders ever stored
    expired,          \* history: requests deleted by judgeDelete
    cleared           \* history: responses deleted by judgeResponseClearTimeout

requestVars  == <<hasRequest, pieces, triggered, requestActive, received>>
responseVars == <<hasResponse, responseAck, responseStamp, buffer>>
workVars     == <<tasks, ready, executions>>
timerVars    == <<expired, cleared>>
serverVars   == <<connected, strays, requestVars, listed, workVars, responseVars, timerVars>>

ServerInit ==
    /\ connected = FALSE /\ strays = 0
    /\ hasRequest = FALSE /\ pieces = {} /\ triggered = FALSE /\ requestActive = FALSE
    /\ listed = FALSE
    /\ tasks = 0 /\ ready = 0 /\ executions = 0
    /\ hasResponse = FALSE /\ responseAck = 0 /\ responseStamp = "old" /\ buffer = "owned"
    /\ received = {} /\ expired = 0 /\ cleared = 0

-----------------------------------------------------------------------------
(* Packets the server sends.  sendReset ignores its phase argument and      *)
(* sendHeartbeat sets the phase after the write, so both leave with phase   *)
(* Request; sendExhausted carries message id 0.                             *)

ACK(k)    == Packet("Request", "ReceiverACK", k)
Reset     == Packet("Request", "StateReset", 0)
Heartbeat == Packet("Request", "TimedOutResponseHeartbeat", 0)
Exhausted == [Packet("Request", "TheServerResourcesExhausted", 0) EXCEPT !.id = NoId]
ResponsePiece(k, intact) ==
    [Packet("Response", "RequestSend", k) EXCEPT !.data = IF intact THEN "good" ELSE "bad"]

Reply(S) == toClient' = toClient \cup S

\* sendResponseDataToClient: one piece, the first that is not acknowledged.
ResponseData(ack, intact) == IF ack < ResponsePieces THEN {ResponsePiece(ack, intact)} ELSE {}

\* The path of a packet: the listening socket, where it opens the connection or
\* was queued before the connection existed, or the connected socket.
Route(fromMain) ==
    /\ connected' = TRUE
    /\ \/ fromMain /\ ~connected /\ UNCHANGED strays
       \/ fromMain /\ connected /\ strays < MaxStray /\ strays' = strays + 1
       \/ ~fromMain /\ connected /\ UNCHANGED strays

-----------------------------------------------------------------------------
(* A data packet of the request.  StoredNow is piece_state after it.        *)

StoredNow(p) == (IF hasRequest THEN pieces ELSE {}) \cup {p.num}

\* Mutant of PieceAck: the piece that arrived is acknowledged, with all before it.
LastPieceAck(p, fromMain) ==
    IF fromMain /\ hasRequest /\ p.num \in pieces THEN 0 ELSE p.num + 1

\* The acknowledgement number: the duplicate branch of dealWithNewConnection
\* leaves it 0.
PieceAck(p, fromMain) ==
    IF fromMain /\ hasRequest /\ p.num \in pieces THEN 0
    ELSE getAckNumber(StoredNow(p), PieceCount)

\* trigger(): the complete request is committed to the thread pool, which may
\* refuse it; the request stays marked as triggered either way.
Trigger(ack) ==
    \/ /\ tasks' = tasks + 1
       /\ Reply({ACK(ack)})
    \/ /\ PoolMayRefuse
       /\ UNCHANGED tasks
       /\ Reply({ACK(ack), Exhausted})

\* Mutant of Fires: the trigger state is not looked at.
FiresAgain(ack) == ack = PieceCount

\* The packet completes the request, and the request has not been triggered.
Fires(ack) == ack = PieceCount /\ ~triggered

ReceivePiece(p, fromMain) ==
    /\ p.phase = "Request" /\ p.type = "RequestSend"
    /\ FromClient(p)
    /\ hasRequest' = TRUE
    /\ pieces' = StoredNow(p)
    /\ received' = received \cup {p.num}
    /\ requestActive' = hasRequest
    /\ LET ack == PieceAck(p, fromMain)
       IN  /\ listed' = (listed \/ ack = PieceCount)
           /\ triggered' = (triggered \/ Fires(ack))
           /\ \/ Fires(ack) /\ Trigger(ack)
              \/ ~Fires(ack) /\ UNCHANGED tasks /\ Reply({ACK(ack)})
    /\ Route(fromMain)
    /\ UNCHANGED <<ready, executions, responseVars, timerVars>>

\* The answer to a packet that is neither request data nor handled by the
\* response phase.  dealWithNewConnection looks at the type only; the epoll
\* loop gets here in phase Request and resets on types it does not expect.
ControlReply(p, fromMain) ==
    IF ~hasRequest THEN Reset
    ELSE IF p.type = "RequestACK" THEN ACK(getAckNumber(pieces, PieceCount))
    ELSE IF fromMain \/ p.type = "TimedOutRequestHeartbeat" THEN Heartbeat
    ELSE Reset

ReceiveControl(p, fromMain) ==
    /\ p.type # "RequestSend"
    /\ fromMain \/ p.phase = "Request"
    /\ FromClient(p)
    /\ Reply({ControlReply(p, fromMain)})
    /\ requestActive' = (IF fromMain THEN requestActive ELSE hasRequest)
    /\ Route(fromMain)
    /\ UNCHANGED <<hasRequest, pieces, triggered, received, listed, workVars,
                   responseVars, timerVars>>

\* Mutant of AckAccepted: acknowledgements are counted, not compared.
AckCounted(p) ==
    IF p.type = "ReceiverACK" /\ responseAck < ResponsePieces
    THEN responseAck + 1 ELSE responseAck

\* Response::setAckAccept: acknowledgements are cumulative.
AckAccepted(p) ==
    IF p.type = "ReceiverACK" /\ p.num > responseAck THEN p.num ELSE responseAck

\* A packet of the response phase on the connected socket.
ReceiveResponsePhase(p) ==
    /\ connected
    /\ p.phase = "Response"
    /\ FromClient(p)
    /\ requestActive' = hasRequest
    /\ \/ /\ ~listed
          /\ Reply({Reset})
          /\ UNCHANGED <<responseAck, responseStamp>>
       \/ /\ listed /\ ~hasResponse
          /\ Reply({Heartbeat})
          /\ UNCHANGED <<responseAck, responseStamp>>
       \/ /\ listed /\ hasResponse
          /\ responseStamp' = "fresh"
          /\ responseAck' = AckAccepted(p)
          /\ Reply(IF p.type \in {"ReceiverACK", "TimedOutRequestHeartbeat"}
                   THEN ResponseData(responseAck', buffer # "reused") ELSE {})
    /\ UNCHANGED <<connected, strays, hasRequest, pieces, triggered, received, listed,
                   workVars, hasResponse, buffer, timerVars>>

-----------------------------------------------------------------------------
(* Thread pool and timers *)

\* triggerTask, on a thread of the pool: runs the procedure, then posts a
\* timer that will store the response.
RunTask ==
    /\ tasks > 0
    /\ tasks' = tasks - 1
    /\ executions' = executions + 1
    /\ ready' = ready + 1
    /\ UNCHANGED <<connected, strays, requestVars, listed, responseVars, timerVars, networkVars>>

\* The timer's function: insert_or_assign into vc->responses.  An inserted
\* copy has no value in lastActive and is sent; an assigned one is not sent.
\* The local Response frees the buffer the copy keeps using.
StoreResponse ==
    /\ ready > 0
    /\ ready' = ready - 1
    /\ hasResponse' = TRUE
    /\ responseAck' = 0
    /\ buffer' = "freed"
    /\ \/ /\ ~hasResponse
          /\ responseStamp' = "garbage"
          /\ Reply(ResponseData(0, TRUE))
       \/ /\ hasResponse
          /\ responseStamp' = "fresh"
          /\ UNCHANGED toClient
    /\ UNCHANGED <<connected, strays, requestVars, listed, tasks, executions, timerVars,
                   toServer, faults>>

\* Another request or response is given the freed memory.
ReuseBuffer ==
    /\ BufferReuse
    /\ hasResponse /\ buffer = "freed"
    /\ buffer' = "reused"
    /\ UNCHANGED <<connected, strays, requestVars, listed, workVars, hasResponse, responseAck,
                   responseStamp, timerVars, networkVars>>

\* judgeDelete finds the request active, and is set again ...
RearmRequestTimer ==
    /\ hasRequest /\ requestActive
    /\ expired + cleared < MaxExpiry
    /\ requestActive' = FALSE
    /\ UNCHANGED <<connected, strays, hasRequest, pieces, triggered, received, listed, workVars,
                   responseVars, timerVars, networkVars>>

\* ... or finds that RequestTimeOut has passed without a packet, and erases it.
ExpireRequest ==
    /\ hasRequest /\ ~requestActive
    /\ expired + cleared < MaxExpiry
    /\ expired' = expired + 1
    /\ hasRequest' = FALSE /\ pieces' = {} /\ triggered' = FALSE
    /\ UNCHANGED <<connected, strays, requestActive, received, listed, workVars, responseVars,
                   cleared, networkVars>>

\* judgeResponseClearTimeout, the same for the response.
RearmResponseTimer ==
    /\ hasResponse /\ responseStamp = "fresh"
    /\ expired + cleared < MaxExpiry
    /\ responseStamp' = "old"
    /\ UNCHANGED <<connected, strays, requestVars, listed, workVars, hasResponse, responseAck,
                   buffer, timerVars, networkVars>>

ClearResponse ==
    /\ hasResponse /\ responseStamp \in {"old", "garbage"}
    /\ expired + cleared < MaxExpiry
    /\ cleared' = cleared + 1
    /\ listed' = FALSE
    /\ hasResponse' = FALSE /\ responseAck' = 0 /\ buffer' = "owned"
    /\ UNCHANGED <<connected, strays, requestVars, workVars, responseStamp, expired, networkVars>>

ServerReceive(p) ==
    \/ \E fromMain \in BOOLEAN : ReceivePiece(p, fromMain) \/ ReceiveControl(p, fromMain)
    \/ ReceiveResponsePhase(p)

ServerTimers == \/ RearmRequestTimer \/ ExpireRequest
                \/ RearmResponseTimer \/ ClearResponse

ServerFlagsOK ==
    /\ connected \in BOOLEAN /\ listed \in BOOLEAN
    /\ hasRequest \in BOOLEAN /\ triggered \in BOOLEAN /\ requestActive \in BOOLEAN
    /\ hasResponse \in BOOLEAN

ServerTypeOK ==
    /\ ServerFlagsOK
    /\ strays \in 0 .. MaxStray
    /\ pieces \in SUBSET Pieces(PieceCount) /\ received \in SUBSET Pieces(PieceCount)
    /\ tasks \in Nat /\ ready \in Nat /\ executions \in Nat
    /\ responseAck \in 0 .. ResponsePieces
    /\ responseStamp \in {"fresh", "old", "garbage"}
    /\ buffer \in {"owned", "freed", "reused"}
    /\ expired \in 0 .. MaxExpiry /\ cleared \in 0 .. MaxExpiry
=============================================================================
