----------------------------- MODULE RpcNetwork -----------------------------
(***************************************************************************)
(* The SR2P packets of include/rpc/protocol and the UDP network between a  *)
(* client and the server, for one message id.                              *)
(*                                                                         *)
(* The 26-byte header is abstracted to the fields the two state machines   *)
(* branch on: the phase, the type, one number (pieceOrder of a data        *)
(* packet, acceptOrder of an acknowledgement) and the message id           *)
(* (timePoint).  A data packet also says whether its payload is the one    *)
(* the sender was given.                                                   *)
(*                                                                         *)
(* A channel is the set of packets in flight.  A packet that is never      *)
(* received is a lost one; Lose removes it for good.  Receiving a packet   *)
(* may leave it in flight, to be delivered again.                          *)
(***************************************************************************)
EXTENDS Integers, FiniteSets

CONSTANTS
    PieceCount,       \* pieces of the request
    ResponsePieces,   \* pieces of the response
    MaxFaults         \* bound: duplicated deliveries and lost packets, together

ASSUME NetworkAssumption ==
    /\ PieceCount \in Nat \ {0} /\ ResponsePieces \in Nat \ {0}
    /\ MaxFaults \in Nat

VARIABLES toServer, toClient, faults
networkVars == <<toServer, toClient, faults>>

MessageId == 1     \* timePoint of the call
NoId == 0          \* the id sendExhausted writes

Phases == {"Request", "Response"}
ProtocolTypes == {"RequestSend", "ReceiverACK", "RequestACK", "TimedOutRequestHeartbeat",
                  "TimedOutResponseHeartbeat", "StateReset", "TheServerResourcesExhausted"}

Packets == [phase : Phases, type : ProtocolTypes, num : Nat,
            id : {NoId, MessageId}, data : {"good", "bad"}]

Packet(phase, type, num) ==
    [phase |-> phase, type |-> type, num |-> num, id |-> MessageId, data |-> "good"]

Pieces(n) == 0 .. n - 1

\* Request::getAckNumber and ResponseData::getAckNumber: the first piece that
\* has not been stored, or the number of pieces when none is missing.
getAckNumber(stored, n) ==
    CHOOSE k \in 0 .. n : Pieces(k) \subseteq stored /\ (k = n \/ k \notin stored)

\* Protocol::getSendCount: how many packets a sender sends in one round.
getSendCount(pieces) == IF pieces <= 3 THEN 1
                        ELSE IF pieces <= 10 THEN 3
                        ELSE IF pieces <= 1024 THEN 5 ELSE 7

NetworkInit == toServer = {} /\ toClient = {} /\ faults = 0

\* p is taken from the server's or the client's socket; the network may
\* deliver another copy later.
FromClient(p) ==
    /\ p \in toServer
    /\ \/ toServer' = toServer \ {p} /\ UNCHANGED faults
       \/ faults < MaxFaults /\ faults' = faults + 1 /\ UNCHANGED toServer

FromServer(p) ==
    /\ p \in toClient
    /\ \/ toClient' = toClient \ {p} /\ UNCHANGED faults
       \/ faults < MaxFaults /\ faults' = faults + 1 /\ UNCHANGED toClient

Lose ==
    /\ faults < MaxFaults
    /\ faults' = faults + 1
    /\ \/ \E p \in toServer : toServer' = toServer \ {p} /\ UNCHANGED toClient
       \/ \E p \in toClient : toClient' = toClient \ {p} /\ UNCHANGED toServer

NetworkTypeOK ==
    /\ toServer \in SUBSET Packets /\ toClient \in SUBSET Packets
    /\ faults \in 0 .. MaxFaults
=============================================================================
