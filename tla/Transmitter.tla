----------------------------- MODULE Transmitter -----------------------------
(***************************************************************************)
(* The asynchronous client: Transmitter (rpc/client/transmitter.cpp) and   *)
(* TransmitterLinkReactor (rpc/server/transmitter_link_reactor.cpp), the   *)
(* one a server uses to call others over its own socket.  One event, from  *)
(* send() to the call-back and the deletion of its message; the thread     *)
(* that runs loop(), the pool thread that runs trigger(), and the caller.  *)
(*                                                                         *)
(* last_active is a time: a response timer compares it with the value it   *)
(* was set with.  A timer whose value is out of date does nothing, so only *)
(* the others are counted; a packet makes all of them out of date unless   *)
(* it arrives in the same millisecond as the one before.                   *)
(***************************************************************************)
EXTENDS RpcNetwork

CONSTANTS
    TryTime,          \* Transmitter::try_time
    CommitMayFail,    \* the transmitter's pool may refuse the call-back
    MaxTimers,        \* bound: equal timers that are counted
    MaxInFlight       \* bound: packets in flight, in both directions together

ASSUME TransmitterAssumption ==
    TryTime \in Nat \ {0} /\ CommitMayFail \in BOOLEAN /\ MaxTimers \in Nat \ {0}
    /\ MaxInFlight \in Nat \ {0}

VARIABLES
    linked,           \* it is a TransmitterLinkReactor
    run_state,
    loop,             \* where the loop is
    message,          \* "none", in `messages` ("held"), "deleted"
    active,           \* active_queue holds the message's id (linked)
    eraseDue,         \* the main reactor's timer that removes it
    phase, ack_accept, ack_expect, sent, timeout_time, is_trigger, isSuccess,
    responseStored,   \* piece_state of response_data
    requestTimers,    \* cur_ack -> pending timers of timeout_event
    responseTimers,   \* pending timers of response_timeout_event, not out of date
    deleteDue,        \* the timer of delete_message
    work,             \* the call-back's way, one of WorkStages
    callbacks,        \* history: runs of the call-back
    outcome           \* history: what the last run was told; "raw" is a success whose
                      \* data did not pass through ClientIn

taskVars  == <<phase, ack_accept, ack_expect, sent, timeout_time, responseStored>>
waitVars == <<requestTimers, responseTimers>>
doneVars  == <<is_trigger, isSuccess, work, eraseDue>>
backVars  == <<callbacks, outcome>>
clientVars == <<linked, run_state, loop, message, active, taskVars, waitVars, doneVars, deleteDue,
                backVars>>

LoopStages == {"test", "dozing", "asleep", "woken", "recv", "timer", "joinRecv", "joinTimer",
               "spinning", "ended"}
WorkStages == {"none", "queued", "async", "decoded", "plain", "locking", "done"}

NoTimers == [a \in 0 .. PieceCount |-> 0]

TransmitterInit ==
    /\ linked \in BOOLEAN /\ run_state = TRUE /\ loop = "test"
    /\ message = "none" /\ active = FALSE /\ eraseDue = FALSE
    /\ phase = "Request" /\ ack_accept = 0 /\ ack_expect = 0 /\ sent = FALSE /\ timeout_time = 0
    /\ requestTimers = NoTimers /\ responseTimers = 0 /\ responseStored = {}
    /\ is_trigger = FALSE /\ isSuccess = FALSE /\ deleteDue = FALSE
    /\ work = "none" /\ callbacks = 0 /\ outcome = "pending"

-----------------------------------------------------------------------------
(* The caller *)

\* notify_one reaches a loop that sleeps, and is lost on one that is about to.
Notified == IF loop = "asleep" THEN "woken" ELSE loop

\* send(), and Reactor::send, which enters the id in active_queue first.
Send ==
    /\ message = "none"
    /\ message' = "held"
    /\ active' = linked
    /\ loop' = Notified
    /\ UNCHANGED <<linked, run_state, taskVars, waitVars, doneVars, deleteDue, backVars, networkVars>>

\* stop() waits until there are no messages, stop_immediately() does not.  The
\* loop reads run_state at these places only: a store while it is elsewhere is
\* the store just before it comes back.
StopLoop ==
    /\ run_state /\ loop \in {"test", "dozing", "asleep"}
    /\ run_state' = FALSE
    /\ loop' = Notified
    /\ UNCHANGED <<linked, message, active, taskVars, waitVars, doneVars, deleteDue, backVars,
                   networkVars>>
Stop == message # "held" /\ StopLoop
StopImmediately == message = "held" /\ StopLoop

-----------------------------------------------------------------------------
(* The loop: wait for messages, send, receive, run a timer. *)

LoopTest ==
    /\ loop = "test" /\ ~(run_state /\ message = "held")
    /\ loop' = IF run_state THEN "dozing" ELSE "ended"
    /\ UNCHANGED <<linked, run_state, message, active, taskVars, waitVars, doneVars, deleteDue,
                   backVars, networkVars>>

\* The predicate was false; the thread goes to sleep.
Doze ==
    /\ loop = "dozing"
    /\ loop' = "asleep"
    /\ UNCHANGED <<linked, run_state, message, active, taskVars, waitVars, doneVars, deleteDue,
                   backVars, networkVars>>

\* sendto: the network takes some of the packets, at most what it can carry, and
\* drops the others.
SendPackets(S) ==
    \E T \in SUBSET S :
        /\ T = {} \/ Cardinality(toServer \cup T) + Cardinality(toClient) <= MaxInFlight
        /\ toServer' = toServer \cup T

\* Mutant of WindowFrom: one piece too many.
WindowPastEnd(a) == {i \in 0 .. PieceCount : a <= i /\ i <= a + getSendCount(PieceCount)}
WindowFrom(a) == {i \in Pieces(PieceCount) : a <= i /\ i < a + getSendCount(PieceCount)}

OneMore(timers) == IF timers < MaxTimers THEN timers + 1 ELSE timers

\* send_data from acknowledgement a on, and the timer that follows it.
SendData(a) ==
    /\ SendPackets({Packet("Request", "RequestSend", i) : i \in WindowFrom(a)})
    /\ ack_expect' = a + Cardinality(WindowFrom(a))
    /\ requestTimers' = [requestTimers EXCEPT ![a] = OneMore(@)]

\* The first window, or the next one once something new is acknowledged.
WantsSend ==
    message = "held" /\ (~sent \/ (/\ phase = "Request" /\ timeout_time < TryTime
                                   /\ ack_accept > ack_expect - getSendCount(PieceCount)))
SendMessages ==
    /\ loop = "woken" \/ (loop = "test" /\ run_state /\ message = "held")
    /\ loop' = "recv"
    /\ sent' = (sent \/ message = "held")
    /\ IF WantsSend
       THEN SendData(ack_accept)
       ELSE UNCHANGED <<toServer, ack_expect, requestTimers>>
    /\ UNCHANGED <<linked, run_state, message, active, phase, ack_accept, timeout_time,
                   responseStored, responseTimers, doneVars, deleteDue, backVars, toClient, faults>>

-----------------------------------------------------------------------------
(* try_trigger, called from the receiving part or from a timer. *)

\* Mutant of TryTrigger: is_trigger is not looked at.
TryTriggerAgain(then, join) ==
    /\ is_trigger' = TRUE
    /\ eraseDue' = linked
    /\ work' = "queued" /\ loop' = then

\* The first time, trigger() goes to the pool; when that refuses, std::async
\* runs it, and the destructor of its future waits for its end.
TryTrigger(then, join) ==
    IF is_trigger
    THEN UNCHANGED <<is_trigger, work, eraseDue>> /\ loop' = then
    ELSE /\ is_trigger' = TRUE
         /\ eraseDue' = linked
         /\ \/ work' = "queued" /\ loop' = then
            \/ CommitMayFail /\ work' = "async" /\ loop' = join

\* trigger() looks at isSuccess: only a response that is complete by now goes
\* through ClientIn of the middleware ...
DecodeResponse ==
    /\ work \in {"queued", "async"}
    /\ work' = IF isSuccess THEN "decoded" ELSE "plain"
    /\ UNCHANGED <<linked, run_state, loop, message, active, taskVars, waitVars, is_trigger,
                   isSuccess, eraseDue, deleteDue, backVars, networkVars>>

\* ... the wrapper of the call-back looks at it again (isOk), after whatever the
\* loop has written in the meantime ...
RunCallback ==
    /\ work \in {"decoded", "plain"}
    /\ work' = "locking"
    /\ callbacks' = callbacks + 1
    /\ outcome' = IF ~isSuccess THEN "failed" ELSE IF work = "decoded" THEN "ok" ELSE "raw"
    /\ UNCHANGED <<linked, run_state, loop, message, active, taskVars, waitVars, is_trigger,
                   isSuccess, eraseDue, deleteDue, networkVars>>

\* Mutant of PostDelete: a call-back that fails posts no timer.
PostDeleteOnSuccess ==
    /\ work = "locking" /\ loop # "joinTimer"
    /\ work' = "done"
    /\ deleteDue' = isSuccess
    /\ UNCHANGED <<linked, run_state, loop, message, active, taskVars, waitVars, is_trigger,
                   isSuccess, eraseDue, backVars, networkVars>>

\* ... and, under timer_mtx, the timer that deletes the message.  A loop that
\* waits for the future in a timer owns that mutex.
PostDelete ==
    /\ work = "locking" /\ loop # "joinTimer"
    /\ work' = "done"
    /\ deleteDue' = TRUE
    /\ UNCHANGED <<linked, run_state, loop, message, active, taskVars, waitVars, is_trigger,
                   isSuccess, eraseDue, backVars, networkVars>>

JoinAsync ==
    /\ loop = "joinRecv" /\ work = "done"
    /\ loop' = "recv"
    /\ UNCHANGED <<linked, run_state, message, active, taskVars, waitVars, doneVars, deleteDue,
                   backVars, networkVars>>

-----------------------------------------------------------------------------
(* Packets *)

\* The message is gone, or is not this one.  The link reactor's loop does not
\* pop such a packet and looks at it for ever, owning queue_mtx; it gets one
\* as long as the id is in active_queue, and one that was accepted while it was
\* (newData, which the model does not keep apart from the channel) also later.
ReceiveUnknown(p) ==
    /\ loop = "recv"
    /\ FromServer(p)
    /\ p.id # MessageId \/ message # "held" \/ (linked /\ ~active)
    /\ \/ loop' = "recv" /\ ~(linked /\ p.id = MessageId /\ active)
       \/ loop' = "spinning" /\ linked /\ p.id = MessageId /\ message # "held"
    /\ UNCHANGED <<linked, run_state, message, active, taskVars, waitVars, doneVars, deleteDue,
                   backVars, toServer>>

Known(p) ==
    /\ loop = "recv"
    /\ FromServer(p)
    /\ p.id = MessageId /\ message = "held" /\ (linked => active)
    /\ sent' = TRUE
    /\ UNCHANGED <<linked, run_state, message, active, deleteDue, backVars>>

\* The response timers the new value of last_active leaves.
Kept == {0, responseTimers}

\* response_timeout_event, called at once with the new value: one heartbeat
\* request and one more timer.
AskResponse(timers) ==
    /\ responseTimers' = OneMore(timers)
    /\ timeout_time' = 1
    /\ SendPackets({Packet("Response", "TimedOutRequestHeartbeat", 0)})

\* An acknowledgement of the request; the last one starts phase 2.
ReceiveACK(p) ==
    /\ Known(p)
    /\ p.phase = "Request" /\ p.type = "ReceiverACK"
    /\ loop' = loop
    /\ ack_accept' = IF p.num > ack_accept THEN p.num ELSE ack_accept
    /\ \E timers \in Kept :
          IF p.num > ack_accept /\ p.num = PieceCount
          THEN phase' = "Response" /\ AskResponse(timers)
          ELSE responseTimers' = timers /\ timeout_time' = 0 /\ UNCHANGED <<phase, toServer>>
    /\ UNCHANGED <<ack_expect, responseStored, requestTimers, doneVars>>

\* StateReset: the first window again, in whatever phase the message is.
ReceiveReset(p) ==
    /\ Known(p)
    /\ p.type = "StateReset"
    /\ loop' = loop
    /\ ack_accept' = 0
    /\ timeout_time' = 0
    /\ responseTimers' \in Kept
    /\ SendData(0)
    /\ UNCHANGED <<phase, responseStored, doneVars>>

\* The server's heartbeat only sets last_active and timeout_time.
ReceiveHeartbeat(p) ==
    /\ Known(p)
    /\ p.type = "TimedOutResponseHeartbeat"
    /\ loop' = loop
    /\ timeout_time' = 0
    /\ responseTimers' \in Kept
    /\ UNCHANGED <<phase, ack_accept, ack_expect, responseStored, requestTimers, doneVars, toServer>>

\* Response data in phase 1 says that the request has arrived, and is dropped.
ReceiveEarly(p) ==
    /\ Known(p)
    /\ p.phase = "Response" /\ phase = "Request"
    /\ loop' = loop
    /\ phase' = "Response"
    /\ ack_accept' = PieceCount
    /\ timeout_time' = 0
    /\ responseTimers' \in Kept
    /\ UNCHANGED <<ack_expect, responseStored, requestTimers, doneVars, toServer>>

\* Mutant of Complete: off by one.
CompleteTooEarly(ack) == ack >= ResponsePieces - 1
Complete(ack) == ack = ResponsePieces

\* A piece of the response is stored and acknowledged; the last one triggers.
ReceiveResponse(p) ==
    /\ Known(p)
    /\ p.phase = "Response" /\ phase = "Response"
    /\ responseStored' = responseStored \cup {p.num}
    /\ LET ack   == getAckNumber(responseStored', ResponsePieces)
           reply == Packet("Response", "ReceiverACK", ack)
       IN  \E timers \in Kept :
              IF Complete(ack)
              THEN /\ isSuccess' = TRUE
                   /\ TryTrigger("recv", "joinRecv")
                   /\ responseTimers' = timers /\ timeout_time' = 0
                   /\ SendPackets({reply})
              ELSE /\ responseTimers' = OneMore(timers) /\ timeout_time' = 1
                   /\ SendPackets({reply, Packet("Response", "TimedOutRequestHeartbeat", 0)})
                   /\ loop' = loop
                   /\ UNCHANGED doneVars
    /\ UNCHANGED <<phase, ack_accept, ack_expect, requestTimers>>

-----------------------------------------------------------------------------
(* No packet within recv_gap, and the timers: Transmitter runs one in each   *)
(* turn (runTask), the link reactor all that are due (runTaskLoop).          *)

\* timeout_time++; it is only compared with try_time, so it stops above it.
CountedTimeout == IF timeout_time > TryTime THEN timeout_time ELSE timeout_time + 1

AfterTimer == IF linked THEN "timer" ELSE "test"
OneTimer ==
    /\ loop \in {"recv", "timer"}
    /\ UNCHANGED <<linked, run_state, message, active, deleteDue, phase, ack_accept, ack_expect,
                   sent, responseStored, backVars, toClient, faults>>

EndTimers ==
    /\ loop \in {"recv", "timer"}
    /\ loop' = "test"
    /\ UNCHANGED <<linked, run_state, message, active, taskVars, waitVars, doneVars, deleteDue,
                   backVars, networkVars>>

\* timeout_event: the acknowledgement has not moved since the timer was set.
TimeoutEvent(a) ==
    /\ OneTimer
    /\ requestTimers[a] > 0
    /\ IF ack_accept = a /\ a # PieceCount
       THEN /\ timeout_time' = CountedTimeout
            /\ IF timeout_time' > TryTime
               THEN /\ isSuccess' = FALSE
                    /\ TryTrigger(AfterTimer, "joinTimer")
                    /\ requestTimers' = [requestTimers EXCEPT ![a] = @ - 1]
                    /\ UNCHANGED toServer
               ELSE /\ SendPackets({Packet("Request", "RequestACK", 0)})
                    /\ loop' = AfterTimer
                    /\ UNCHANGED <<doneVars, requestTimers>>
       ELSE /\ requestTimers' = [requestTimers EXCEPT ![a] = @ - 1]
            /\ loop' = AfterTimer
            /\ UNCHANGED <<timeout_time, doneVars, toServer>>
    /\ UNCHANGED responseTimers

\* response_timeout_event: nothing has arrived since the timer was set.
ResponseTimeoutEvent ==
    /\ OneTimer
    /\ responseTimers > 0
    /\ timeout_time' = CountedTimeout
    /\ IF timeout_time' > TryTime
       THEN /\ isSuccess' = (isSuccess /\ is_trigger)
            /\ TryTrigger(AfterTimer, "joinTimer")
            /\ responseTimers' = responseTimers - 1
            /\ UNCHANGED toServer
       ELSE /\ SendPackets({Packet("Response", "TimedOutRequestHeartbeat", 0)})
            /\ loop' = AfterTimer
            /\ UNCHANGED <<responseTimers, doneVars>>
    /\ UNCHANGED requestTimers

\* delete_message: the task goes, and the timers that are left find none.
DeleteMessage ==
    /\ loop \in {"recv", "timer"}
    /\ deleteDue
    /\ deleteDue' = FALSE
    /\ message' = "deleted"
    /\ phase' = "Request" /\ ack_accept' = 0 /\ ack_expect' = 0 /\ sent' = FALSE
    /\ timeout_time' = 0 /\ requestTimers' = NoTimers /\ responseTimers' = 0
    /\ loop' = AfterTimer
    /\ UNCHANGED <<linked, run_state, active, responseStored, doneVars, backVars, networkVars>>

\* The main reactor runs the timer of TransmitterLinkReactor::try_trigger.
EraseActive ==
    /\ eraseDue
    /\ eraseDue' = FALSE
    /\ active' = FALSE
    /\ UNCHANGED <<linked, run_state, loop, message, taskVars, waitVars, is_trigger, isSuccess,
                   work, deleteDue, backVars, networkVars>>

TransmitterReceive(p) ==
    \/ ReceiveUnknown(p) \/ ReceiveACK(p) \/ ReceiveReset(p) \/ ReceiveHeartbeat(p)
    \/ ReceiveEarly(p) \/ ReceiveResponse(p)
LoopStep == \/ LoopTest \/ Doze \/ SendMessages \/ JoinAsync
Timers   == \/ EndTimers \/ ResponseTimeoutEvent \/ DeleteMessage
            \/ \E a \in 0 .. PieceCount : TimeoutEvent(a)

TransmitterFlagsOK ==
    /\ linked \in BOOLEAN /\ run_state \in BOOLEAN /\ active \in BOOLEAN /\ eraseDue \in BOOLEAN
    /\ sent \in BOOLEAN /\ is_trigger \in BOOLEAN /\ isSuccess \in BOOLEAN /\ deleteDue \in BOOLEAN

TransmitterTypeOK ==
    /\ TransmitterFlagsOK
    /\ loop \in LoopStages
    /\ message \in {"none", "held", "deleted"}
    /\ phase \in Phases
    /\ ack_accept \in 0 .. PieceCount /\ ack_expect \in 0 .. PieceCount
    /\ timeout_time \in 0 .. TryTime + 1
    /\ responseStored \in SUBSET Pieces(ResponsePieces)
    /\ requestTimers \in [0 .. PieceCount -> 0 .. MaxTimers]
    /\ responseTimers \in 0 .. MaxTimers
    /\ work \in WorkStages
    /\ callbacks \in Nat /\ outcome \in {"pending", "ok", "raw", "failed"}
=============================================================================
