----------------------------- MODULE Connections -----------------------------
(***************************************************************************)
(* How a client gets, keeps and loses a virtual connection: the main       *)
(* reactor (reactor.cpp), which owns the listening socket and the table    *)
(* con_queue, and the sub-reactors (sub_reactor.cpp), which own the slots. *)
(*                                                                         *)
(* A descriptor is a number the kernel hands out again after it is closed, *)
(* the lowest free one first; slots, queue entries and con_queue keep such *)
(* numbers, the kernel keeps the socket behind it.  Whether a connection   *)
(* has been silent for the 120 seconds of ConnectionTimeOut is decided     *)
(* where the code compares last_active with the clock.  What a packet says *)
(* to the message layer is the subject of MessageServer; here it either    *)
(* completes a request, which starts a task that keeps a pointer to the    *)
(* slot, or it does not.                                                   *)
(***************************************************************************)
EXTENDS Integers, Sequences, FiniteSets, FiniteSetsExt

CONSTANTS
    Peers,              \* clients: an address and a port
    SubReactorCount,
    OpenMaxConnection,  \* slots of one sub-reactor
    MaxFd,              \* descriptors the process may have for clients
    MaxSends,           \* bound: packets the clients send
    MaxErrors,          \* bound: socket errors (a client's port is closed)
    MaxFailures,        \* bound: failures of connect() and of EPOLL_CTL_ADD
    MaxTasks,           \* bound: requests in the thread pool at a time
    NoPeer              \* the address of a slot that was never used

ASSUME ConnectionsAssumption ==
    /\ SubReactorCount \in Nat \ {0}
    /\ OpenMaxConnection \in Nat \ {0}
    /\ MaxFd \in Nat
    /\ MaxSends \in Nat /\ MaxErrors \in Nat /\ MaxFailures \in Nat /\ MaxTasks \in Nat
    /\ NoPeer \notin Peers

Subs   == 0 .. SubReactorCount - 1
Slots  == 0 .. OpenMaxConnection - 1
Fds    == 1 .. MaxFd
NoFd   == -1
NoSlot == -1

VARIABLES
    (* the kernel *)
    inbox,          \* client -> its datagrams in the listening socket
    socketOf,       \* fd -> the client its socket is connected to, NoPeer: closed
    unread,         \* fds whose socket has a datagram to read
    failed,         \* fds whose socket has an error to report
    epoll,          \* sub -> fd -> the slot its epoll entry points to
    orphans,        \* fds of sockets whose connect() failed
    switch,         \* subs whose epoll_switch_fd is armed with EPOLLOUT
    (* the main reactor *)
    mainPc,         \* "timer", "recv", "stopped"
    con_queue,      \* client -> <<fd, sub>> of its connection, <<>>: none
    counter,
    erases,         \* the timers that erase a client from con_queue
    (* the sub-reactors *)
    runState,       \* false while "starting", "stopping" or "stopped"
    newConnections, \* queue of [fd, peer, new]
    socket_fd, addr,                \* the slots
    activeConnectionsCount, lastEmptyPlace,
    checks,         \* sub -> slot -> pending timers of checkDeleteSocket
    tasks,          \* requests in the thread pool: [sub, slot, peer]
    pc, left, ready,                \* the loop, what is left of its rounds
    (* bounds and history *)
    sends, errors, failures,
    dangling        \* closed while a slot or an entry kept the number, or twice

kernel   == <<inbox, socketOf, orphans, unread, failed, epoll>>
mainVars == <<mainPc, con_queue, counter, erases>>
slotVars == <<socket_fd, addr, activeConnectionsCount, lastEmptyPlace, checks>>
loopVars == <<pc, left, ready>>
history  == <<sends, errors, failures, dangling>>
vars == <<kernel, switch, mainVars, slotVars, loopVars, history, runState, newConnections, tasks>>

Entries == [fd : Fds, peer : Peers, new : BOOLEAN]
Stages  == {"start", "wait", "timers", "new", "events", "exited"}

Tasks == [sub : Subs, slot : Slots, peer : Peers]

(* Everything has its type. *)
KernelType ==
    /\ inbox \in [Peers -> Nat]
    /\ socketOf \in [Fds -> Peers \cup {NoPeer}]
    /\ unread \in SUBSET Fds /\ failed \in SUBSET Fds /\ orphans \in SUBSET Fds
    /\ epoll \in [Subs -> [Fds -> Slots \cup {NoSlot}]]
MainType ==
    /\ mainPc \in {"timer", "recv", "stopped"}
    /\ con_queue \in [Peers -> {<<>>} \cup (Fds \X Subs)]
    /\ counter \in Subs
    /\ erases \in Seq(Peers)
SlotType ==
    /\ socket_fd \in [Subs -> [Slots -> Fds \cup {NoFd}]]
    /\ addr \in [Subs -> [Slots -> Peers \cup {NoPeer}]]
    /\ activeConnectionsCount \in [Subs -> Int]
    /\ lastEmptyPlace \in [Subs -> Slots]
    /\ checks \in [Subs -> [Slots -> Nat]]
LoopType ==
    /\ pc \in [Subs -> Stages]
    /\ left \in [Subs -> Nat]
    /\ ready \in [Subs -> SUBSET ({"in", "err", "out"} \X (Slots \cup {NoSlot}))]
SharedType ==
    /\ switch \in SUBSET Subs
    /\ runState \in [Subs -> {"starting", "running", "waking", "stopping", "stopped"}]
    /\ newConnections \in [Subs -> Seq(Entries)]
    /\ tasks \in SUBSET Tasks
HistoryType == sends \in Nat /\ errors \in Nat /\ failures \in Nat /\ dangling \in BOOLEAN
TypeOK == KernelType /\ MainType /\ SlotType /\ LoopType /\ SharedType /\ HistoryType

(* Reactor::start has created the sub-reactors and their threads. *)
Init ==
    /\ inbox = [p \in Peers |-> 0]
    /\ socketOf = [f \in Fds |-> NoPeer]
    /\ unread = {} /\ failed = {} /\ orphans = {}
    /\ epoll = [s \in Subs |-> [f \in Fds |-> NoSlot]]
    /\ switch = {}
    /\ mainPc = "timer"
    /\ con_queue = [p \in Peers |-> <<>>]
    /\ counter = 0
    /\ erases = <<>>
    /\ runState = [s \in Subs |-> "starting"]
    /\ newConnections = [s \in Subs |-> <<>>]
    /\ socket_fd = [s \in Subs |-> [k \in Slots |-> NoFd]]
    /\ addr = [s \in Subs |-> [k \in Slots |-> NoPeer]]
    /\ activeConnectionsCount = [s \in Subs |-> 0]
    /\ lastEmptyPlace = [s \in Subs |-> 0]
    /\ checks = [s \in Subs |-> [k \in Slots |-> 0]]
    /\ tasks = {}
    /\ pc = [s \in Subs |-> "start"]
    /\ left = [s \in Subs |-> 0]
    /\ ready = [s \in Subs |-> {}]
    /\ sends = 0 /\ errors = 0 /\ failures = 0
    /\ dangling = FALSE

-----------------------------------------------------------------------------
(* The kernel and the clients. *)

Open == {f \in Fds : socketOf[f] # NoPeer} \cup orphans

(* A datagram goes to the socket connected to its sender; when there is    *)
(* none, to the listening socket or to another socket of the same port     *)
(* that is not connected (SO_REUSEPORT), which nobody reads.               *)
ClientSend(p) ==
    /\ sends < MaxSends
    /\ sends' = sends + 1
    /\ \/ \E f \in Open : socketOf[f] = p /\ unread' = unread \cup {f} /\ UNCHANGED inbox
       \/ /\ \A f \in Open : socketOf[f] # p
          /\ \/ inbox' = [inbox EXCEPT ![p] = @ + 1]
             \/ orphans # {} /\ UNCHANGED inbox
          /\ UNCHANGED unread
    /\ UNCHANGED <<socketOf, orphans, failed, epoll, switch, mainVars, slotVars, loopVars, runState,
                   newConnections, tasks, errors, failures, dangling>>

(* An ICMP answer to something the server sent: the client's port is closed. *)
SocketError(f) ==
    /\ errors < MaxErrors /\ f \in Open /\ f \notin orphans
    /\ errors' = errors + 1
    /\ failed' = failed \cup {f}
    /\ UNCHANGED <<inbox, socketOf, orphans, unread, epoll, switch, mainVars, slotVars, loopVars,
                   runState, newConnections, tasks, sends, failures, dangling>>

(* close(): the numbers are free, their sockets and epoll entries are gone. *)
Close(F) ==
    /\ socketOf' = [f \in Fds |-> IF f \in F THEN NoPeer ELSE socketOf[f]]
    /\ orphans' = orphans \ F
    /\ unread' = unread \ F
    /\ failed' = failed \ F
    /\ UNCHANGED inbox
EpollWithout(F) ==
    [s \in Subs |-> [f \in Fds |-> IF f \in F THEN NoSlot ELSE epoll[s][f]]]

-----------------------------------------------------------------------------
(* Main reactor: each turn of its loop runs at most one due timer and      *)
(* then reads at most one datagram of the listening socket.                *)

(* runTask: the timer closeSocket has posted erases the client. *)
RunTask ==
    /\ mainPc = "timer"
    /\ mainPc' = "recv"
    /\ IF erases = <<>>
       THEN UNCHANGED <<con_queue, erases>>
       ELSE /\ con_queue' = [con_queue EXCEPT ![Head(erases)] = <<>>]
            /\ erases' = Tail(erases)
    /\ UNCHANGED <<kernel, switch, counter, slotVars, loopVars, history, runState, newConnections,
                   tasks>>

EndTurn == mainPc = "recv" /\ mainPc' = "timer"

(* epoll_wait returns after 10 ms without a datagram. *)
NoDatagram ==
    /\ EndTurn
    /\ \A p \in Peers : inbox[p] = 0
    /\ UNCHANGED <<kernel, switch, con_queue, counter, erases, slotVars, loopVars, history,
                   runState, newConnections, tasks>>

Read(p) ==
    /\ EndTurn
    /\ inbox[p] > 0
    /\ inbox' = [inbox EXCEPT ![p] = @ - 1]

(* acceptConnection: queue the entry, then wake the epoll; newConLocker is *)
(* shared with dealWithNewConnection.  It refuses when the sub-reactor     *)
(* does not run.                                                           *)
Runs(s)      == runState[s] \in {"running", "waking"}
CanAccept(s) == pc[s] # "new"
AcceptConnection(s, e) ==
    IF Runs(s)
    THEN /\ newConnections' = [newConnections EXCEPT ![s] = Append(@, e)]
         /\ switch' = switch \cup {s}
    ELSE UNCHANGED <<newConnections, switch>>

(* con_queue knows the client: its packet follows to the sub-reactor; the  *)
(* result of acceptConnection is not looked at.                            *)
ForwardKnown(p) ==
    /\ Read(p)
    /\ con_queue[p] # <<>>
    /\ LET f == con_queue[p][1]
           s == con_queue[p][2]
       IN  CanAccept(s) /\ AcceptConnection(s, [fd |-> f, peer |-> p, new |-> FALSE])
    /\ UNCHANGED <<socketOf, orphans, unread, failed, epoll, con_queue, counter, erases, slotVars,
                   loopVars, runState, tasks, history>>

(* The sub-reactors take turns. *)
NextSubUnbounded == counter + 1   \* mutant
NextSub == (counter + 1) % SubReactorCount

(* A new client: a socket bound to the server's port and connected to the  *)
(* client, handed to the sub-reactors in turn.                             *)
AcceptNew(p) ==
    /\ Read(p)
    /\ con_queue[p] = <<>> /\ Open # Fds
    /\ LET f == Min(Fds \ Open)
           s == counter
       IN  /\ CanAccept(s)
           /\ AcceptConnection(s, [fd |-> f, peer |-> p, new |-> TRUE])
           /\ IF Runs(s)
              THEN /\ socketOf' = [socketOf EXCEPT ![f] = p]
                   /\ con_queue' = [con_queue EXCEPT ![p] = <<f, s>>]
              ELSE UNCHANGED <<socketOf, con_queue>>
           /\ counter' = NextSub
    /\ UNCHANGED <<orphans, unread, failed, epoll, erases, slotVars, loopVars, runState, tasks,
                   history>>

(* socket() finds no descriptor: the datagram is lost. *)
NoDescriptor(p) ==
    /\ Read(p)
    /\ con_queue[p] = <<>> /\ Open = Fds
    /\ UNCHANGED <<socketOf, orphans, unread, failed, epoll, switch, con_queue, counter, erases,
                   slotVars, loopVars, history, runState, newConnections, tasks>>

(* connect() fails: the socket is not closed and nobody knows it. *)
ConnectFails(p) ==
    /\ Read(p)
    /\ con_queue[p] = <<>> /\ Open # Fds
    /\ failures < MaxFailures
    /\ failures' = failures + 1
    /\ orphans' = orphans \cup {Min(Fds \ Open)}
    /\ UNCHANGED <<socketOf, unread, failed, epoll, switch, con_queue, counter, erases, slotVars,
                   loopVars, runState, newConnections, tasks, sends, errors, dangling>>

-----------------------------------------------------------------------------
(* A sub-reactor's loop: epoll_wait, timers, new connections, events. *)

Goto(s, from, to) == pc[s] = from /\ pc' = [pc EXCEPT ![s] = to]

Start(s) ==
    /\ runState[s] = "starting"
    /\ runState' = [runState EXCEPT ![s] = "running"]
    /\ Goto(s, "start", "wait")
    /\ UNCHANGED <<kernel, switch, mainVars, slotVars, left, ready, history, newConnections, tasks>>

(* epoll_wait returns when an entry has something to report or a timer is  *)
(* due.  It keeps pointers to slots, and the two stages before the events  *)
(* may change these slots.                                                 *)
Reported(s) ==
    {<<"in",  epoll[s][f]>> : f \in {g \in unread : epoll[s][g] # NoSlot}}
      \cup {<<"err", epoll[s][f]>> : f \in {g \in failed : epoll[s][g] # NoSlot}}
      \cup (IF s \in switch THEN {<<"out", NoSlot>>} ELSE {})
EpollWait(s) ==
    /\ Goto(s, "wait", "timers")
    /\ \/ Reported(s) # {}
       \/ \E k \in Slots : checks[s][k] > 0
       \/ \E t \in tasks : t.sub = s
    /\ ready' = [ready EXCEPT ![s] = Reported(s)]
    /\ UNCHANGED <<kernel, switch, mainVars, slotVars, left, history, runState, newConnections,
                   tasks>>

(* closeSocket for a set of slots: the numbers they hold are closed, the   *)
(* main reactor is asked to erase their clients, in the order of the       *)
(* slots.                                                                  *)
(* Mutants: no descriptor is closed, that of another slot is, no timer is posted. *)
FdsOfNone(s, K)    == {}
FdsOfLast(s, K)    == {socket_fd[s][lastEmptyPlace[s]]} \cap Fds
ErasesOfNone(s, K) == <<>>

FdsOf(s, K)    == {socket_fd[s][k] : k \in K} \cap Fds
NthOf(K, i)    == CHOOSE k \in K : Cardinality({j \in K : j < k}) = i - 1
ErasesOf(s, K) == [i \in 1 .. Cardinality(K) |-> addr[s][NthOf(K, i)]]

(* checkDeleteSocket, the timer of a connection: it closes a silent one    *)
(* and lets go of a slot that has none; while the connection is in use it  *)
(* sets itself again, which changes nothing here.  activeConnectionsCount  *)
(* stays as it is.                                                         *)
CheckDeleteSocket(s, k) ==
    /\ pc[s] = "timers" /\ checks[s][k] > 0
    /\ checks' = [checks EXCEPT ![s][k] = @ - 1]
    /\ IF socket_fd[s][k] = NoFd
       THEN UNCHANGED <<kernel, erases, socket_fd>>
       ELSE /\ Close(FdsOf(s, {k}))
            /\ epoll' = EpollWithout(FdsOf(s, {k}))
            /\ erases' = erases \o ErasesOf(s, {k})
            /\ socket_fd' = [socket_fd EXCEPT ![s][k] = NoFd]
    /\ UNCHANGED <<switch, mainPc, con_queue, counter, addr, activeConnectionsCount,
                   lastEmptyPlace, loopVars, history, runState, newConnections, tasks>>

(* The timer a finished task has posted: the response is sent from the     *)
(* slot the task was given, to the address the slot has now.               *)
SendResponse(t) ==
    /\ pc[t.sub] = "timers"
    /\ tasks' = tasks \ {t}
    /\ UNCHANGED <<kernel, switch, mainVars, slotVars, loopVars, runState, newConnections, history>>

EndTimers(s) ==
    /\ Goto(s, "timers", "new")
    /\ left' = [left EXCEPT ![s] = Len(newConnections[s])]
    /\ UNCHANGED <<kernel, switch, mainVars, slotVars, ready, history, runState, newConnections,
                   tasks>>

-----------------------------------------------------------------------------
(* dealWithNewConnection: as many turns as the queue had entries at first. *)

(* clearTimeoutConnections runs when the count says that no slot is free,  *)
(* and closes the silent connections, C.                                   *)
MayClear(s, C) ==
    C # {} => /\ activeConnectionsCount[s] >= OpenMaxConnection
              /\ \A k \in C : socket_fd[s][k] # NoFd

(* findConnectionsEmptyPlace: the first free slot from lastEmptyPlace on. *)
FreeSlotsAny(s, C) == Slots   \* mutant: no test of socket_fd
FreeSlots(s, C) == {k \in Slots : socket_fd[s][k] = NoFd} \cup C
FirstFrom(s, K) ==
    LET Distance(k) == (k - lastEmptyPlace[s] + OpenMaxConnection) % OpenMaxConnection
    IN  CHOOSE k \in K : \A j \in K : Distance(k) <= Distance(j)

(* A packet that completes a request is handed to the thread pool with a   *)
(* pointer to the slot; the pool may refuse it, or the packet complete     *)
(* nothing.                                                                *)
Trigger(s, k, p) ==
    \/ UNCHANGED tasks
    \/ Cardinality(tasks) < MaxTasks /\ tasks' = tasks \cup {[sub |-> s, slot |-> k, peer |-> p]}

Entry(s) == Head(newConnections[s])
Deal(s) ==
    /\ pc[s] = "new" /\ left[s] > 0
    /\ left' = [left EXCEPT ![s] = @ - 1]
    /\ UNCHANGED <<pc, ready, switch, mainPc, con_queue, counter, runState, sends, errors>>
Pop(s) == newConnections' = [newConnections EXCEPT ![s] = Tail(@)]

(* Each cleared connection lowers the count, the new one raises it. *)
CountAfterClearing(s, C) == activeConnectionsCount[s] - Cardinality(C)   \* mutant
CountAfter(s, C) == activeConnectionsCount[s] - Cardinality(C) + 1

(* The slot of a new connection, the connections of C cleared before. *)
Occupy(s, C, k, f, p) ==
    /\ erases' = erases \o ErasesOf(s, C)
    /\ socket_fd' = [socket_fd EXCEPT ![s] =
          [j \in Slots |-> IF j = k THEN f ELSE IF j \in C THEN NoFd ELSE @[j]]]
    /\ addr' = [addr EXCEPT ![s][k] = p]
    /\ activeConnectionsCount' = [activeConnectionsCount EXCEPT ![s] = CountAfter(s, C)]
    /\ lastEmptyPlace' = [lastEmptyPlace EXCEPT ![s] = k]
    /\ Trigger(s, k, p)

(* EPOLL_CTL_ADD accepts an open descriptor that this epoll does not have. *)
CanAdd(s, f, gone) == f \in Open \ gone /\ EpollWithout(gone)[s][f] = NoSlot

(* A new connection gets a slot, an epoll entry and a timer. *)
TakeSlot(s, C) ==
    /\ Deal(s) /\ Entry(s).new
    /\ MayClear(s, C) /\ FreeSlots(s, C) # {}
    /\ LET k == FirstFrom(s, FreeSlots(s, C))
           f == Entry(s).fd
       IN  /\ CanAdd(s, f, FdsOf(s, C))
           /\ Close(FdsOf(s, C))
           /\ epoll' = [EpollWithout(FdsOf(s, C)) EXCEPT ![s][f] = k]
           /\ Occupy(s, C, k, f, Entry(s).peer)
           /\ checks' = [checks EXCEPT ![s][k] = @ + 1]
    /\ Pop(s)
    /\ UNCHANGED <<dangling, failures>>

(* The epoll does not take the descriptor, or the kernel has no memory for *)
(* the entry: the descriptor is closed, but the slot keeps it without a    *)
(* timer and the entry stays in the queue.                                 *)
AddFails(s, C) ==
    /\ Deal(s) /\ Entry(s).new
    /\ MayClear(s, C) /\ FreeSlots(s, C) # {}
    /\ LET k == FirstFrom(s, FreeSlots(s, C))
           f == Entry(s).fd
       IN  /\ Close(FdsOf(s, C) \cup {f})
           /\ epoll' = EpollWithout(FdsOf(s, C) \cup {f})
           /\ Occupy(s, C, k, f, Entry(s).peer)
    /\ failures < MaxFailures
    /\ failures' = failures + 1
    /\ dangling' = TRUE
    /\ UNCHANGED <<checks, newConnections>>

(* No slot: the client is told, its descriptor closed, and the entry stays *)
(* at the head of the queue.                                               *)
Refuse(s) ==
    /\ Deal(s) /\ Entry(s).new
    /\ FreeSlots(s, {}) = {}
    /\ Close({Entry(s).fd})
    /\ epoll' = EpollWithout({Entry(s).fd})
    /\ dangling' = TRUE
    /\ UNCHANGED <<erases, slotVars, tasks, newConnections, failures>>

(* The packet of a known client goes to the slot with its descriptor. *)
Holders(s, f) == {k \in Slots : socket_fd[s][k] = f}
UseSlot(s) ==
    /\ Deal(s) /\ ~Entry(s).new /\ Holders(s, Entry(s).fd) # {}
    /\ LET k == FirstFrom(s, Holders(s, Entry(s).fd))
       IN  Trigger(s, k, Entry(s).peer)
    /\ Pop(s)
    /\ UNCHANGED <<kernel, erases, slotVars, dangling, failures>>

(* "Throw data": no slot has it, and the entry stays in the queue. *)
ThrowData(s) ==
    /\ Deal(s) /\ ~Entry(s).new /\ Holders(s, Entry(s).fd) = {}
    /\ UNCHANGED <<kernel, erases, slotVars, dangling, failures, tasks, newConnections>>

EndNew(s) ==
    /\ left[s] = 0
    /\ Goto(s, "new", "events")
    /\ UNCHANGED <<kernel, switch, mainVars, slotVars, left, ready, history, runState,
                   newConnections, tasks>>

-----------------------------------------------------------------------------
(* The events epoll_wait reported, by the pointers it reported. *)

Handle(s, e) ==
    /\ pc[s] = "events" /\ e \in ready[s]
    /\ ready' = [ready EXCEPT ![s] = @ \ {e}]
    /\ UNCHANGED <<pc, left, mainPc, con_queue, counter, runState, newConnections, sends, errors,
                   failures, socket_fd, addr, activeConnectionsCount,
                   lastEmptyPlace, checks>>

(* EPOLLERR: the descriptor is closed, the slot keeps its number. *)
EventErr(s, k) ==
    /\ Handle(s, <<"err", k>>)
    /\ Close(FdsOf(s, {k}))
    /\ epoll' = EpollWithout(FdsOf(s, {k}))
    /\ erases' = erases \o ErasesOf(s, {k})
    /\ dangling' = TRUE
    /\ UNCHANGED <<switch, tasks>>

(* EPOLLIN: recvfrom on the number the slot has now.  It fails on a closed *)
(* number and blocks on a socket that has nothing to read.                 *)
EventIn(s, k) ==
    /\ <<"err", k>> \notin ready[s]
    /\ Handle(s, <<"in", k>>)
    /\ \/ socket_fd[s][k] \notin Open /\ UNCHANGED <<unread, tasks>>
       \/ /\ socket_fd[s][k] \in unread
          /\ unread' = unread \ {socket_fd[s][k]}
          /\ Trigger(s, k, socketOf[socket_fd[s][k]])
    /\ UNCHANGED <<inbox, socketOf, orphans, failed, epoll, switch, erases, dangling>>

(* EPOLLOUT of the switch: it is disarmed. *)
EventOut(s) ==
    /\ Handle(s, <<"out", NoSlot>>)
    /\ switch' = switch \ {s}
    /\ UNCHANGED <<kernel, erases, tasks, dangling>>

EndEvents(s) ==
    /\ ready[s] = {}
    /\ Goto(s, "events", IF Runs(s) THEN "wait" ELSE "exited")
    /\ UNCHANGED <<kernel, switch, mainVars, slotVars, left, ready, history, runState,
                   newConnections, tasks>>

-----------------------------------------------------------------------------
(* Reactor::stop, once the loops run: the main reactor first, then each    *)
(* sub-reactor in turn.                                                    *)

StopMain ==
    /\ mainPc = "timer"
    /\ mainPc' = "stopped"
    /\ UNCHANGED <<kernel, switch, con_queue, counter, erases, slotVars, loopVars, history,
                   runState, newConnections, tasks>>

(* SubReactor::stop wakes the epoll before it clears the state. *)
StopWake(s) ==
    /\ mainPc = "stopped" /\ runState[s] = "running"
    /\ \A r \in 0 .. s - 1 : runState[r] = "stopped"
    /\ runState' = [runState EXCEPT ![s] = "waking"]
    /\ switch' = switch \cup {s}
    /\ UNCHANGED <<kernel, mainVars, slotVars, loopVars, history, newConnections, tasks>>
StopSub(s) ==
    /\ runState[s] = "waking"
    /\ runState' = [runState EXCEPT ![s] = "stopping"]
    /\ UNCHANGED <<kernel, switch, mainVars, slotVars, loopVars, history, newConnections, tasks>>

(* The thread is joined and the descriptor of every slot closed. *)
JoinSub(s) ==
    /\ runState[s] = "stopping" /\ pc[s] = "exited"
    /\ runState' = [runState EXCEPT ![s] = "stopped"]
    /\ Close(FdsOf(s, Slots))
    /\ epoll' = EpollWithout(FdsOf(s, Slots))
    /\ UNCHANGED <<switch, mainVars, slotVars, loopVars, history, newConnections, tasks>>

-----------------------------------------------------------------------------
Next ==
    \/ \E p \in Peers : ClientSend(p) \/ ForwardKnown(p) \/ AcceptNew(p) \/ NoDescriptor(p) \/ ConnectFails(p)
    \/ \E f \in Fds : SocketError(f)
    \/ RunTask \/ NoDatagram \/ StopMain
    \/ \E s \in Subs :
          \/ Start(s) \/ EpollWait(s) \/ EndTimers(s)
          \/ \E C \in SUBSET Slots : TakeSlot(s, C) \/ AddFails(s, C)
          \/ Refuse(s) \/ UseSlot(s) \/ ThrowData(s) \/ EndNew(s)
          \/ EventOut(s) \/ EndEvents(s)
          \/ StopWake(s) \/ StopSub(s) \/ JoinSub(s)
          \/ \E k \in Slots :
                CheckDeleteSocket(s, k) \/ EventErr(s, k) \/ EventIn(s, k)
    \/ \E t \in tasks : SendResponse(t)

Spec == Init /\ [][Next]_vars

-----------------------------------------------------------------------------
(* Who has the number of a descriptor: a slot, or the entry of a new       *)
(* connection.  Nobody looks at the slots and the queue of a sub-reactor   *)
(* that has been joined, so only the others can still close one.           *)
SlotHolders == {<<socket_fd[s][k], addr[s][k], s>> : s \in Subs, k \in Slots}
NewEntries(s) == {newConnections[s][i] : i \in {j \in 1 .. Len(newConnections[s]) : newConnections[s][j].new}}
EntryHolders == UNION {{<<e.fd, e.peer, s>> : e \in NewEntries(s)} : s \in Subs}
Named   == {h \in SlotHolders \cup EntryHolders : h[1] # NoFd}
Holding == {h \in Named : runState[h[3]] # "stopped"}

(* findConnectionsEmptyPlace clears silent connections only when           *)
(* activeConnectionsCount says that all slots are taken.  The count is not *)
(* lowered by checkDeleteSocket; it never falls below the slots in use, so *)
(* no client is refused while a silent connection keeps a slot.            *)
CountCoversSlots ==
    \A s \in Subs :
        Cardinality({k \in Slots : socket_fd[s][k] # NoFd}) <= activeConnectionsCount[s]

(* The code leaks a descriptor in two places and no others: the main       *)
(* reactor does not close a socket whose connect() failed, and stop closes *)
(* the descriptors of the slots but not those of the new connections that  *)
(* are still queued when the sub-reactor's thread is joined.  Every other  *)
(* path (time-out, clearing, refusal, failed EPOLL_CTL_ADD, EPOLLERR,      *)
(* stop), in any order and with numbers that are handed out again, closes  *)
(* a descriptor before the last slot or entry lets go of it: an open one   *)
(* is in a slot or an entry of a sub-reactor that will still close it.     *)
LeftInQueue == {h[1] : h \in EntryHolders \ Holding}
NoDescriptorLeak == Open \subseteq orphans \cup LeftInQueue \cup {h[1] : h \in Holding}

(* The main reactor's table never keeps a route that nobody will take      *)
(* back: its connection exists, or the timer that erases it is pending.    *)
NoStaleRoute ==
    \A p \in Peers : con_queue[p] # <<>> =>
        \/ <<con_queue[p][1], p, con_queue[p][2]>> \in Named
        \/ \E i \in DOMAIN erases : erases[i] = p

(* As long as no descriptor was closed under its holder (EPOLLERR, no slot *)
(* left, EPOLL_CTL_ADD failed), every connection is backed by a socket of  *)
(* its own, connected to its client, and is the one the table routes to.   *)
OwnConnections ==
    ~dangling => \A h \in Holding :
        /\ socketOf[h[1]] = h[2]
        /\ con_queue[h[2]] = <<h[1], h[3]>>
        /\ \A i \in DOMAIN erases : erases[i] # h[2]
        /\ \A g \in Named : g[1] = h[1] => g = h

(* An epoll entry keeps a raw pointer to a slot.  Whatever has been closed *)
(* (by a timer, by clearing, under its holder) and handed out again to     *)
(* another client, the entry of an open descriptor points to a slot that   *)
(* has this descriptor and for which a timer of checkDeleteSocket is       *)
(* pending: epoll_wait never reports the slot of another connection, and   *)
(* no connection that can still send is left without the timer that ends   *)
(* it, although the timers of cleared slots are never cancelled.           *)
WatchedConnections ==
    \A s \in Subs, f \in Fds : epoll[s][f] # NoSlot =>
        /\ f \in Open
        /\ socket_fd[s][epoll[s][f]] = f
        /\ checks[s][epoll[s][f]] > 0

(* A response goes to the client that asked.  False (README, section 7),   *)
(* so no run checks it: the slot of a task may be closed and given to      *)
(* another client while the pool works.                                    *)
AnswersReachTheirClient == \A t \in tasks : addr[t.sub][t.slot] = t.peer
=============================================================================
