-------------------------- MODULE ConnectionsProofs --------------------------
(***************************************************************************)
(* Proofs about Connections, for any number of clients, sub-reactors,      *)
(* slots and descriptors, and any number of packets, errors and failures.  *)
(***************************************************************************)
EXTENDS Connections, FiniteSetTheorems, SequenceTheorems, TLAPS

(* What the kernel promises: only an open, connected socket has something  *)
(* to report, and a socket whose connect() failed is not connected.        *)
KernelInv ==
    /\ \A f \in unread \cup failed : socketOf[f] # NoPeer
    /\ \A f \in orphans : socketOf[f] = NoPeer

(* A slot that was ever used has an address: one that has a descriptor, one *)
(* an epoll entry points to, and one epoll_wait has reported.               *)
AddressInv ==
    \A s \in Subs :
        /\ \A k \in Slots : socket_fd[s][k] # NoFd => addr[s][k] \in Peers
        /\ \A f \in Fds : epoll[s][f] # NoSlot => addr[s][epoll[s][f]] \in Peers
        /\ \A k \in Slots : <<"err", k>> \in ready[s] => addr[s][k] \in Peers

(* What dealWithNewConnection still has to look at is in the queue. *)
RoundInv == \A s \in Subs : pc[s] = "new" => left[s] <= Len(newConnections[s])

(* Nobody stops before the main reactor, which then accepts nothing; a     *)
(* joined thread has left its loop.                                        *)
StopInv ==
    \A s \in Subs :
        /\ runState[s] \in {"waking", "stopping", "stopped"} => mainPc = "stopped"
        /\ runState[s] = "stopped" => pc[s] = "exited"

(* The holders of a descriptor, one by one: slots, and queue entries of new *)
(* connections.                                                             *)
NewAt(s, i) == i \in 1 .. Len(newConnections[s]) /\ newConnections[s][i].new
SlotsApart ==
    \A s, r \in Subs, k, j \in Slots :
        socket_fd[s][k] # NoFd /\ socket_fd[s][k] = socket_fd[r][j] => s = r /\ k = j
EntriesApart ==
    \A s, r \in Subs, i, j \in Nat :
        NewAt(s, i) /\ NewAt(r, j) /\ newConnections[s][i].fd = newConnections[r][j].fd => s = r /\ i = j
SlotsEntriesApart ==
    \A s, r \in Subs, k \in Slots, i \in Nat :
        NewAt(r, i) => socket_fd[s][k] # newConnections[r][i].fd

(* Each erase that is pending has a route to erase, and only one. *)
ErasesApart ==
    /\ \A i \in DOMAIN erases : con_queue[erases[i]] # <<>>
    /\ \A i, j \in DOMAIN erases : erases[i] = erases[j] => i = j

(* A connection's socket, route and missing erase, holder by holder. *)
Backed(f, p, s) ==
    runState[s] # "stopped" =>
        /\ socketOf[f] = p
        /\ con_queue[p] = <<f, s>>
        /\ \A i \in DOMAIN erases : erases[i] # p
SlotsBacked ==
    \A s \in Subs, k \in Slots : socket_fd[s][k] # NoFd => Backed(socket_fd[s][k], addr[s][k], s)
EntriesBacked ==
    \A s \in Subs, i \in Nat :
        NewAt(s, i) => Backed(newConnections[s][i].fd, newConnections[s][i].peer, s)

(* Until a descriptor is closed under its holder. *)
Own   == SlotsApart /\ EntriesApart /\ SlotsEntriesApart /\ ErasesApart /\ SlotsBacked /\ EntriesBacked
Owned == ~dangling => Own

(* An open descriptor has its number in a slot or a queue entry, unless    *)
(* connect() failed.                                                       *)
NamesLast == Open \subseteq orphans \cup {h[1] : h \in Named}

(* The slots of a joined sub-reactor hold closed numbers, which nobody     *)
(* opens again.                                                            *)
JoinedInv ==
    \A s \in Subs, k \in Slots : runState[s] = "stopped" => socket_fd[s][k] \notin Open

IInv == /\ TypeOK /\ KernelInv /\ AddressInv /\ RoundInv /\ StopInv
        /\ CountCoversSlots /\ NamesLast /\ NoStaleRoute
        /\ Owned /\ JoinedInv /\ WatchedConnections

-----------------------------------------------------------------------------
(* Numbers *)

(* A set of natural numbers has a least one. *)
LEMMA LeastNumber ==
    ASSUME NEW S \in SUBSET Nat, S # {}
    PROVE  \E m \in S : \A y \in S : m <= y
<1> DEFINE R == {q \in Nat \X Nat : q[1] < q[2]}
<1>1. IsWellFoundedOn(R, Nat)
    <2>1. R = OpToRel(<, Nat)
        BY Zenon DEF OpToRel
    <2> QED BY <2>1, NatLessThanWellFounded, Zenon
<1>2. PICK m \in S : \A y \in S : ~(<<y, m>> \in R)
    <2> HIDE DEF R
    <2> QED BY <1>1, WFMin
<1>3. ASSUME NEW y \in S PROVE m <= y
    <2>1. y \in Nat /\ m \in Nat /\ ~(<<y, m>> \in R)
        BY <1>2
    <2> QED BY <2>1
<1> QED BY <1>3

(* The kernel hands out a descriptor that is not open. *)
LEMMA MinIsMember ==
    ASSUME NEW S \in SUBSET Nat, S # {}
    PROVE  Min(S) \in S
<1>1. \E m \in S : \A y \in S : m <= y
    BY LeastNumber
<1> QED BY <1>1 DEF Min

\* The slots are finitely many numbers.
LEMMA SlotFacts == Slots \subseteq Nat /\ IsFiniteSet(Slots) /\ NoFd \notin Fds /\ NoSlot \notin Slots
                   /\ Fds \subseteq Nat /\ 0 \in Slots /\ 0 \in Subs
<1>1. OpenMaxConnection \in Nat \ {0} /\ SubReactorCount \in Nat \ {0} /\ MaxFd \in Nat
    BY ConnectionsAssumption
<1>2. IsFiniteSet(0 .. OpenMaxConnection - 1)
    BY <1>1, FS_Interval
<1> QED BY <1>1, <1>2 DEF Slots, Fds, Subs, NoFd, NoSlot

(* findConnectionsEmptyPlace and the search for a descriptor find a slot of *)
(* the set they look through.                                               *)
LEMMA FirstFromIsMember ==
    ASSUME NEW s \in Subs, NEW K \in SUBSET Slots, K # {}, lastEmptyPlace[s] \in Slots
    PROVE  FirstFrom(s, K) \in K
<1> DEFINE D(k) == (k - lastEmptyPlace[s] + OpenMaxConnection) % OpenMaxConnection
<1>1. ASSUME NEW k \in K PROVE D(k) \in Nat
    <2>1. OpenMaxConnection \in Nat \ {0} /\ k \in Int /\ lastEmptyPlace[s] \in Int
        BY ConnectionsAssumption DEF Slots
    <2> QED BY <2>1
<1>2. {D(k) : k \in K} \in SUBSET Nat /\ {D(k) : k \in K} # {}
    BY <1>1
<1> HIDE DEF D
<1>3. PICK m \in {D(k) : k \in K} : \A y \in {D(k) : k \in K} : m <= y
    BY <1>2, LeastNumber
<1>4. PICK k \in K : m = D(k)
    BY <1>3
<1>5. \A j \in K : D(k) <= D(j)
    BY <1>3, <1>4
<1>6. FirstFrom(s, K) = CHOOSE i \in K : \A j \in K : D(i) <= D(j)
    BY DEF FirstFrom, D
<1> QED BY <1>5, <1>6

(* The numbering of a set of slots by size reaches each of them once. *)
LEMMA NthFacts ==
    ASSUME NEW K \in SUBSET Slots
    PROVE  /\ Cardinality(K) \in Nat
           /\ \A i \in 1 .. Cardinality(K) : NthOf(K, i) \in K
           /\ \A k \in K : \E i \in 1 .. Cardinality(K) : NthOf(K, i) = k
           /\ \A i, j \in 1 .. Cardinality(K) : NthOf(K, i) = NthOf(K, j) => i = j
<1> DEFINE B(k) == {j \in K : j < k}
           n == Cardinality(K)
<1>1. IsFiniteSet(K) /\ n \in Nat /\ K \subseteq Nat
    BY SlotFacts, FS_Subset, FS_CardinalityType
<1>2. ASSUME NEW k \in K
      PROVE  IsFiniteSet(B(k)) /\ Cardinality(B(k)) \in Nat /\ Cardinality(B(k)) < n
    <2>1. B(k) \in SUBSET K /\ k \notin B(k)
        BY <1>1
    <2>2. IsFiniteSet(B(k)) /\ Cardinality(B(k)) <= n /\ (n = Cardinality(B(k)) => K = B(k))
        BY <1>1, <2>1, FS_Subset
    <2>3. Cardinality(B(k)) \in Nat
        BY <2>2, FS_CardinalityType
    <2> QED BY <1>1, <2>1, <2>2, <2>3
<1>3. ASSUME NEW k \in K, NEW j \in K, Cardinality(B(k)) = Cardinality(B(j)) PROVE k = j
    <2>1. ASSUME NEW a \in K, NEW b \in K, a < b PROVE Cardinality(B(a)) # Cardinality(B(b))
        <3>1. B(a) \in SUBSET B(b) /\ a \in B(b) /\ a \notin B(a)
            <4>1. \A x \in K : x \in Nat
                BY <1>1
            <4>2. ASSUME NEW x \in K, x < a PROVE x < b
                BY <2>1, <4>1, <4>2
            <4> QED BY <2>1, <4>1, <4>2
        <3>2. IsFiniteSet(B(b))
            BY <1>2
        <3> HIDE DEF B
        <3> QED BY <3>1, <3>2, FS_Subset
    <2>2. k \in Nat /\ j \in Nat
        BY <1>1
    <2> HIDE DEF B
    <2> QED BY <1>3, <2>1, <2>2
<1> DEFINE r == [k \in K |-> Cardinality(B(k)) + 1]
<1>4. r \in Injection(K, 1 .. n)
    <2>1. r \in [K -> 1 .. n]
        <3> HIDE DEF B
        <3> QED BY <1>1, <1>2
    <2>2. ASSUME NEW a \in K, NEW b \in K, r[a] = r[b] PROVE a = b
        <3>1. Cardinality(B(a)) + 1 = Cardinality(B(b)) + 1
            BY <2>2
        <3> HIDE DEF B, r
        <3> QED BY <1>2, <1>3, <3>1
    <2> HIDE DEF r
    <2> QED BY <2>1, <2>2 DEF Injection, IsInjective
<1>5. r \in Surjection(K, 1 .. n)
    <2>1. IsFiniteSet(1 .. n) /\ Cardinality(1 .. n) = n
        BY <1>1, FS_Interval
    <2> HIDE DEF r
    <2> QED BY <1>4, <2>1, FS_Injection
<1>6. ASSUME NEW i \in 1 .. n PROVE NthOf(K, i) \in K /\ Cardinality(B(NthOf(K, i))) = i - 1
    <2>1. PICK k \in K : r[k] = i
        <3> HIDE DEF r
        <3> QED BY <1>5 DEF Surjection
    <2>2. Cardinality(B(k)) = i - 1
        <3>1. r[k] = Cardinality(B(k)) + 1
            OBVIOUS
        <3> HIDE DEF r, B
        <3> QED BY <1>1, <1>2, <2>1, <3>1
    <2>3. NthOf(K, i) = CHOOSE x \in K : Cardinality(B(x)) = i - 1
        BY DEF NthOf
    <2> HIDE DEF B
    <2> QED BY <2>2, <2>3
<1>7. ASSUME NEW k \in K PROVE \E i \in 1 .. n : NthOf(K, i) = k
    <2>1. Cardinality(B(k)) + 1 \in 1 .. n
        <3> HIDE DEF B
        <3> QED BY <1>1, <1>2
    <2>2. NthOf(K, Cardinality(B(k)) + 1) \in K
          /\ Cardinality(B(NthOf(K, Cardinality(B(k)) + 1))) = Cardinality(B(k))
        <3> HIDE DEF B, n
        <3> QED BY <1>2, <1>6, <2>1
    <2>3. NthOf(K, Cardinality(B(k)) + 1) = k
        <3> HIDE DEF B
        <3> QED BY <1>3, <2>2
    <2> QED BY <2>1, <2>3
<1>8. ASSUME NEW i \in 1 .. n, NEW j \in 1 .. n, NthOf(K, i) = NthOf(K, j) PROVE i = j
    <2>1. i - 1 = j - 1
        <3> HIDE DEF B, n
        <3> QED BY <1>6, <1>8
    <2> QED BY <1>1, <2>1
<1> QED BY <1>1, <1>6, <1>7, <1>8

-----------------------------------------------------------------------------
(* Steps, by what they touch *)

(* The steps that change a slot. *)
LEMMA SlotFootprint ==
    ASSUME [Next]_vars
    PROVE  \/ UNCHANGED slotVars
           \/ \E s \in Subs, k \in Slots : CheckDeleteSocket(s, k)
           \/ \E s \in Subs, C \in SUBSET Slots : TakeSlot(s, C) \/ AddFails(s, C)
<1>1. CASE \E p \in Peers : ClientSend(p) \/ ForwardKnown(p) \/ AcceptNew(p) \/ NoDescriptor(p) \/ ConnectFails(p)
    BY <1>1 DEF ClientSend, ForwardKnown, Read, EndTurn, AcceptNew, NoDescriptor, ConnectFails, vars, kernel, mainVars, slotVars, loopVars, history
<1>2. CASE (\E f \in Fds : SocketError(f)) \/ RunTask \/ NoDatagram \/ StopMain
    BY <1>2 DEF SocketError, RunTask, NoDatagram, EndTurn, StopMain, vars, kernel, mainVars, slotVars, loopVars, history
<1>3. CASE \E s \in Subs, C \in SUBSET Slots : TakeSlot(s, C) \/ AddFails(s, C)
    BY <1>3
<1>4. CASE \E s \in Subs : Refuse(s) \/ UseSlot(s) \/ ThrowData(s)
    BY <1>4 DEF Refuse, Deal, UseSlot, ThrowData, vars, kernel, mainVars, slotVars, loopVars, history
<1>5. CASE \E s \in Subs : Start(s) \/ EpollWait(s) \/ EndTimers(s) \/ EndNew(s) \/ EndEvents(s)
    BY <1>5 DEF Start, Goto, EpollWait, EndTimers, EndNew, EndEvents, vars, kernel, mainVars, slotVars, loopVars, history
<1>6. CASE \E s \in Subs : EventOut(s) \/ StopWake(s) \/ StopSub(s) \/ JoinSub(s)
    BY <1>6 DEF EventOut, Handle, StopWake, StopSub, JoinSub, vars, kernel, mainVars, slotVars, loopVars, history
<1>7. CASE \E s \in Subs, k \in Slots : CheckDeleteSocket(s, k) \/ EventErr(s, k) \/ EventIn(s, k)
    BY <1>7 DEF EventErr, Handle, EventIn, vars, kernel, mainVars, slotVars, loopVars, history
<1>8. CASE (\E t \in tasks : SendResponse(t)) \/ UNCHANGED vars
    BY <1>8 DEF SendResponse, vars, kernel, mainVars, slotVars, loopVars, history
<1> QED BY <1>1, <1>2, <1>3, <1>4, <1>5, <1>6, <1>7, <1>8 DEF Next

(* The steps that open or close a socket or add it to an epoll. *)
LEMMA SocketFootprint ==
    ASSUME [Next]_vars
    PROVE  \/ UNCHANGED <<socketOf, orphans, epoll>>
           \/ \E p \in Peers : AcceptNew(p) \/ ConnectFails(p)
           \/ \E s \in Subs : Refuse(s) \/ JoinSub(s)
           \/ \E s \in Subs, k \in Slots : CheckDeleteSocket(s, k) \/ EventErr(s, k)
           \/ \E s \in Subs, C \in SUBSET Slots : TakeSlot(s, C) \/ AddFails(s, C)
<1>1. CASE \E p \in Peers : ClientSend(p) \/ ForwardKnown(p) \/ AcceptNew(p) \/ NoDescriptor(p) \/ ConnectFails(p)
    BY <1>1 DEF ClientSend, ForwardKnown, Read, EndTurn, NoDescriptor, vars, kernel, mainVars, slotVars, loopVars, history
<1>2. CASE (\E f \in Fds : SocketError(f)) \/ RunTask \/ NoDatagram \/ StopMain
    BY <1>2 DEF SocketError, RunTask, NoDatagram, EndTurn, StopMain, vars, kernel, mainVars, slotVars, loopVars, history
<1>3. CASE \E s \in Subs, C \in SUBSET Slots : TakeSlot(s, C) \/ AddFails(s, C)
    BY <1>3
<1>4. CASE \E s \in Subs : Refuse(s) \/ UseSlot(s) \/ ThrowData(s)
    BY <1>4 DEF UseSlot, Deal, ThrowData, vars, kernel, mainVars, slotVars, loopVars, history
<1>5. CASE \E s \in Subs : Start(s) \/ EpollWait(s) \/ EndTimers(s) \/ EndNew(s) \/ EndEvents(s)
    BY <1>5 DEF Start, Goto, EpollWait, EndTimers, EndNew, EndEvents, vars, kernel, mainVars, slotVars, loopVars, history
<1>6. CASE \E s \in Subs : EventOut(s) \/ StopWake(s) \/ StopSub(s) \/ JoinSub(s)
    BY <1>6 DEF EventOut, Handle, StopWake, StopSub, vars, kernel, mainVars, slotVars, loopVars, history
<1>7. CASE \E s \in Subs, k \in Slots : CheckDeleteSocket(s, k) \/ EventErr(s, k) \/ EventIn(s, k)
    BY <1>7 DEF EventIn, Handle, vars, kernel, mainVars, slotVars, loopVars, history
<1>8. CASE (\E t \in tasks : SendResponse(t)) \/ UNCHANGED vars
    BY <1>8 DEF SendResponse, vars, kernel, mainVars, slotVars, loopVars, history
<1> QED BY <1>1, <1>2, <1>3, <1>4, <1>5, <1>6, <1>7, <1>8 DEF Next

(* The steps that change the queue of a sub-reactor. *)
LEMMA QueueFootprint ==
    ASSUME [Next]_vars
    PROVE  \/ UNCHANGED newConnections
           \/ \E p \in Peers : ForwardKnown(p) \/ AcceptNew(p)
           \/ \E s \in Subs : UseSlot(s)
           \/ \E s \in Subs, C \in SUBSET Slots : TakeSlot(s, C)
<1>1. CASE \E p \in Peers : ClientSend(p) \/ ForwardKnown(p) \/ AcceptNew(p) \/ NoDescriptor(p) \/ ConnectFails(p)
    BY <1>1 DEF ClientSend, NoDescriptor, Read, EndTurn, ConnectFails, vars, kernel, mainVars, slotVars, loopVars, history
<1>2. CASE (\E f \in Fds : SocketError(f)) \/ RunTask \/ NoDatagram \/ StopMain
    BY <1>2 DEF SocketError, RunTask, NoDatagram, EndTurn, StopMain, vars, kernel, mainVars, slotVars, loopVars, history
<1>3. CASE \E s \in Subs, C \in SUBSET Slots : TakeSlot(s, C) \/ AddFails(s, C)
    BY <1>3 DEF AddFails, Deal, Occupy, vars, kernel, mainVars, slotVars, loopVars, history
<1>4. CASE \E s \in Subs : Refuse(s) \/ UseSlot(s) \/ ThrowData(s)
    BY <1>4 DEF Refuse, Deal, ThrowData, vars, kernel, mainVars, slotVars, loopVars, history
<1>5. CASE \E s \in Subs : Start(s) \/ EpollWait(s) \/ EndTimers(s) \/ EndNew(s) \/ EndEvents(s)
    BY <1>5 DEF Start, Goto, EpollWait, EndTimers, EndNew, EndEvents, vars, kernel, mainVars, slotVars, loopVars, history
<1>6. CASE \E s \in Subs : EventOut(s) \/ StopWake(s) \/ StopSub(s) \/ JoinSub(s)
    BY <1>6 DEF EventOut, Handle, StopWake, StopSub, JoinSub, vars, kernel, mainVars, slotVars, loopVars, history
<1>7. CASE \E s \in Subs, k \in Slots : CheckDeleteSocket(s, k) \/ EventErr(s, k) \/ EventIn(s, k)
    BY <1>7 DEF CheckDeleteSocket, EventErr, Handle, EventIn, vars, kernel, mainVars, slotVars, loopVars, history
<1>8. CASE (\E t \in tasks : SendResponse(t)) \/ UNCHANGED vars
    BY <1>8 DEF SendResponse, vars, kernel, mainVars, slotVars, loopVars, history
<1> QED BY <1>1, <1>2, <1>3, <1>4, <1>5, <1>6, <1>7, <1>8 DEF Next

(* The steps that change the main reactor's table and its timers. *)
LEMMA RouteFootprint ==
    ASSUME [Next]_vars
    PROVE  \/ UNCHANGED <<con_queue, erases>>
           \/ \E p \in Peers : AcceptNew(p)
           \/ RunTask
           \/ \E s \in Subs, k \in Slots : CheckDeleteSocket(s, k) \/ EventErr(s, k)
           \/ \E s \in Subs, C \in SUBSET Slots : TakeSlot(s, C) \/ AddFails(s, C)
<1>1. CASE \E p \in Peers : ClientSend(p) \/ ForwardKnown(p) \/ AcceptNew(p) \/ NoDescriptor(p) \/ ConnectFails(p)
    BY <1>1 DEF ClientSend, ForwardKnown, Read, EndTurn, NoDescriptor, ConnectFails, vars, kernel, mainVars, slotVars, loopVars, history
<1>2. CASE (\E f \in Fds : SocketError(f)) \/ RunTask \/ NoDatagram \/ StopMain
    BY <1>2 DEF SocketError, NoDatagram, EndTurn, StopMain, vars, kernel, mainVars, slotVars, loopVars, history
<1>3. CASE \E s \in Subs, C \in SUBSET Slots : TakeSlot(s, C) \/ AddFails(s, C)
    BY <1>3
<1>4. CASE \E s \in Subs : Refuse(s) \/ UseSlot(s) \/ ThrowData(s)
    BY <1>4 DEF Refuse, Deal, UseSlot, ThrowData, vars, kernel, mainVars, slotVars, loopVars, history
<1>5. CASE \E s \in Subs : Start(s) \/ EpollWait(s) \/ EndTimers(s) \/ EndNew(s) \/ EndEvents(s)
    BY <1>5 DEF Start, Goto, EpollWait, EndTimers, EndNew, EndEvents, vars, kernel, mainVars, slotVars, loopVars, history
<1>6. CASE \E s \in Subs : EventOut(s) \/ StopWake(s) \/ StopSub(s) \/ JoinSub(s)
    BY <1>6 DEF EventOut, Handle, StopWake, StopSub, JoinSub, vars, kernel, mainVars, slotVars, loopVars, history
<1>7. CASE \E s \in Subs, k \in Slots : CheckDeleteSocket(s, k) \/ EventErr(s, k) \/ EventIn(s, k)
    BY <1>7 DEF EventIn, Handle, vars, kernel, mainVars, slotVars, loopVars, history
<1>8. CASE (\E t \in tasks : SendResponse(t)) \/ UNCHANGED vars
    BY <1>8 DEF SendResponse, vars, kernel, mainVars, slotVars, loopVars, history
<1> QED BY <1>1, <1>2, <1>3, <1>4, <1>5, <1>6, <1>7, <1>8 DEF Next

(* The steps that start or end a task. *)
LEMMA TaskFootprint ==
    ASSUME [Next]_vars
    PROVE  \/ UNCHANGED tasks
           \/ \E s \in Subs : UseSlot(s)
           \/ \E s \in Subs, k \in Slots : EventIn(s, k)
           \/ \E s \in Subs, C \in SUBSET Slots : TakeSlot(s, C) \/ AddFails(s, C)
           \/ \E t \in tasks : SendResponse(t)
<1>1. CASE \E p \in Peers : ClientSend(p) \/ ForwardKnown(p) \/ AcceptNew(p) \/ NoDescriptor(p) \/ ConnectFails(p)
    BY <1>1 DEF ClientSend, ForwardKnown, Read, EndTurn, AcceptNew, NoDescriptor, ConnectFails, vars, kernel, mainVars, slotVars, loopVars, history
<1>2. CASE (\E f \in Fds : SocketError(f)) \/ RunTask \/ NoDatagram \/ StopMain
    BY <1>2 DEF SocketError, RunTask, NoDatagram, EndTurn, StopMain, vars, kernel, mainVars, slotVars, loopVars, history
<1>3. CASE \E s \in Subs, C \in SUBSET Slots : TakeSlot(s, C) \/ AddFails(s, C)
    BY <1>3
<1>4. CASE \E s \in Subs : Refuse(s) \/ UseSlot(s) \/ ThrowData(s)
    BY <1>4 DEF Refuse, Deal, ThrowData, vars, kernel, mainVars, slotVars, loopVars, history
<1>5. CASE \E s \in Subs : Start(s) \/ EpollWait(s) \/ EndTimers(s) \/ EndNew(s) \/ EndEvents(s)
    BY <1>5 DEF Start, Goto, EpollWait, EndTimers, EndNew, EndEvents, vars, kernel, mainVars, slotVars, loopVars, history
<1>6. CASE \E s \in Subs : EventOut(s) \/ StopWake(s) \/ StopSub(s) \/ JoinSub(s)
    BY <1>6 DEF EventOut, Handle, StopWake, StopSub, JoinSub, vars, kernel, mainVars, slotVars, loopVars, history
<1>7. CASE \E s \in Subs, k \in Slots : CheckDeleteSocket(s, k) \/ EventErr(s, k) \/ EventIn(s, k)
    BY <1>7 DEF CheckDeleteSocket, EventErr, Handle, vars, kernel, mainVars, slotVars, loopVars, history
<1>8. CASE (\E t \in tasks : SendResponse(t)) \/ UNCHANGED vars
    BY <1>8 DEF vars
<1> QED BY <1>1, <1>2, <1>3, <1>4, <1>5, <1>6, <1>7, <1>8 DEF Next

(* The steps that stop or start a reactor. *)
LEMMA StopFootprint ==
    ASSUME [Next]_vars
    PROVE  \/ UNCHANGED <<runState>>
           \/ \E s \in Subs : Start(s) \/ StopWake(s) \/ StopSub(s) \/ JoinSub(s)
<1>1. CASE \E p \in Peers : ClientSend(p) \/ ForwardKnown(p) \/ AcceptNew(p) \/ NoDescriptor(p) \/ ConnectFails(p)
    BY <1>1 DEF ClientSend, ForwardKnown, Read, EndTurn, AcceptNew, NoDescriptor, ConnectFails, vars, kernel, mainVars, slotVars, loopVars, history
<1>2. CASE (\E f \in Fds : SocketError(f)) \/ RunTask \/ NoDatagram \/ StopMain
    BY <1>2 DEF SocketError, RunTask, NoDatagram, EndTurn, StopMain, vars, kernel, mainVars, slotVars, loopVars, history
<1>3. CASE \E s \in Subs, C \in SUBSET Slots : TakeSlot(s, C) \/ AddFails(s, C)
    BY <1>3 DEF TakeSlot, Deal, Occupy, AddFails, vars, kernel, mainVars, slotVars, loopVars, history
<1>4. CASE \E s \in Subs : Refuse(s) \/ UseSlot(s) \/ ThrowData(s)
    BY <1>4 DEF Refuse, Deal, UseSlot, ThrowData, vars, kernel, mainVars, slotVars, loopVars, history
<1>5. CASE \E s \in Subs : Start(s) \/ EpollWait(s) \/ EndTimers(s) \/ EndNew(s) \/ EndEvents(s)
    BY <1>5 DEF EpollWait, Goto, EndTimers, EndNew, EndEvents, vars, kernel, mainVars, slotVars, loopVars, history
<1>6. CASE \E s \in Subs : EventOut(s) \/ StopWake(s) \/ StopSub(s) \/ JoinSub(s)
    BY <1>6 DEF EventOut, Handle, vars, kernel, mainVars, slotVars, loopVars, history
<1>7. CASE \E s \in Subs, k \in Slots : CheckDeleteSocket(s, k) \/ EventErr(s, k) \/ EventIn(s, k)
    BY <1>7 DEF CheckDeleteSocket, EventErr, Handle, EventIn, vars, kernel, mainVars, slotVars, loopVars, history
<1>8. CASE (\E t \in tasks : SendResponse(t)) \/ UNCHANGED vars
    BY <1>8 DEF SendResponse, vars, kernel, mainVars, slotVars, loopVars, history
<1> QED BY <1>1, <1>2, <1>3, <1>4, <1>5, <1>6, <1>7, <1>8 DEF Next


-----------------------------------------------------------------------------
(* The type invariant *)

(* The addresses an erase is posted for are those of the slots. *)
LEMMA ErasesFacts ==
    ASSUME NEW s \in Subs, NEW K \in SUBSET Slots, \A k \in K : addr[s][k] \in Peers
    PROVE  /\ ErasesOf(s, K) \in Seq(Peers)
           /\ Len(ErasesOf(s, K)) = Cardinality(K)
           /\ \A k \in K : \E i \in DOMAIN ErasesOf(s, K) : ErasesOf(s, K)[i] = addr[s][k]
           /\ \A i \in DOMAIN ErasesOf(s, K) : \E k \in K : k = NthOf(K, i) /\ ErasesOf(s, K)[i] = addr[s][k]
<1>1. /\ Cardinality(K) \in Nat
      /\ \A i \in 1 .. Cardinality(K) : NthOf(K, i) \in K
      /\ \A k \in K : \E i \in 1 .. Cardinality(K) : NthOf(K, i) = k
    BY NthFacts
<1>2. ErasesOf(s, K) \in [1 .. Cardinality(K) -> Peers]
    BY <1>1 DEF ErasesOf
<1>3. ErasesOf(s, K) \in Seq(Peers) /\ Len(ErasesOf(s, K)) = Cardinality(K)
    BY <1>1, <1>2
<1> QED BY <1>1, <1>2, <1>3 DEF ErasesOf

\* close() keeps the types of the kernel.
LEMMA CloseType ==
    ASSUME TypeOK, NEW F, Close(F)
    PROVE  /\ inbox' \in [Peers -> Nat]
           /\ socketOf' \in [Fds -> Peers \cup {NoPeer}]
           /\ unread' \in SUBSET Fds /\ failed' \in SUBSET Fds /\ orphans' \in SUBSET Fds
BY DEF TypeOK, KernelType, Close

\* So does dropping descriptors from the epoll sets.
LEMMA EpollType ==
    ASSUME TypeOK, NEW F
    PROVE  EpollWithout(F) \in [Subs -> [Fds -> Slots \cup {NoSlot}]]
BY DEF TypeOK, KernelType, EpollWithout

(* The task a packet starts, for a client with an address. *)
LEMMA TriggerType ==
    ASSUME TypeOK, NEW s \in Subs, NEW k \in Slots, NEW p \in Peers, Trigger(s, k, p)
    PROVE  tasks' \in SUBSET Tasks
<1> DEFINE t == [sub |-> s, slot |-> k, peer |-> p]
<1>1. t \in Tasks
    BY DEF Tasks
<1>2. tasks' = tasks \/ tasks' = tasks \cup {t}
    BY Zenon DEF Trigger
<1>3. tasks \in SUBSET Tasks
    BY DEF TypeOK, SharedType
<1> HIDE DEF t
<1> QED BY <1>1, <1>2, <1>3

(* The queue has an entry as long as the round goes on. *)
LEMMA EntryFacts ==
    ASSUME TypeOK, RoundInv, NEW s \in Subs, Deal(s)
    PROVE  /\ newConnections[s] \in Seq(Entries) /\ newConnections[s] # <<>>
           /\ Len(newConnections[s]) \in Nat /\ Len(newConnections[s]) > 0
           /\ Entry(s) = newConnections[s][1] /\ Entry(s) \in Entries
           /\ Entry(s).fd \in Fds /\ Entry(s).peer \in Peers /\ Entry(s).new \in BOOLEAN
           /\ Tail(newConnections[s]) \in Seq(Entries)
           /\ Len(Tail(newConnections[s])) = Len(newConnections[s]) - 1
           /\ \A i \in 1 .. Len(newConnections[s]) - 1 : Tail(newConnections[s])[i] = newConnections[s][i + 1]
<1>1. newConnections[s] \in Seq(Entries) /\ left[s] \in Nat /\ left[s] > 0 /\ left[s] <= Len(newConnections[s])
    BY DEF TypeOK, SharedType, LoopType, RoundInv, Deal
<1> DEFINE q == newConnections[s]
<1>2. q \in Seq(Entries) /\ Len(q) > 0 /\ Len(q) \in Nat
    BY <1>1
<1>3. Entry(s) = Head(q)
    BY DEF Entry
<1> HIDE DEF q
<1>4. q # <<>> /\ q[1] \in Entries /\ Head(q) = q[1] /\ Tail(q) \in Seq(Entries) /\ Len(Tail(q)) = Len(q) - 1
      /\ \A i \in 1 .. Len(q) - 1 : Tail(q)[i] = q[i + 1]
    BY <1>2
<1>5. q[1].fd \in Fds /\ q[1].peer \in Peers /\ q[1].new \in BOOLEAN
    BY <1>4, Zenon DEF Entries
<1> QED BY <1>2, <1>3, <1>4, <1>5 DEF q

(* The slot a new connection gets, and the clients of those cleared for it. *)
LEMMA ChosenSlot ==
    ASSUME TypeOK, AddressInv, NEW s \in Subs, NEW C \in SUBSET Slots, MayClear(s, C), FreeSlots(s, C) # {}
    PROVE  /\ FirstFrom(s, FreeSlots(s, C)) \in Slots
           /\ FirstFrom(s, FreeSlots(s, C)) \in C \/ socket_fd[s][FirstFrom(s, FreeSlots(s, C))] = NoFd
           /\ \A k \in C : socket_fd[s][k] \in Fds /\ addr[s][k] \in Peers
<1>1. FreeSlots(s, C) \in SUBSET Slots /\ lastEmptyPlace[s] \in Slots
    BY DEF FreeSlots, TypeOK, SlotType
<1>2. FirstFrom(s, FreeSlots(s, C)) \in FreeSlots(s, C)
    BY <1>1, FirstFromIsMember
<1>3. \A k \in C : socket_fd[s][k] # NoFd /\ socket_fd[s][k] \in Fds \cup {NoFd}
    BY DEF MayClear, TypeOK, SlotType
<1> QED BY <1>1, <1>2, <1>3 DEF FreeSlots, AddressInv

\* The number the kernel hands out is a free descriptor.
LEMMA FreeDescriptor ==
    ASSUME TypeOK, Open # Fds
    PROVE  Min(Fds \ Open) \in Fds /\ Min(Fds \ Open) \notin Open
<1>1. Open \subseteq Fds
    BY DEF Open, TypeOK, KernelType
<1>2. Fds \ Open \in SUBSET Nat /\ Fds \ Open # {}
    BY <1>1, SlotFacts
<1> QED BY <1>2, MinIsMember

\* The numbers in slots are descriptors.
LEMMA FdsOfType == \A s, K : FdsOf(s, K) \subseteq Fds
BY DEF FdsOf

(* The timer of a connection finds the slot empty, or closes it. *)
LEMMA CheckDeleteCases ==
    ASSUME NEW s \in Subs, NEW k \in Slots, CheckDeleteSocket(s, k)
    PROVE  /\ UNCHANGED <<addr, activeConnectionsCount, lastEmptyPlace>>
           /\ \/ UNCHANGED <<inbox, socketOf, orphans, unread, failed, epoll, erases, socket_fd>>
              \/ /\ socket_fd[s][k] # NoFd
                 /\ Close(FdsOf(s, {k}))
                 /\ epoll' = EpollWithout(FdsOf(s, {k}))
                 /\ erases' = erases \o ErasesOf(s, {k})
                 /\ socket_fd' = [socket_fd EXCEPT ![s][k] = NoFd]
<1>1. UNCHANGED <<addr, activeConnectionsCount, lastEmptyPlace>>
    BY DEF CheckDeleteSocket
<1>2. CASE socket_fd[s][k] = NoFd
    <2>1. UNCHANGED <<kernel, erases, socket_fd>>
        BY <1>2 DEF CheckDeleteSocket
    <2> QED BY <1>1, <2>1 DEF kernel
<1>3. CASE socket_fd[s][k] # NoFd
    BY <1>1, <1>3, Zenon DEF CheckDeleteSocket
<1> QED BY <1>2, <1>3

\* Reading a datagram leaves a number of them.
LEMMA ReadType ==
    ASSUME TypeOK, NEW p \in Peers, Read(p)
    PROVE  inbox' \in [Peers -> Nat]
<1>1. inbox \in [Peers -> Nat] /\ inbox[p] - 1 \in Nat
    BY DEF TypeOK, KernelType, Read
<1> QED BY <1>1 DEF Read

(* The kernel's sets and epoll entries keep their type. *)
LEMMA KernelTypeStep ==
    ASSUME TypeOK, AddressInv, KernelInv, RoundInv, [Next]_vars
    PROVE  KernelType'
<1> USE SlotFacts, ConnectionsAssumption
<1>1. ASSUME NEW p \in Peers, ClientSend(p) PROVE KernelType'
    <2>1. Open \subseteq Fds
        BY DEF Open, TypeOK, KernelType
    <2>2. inbox' \in [Peers -> Nat]
        <3>1. inbox \in [Peers -> Nat] /\ inbox[p] + 1 \in Nat
            BY DEF TypeOK, KernelType
        <3> QED BY <1>1, <3>1 DEF ClientSend
    <2>3. unread' \in SUBSET Fds /\ UNCHANGED <<socketOf, failed, orphans, epoll>>
        BY <1>1, <2>1 DEF ClientSend, TypeOK, KernelType
    <2> QED BY <2>2, <2>3 DEF TypeOK, KernelType
<1>2. ASSUME NEW p \in Peers, ForwardKnown(p) PROVE KernelType'
    BY <1>2, ReadType DEF ForwardKnown, TypeOK, KernelType
<1>3. ASSUME NEW p \in Peers, AcceptNew(p) PROVE KernelType'
    <2>1. Min(Fds \ Open) \in Fds
        BY <1>3, FreeDescriptor DEF AcceptNew
    <2>2. inbox' \in [Peers -> Nat] /\ UNCHANGED <<unread, failed, orphans, epoll>>
        BY <1>3, ReadType DEF AcceptNew
    <2>3. socketOf' \in [Fds -> Peers \cup {NoPeer}]
        BY <1>3, <2>1 DEF AcceptNew, TypeOK, KernelType
    <2> QED BY <2>2, <2>3 DEF TypeOK, KernelType
<1>4. ASSUME NEW p \in Peers, NoDescriptor(p) PROVE KernelType'
    BY <1>4, ReadType DEF NoDescriptor, TypeOK, KernelType
<1>5. ASSUME NEW p \in Peers, ConnectFails(p) PROVE KernelType'
    <2>1. Min(Fds \ Open) \in Fds
        BY <1>5, FreeDescriptor DEF ConnectFails
    <2> QED BY <1>5, <2>1, ReadType DEF ConnectFails, TypeOK, KernelType
<1>6. CASE (\E f \in Fds : SocketError(f)) \/ RunTask \/ NoDatagram \/ StopMain
    BY <1>6 DEF TypeOK, KernelType, SocketError, RunTask, NoDatagram, EndTurn, StopMain, kernel, mainVars, slotVars, loopVars, history
<1>7. ASSUME NEW s \in Subs, NEW C \in SUBSET Slots, TakeSlot(s, C) PROVE KernelType'
    <2>1. Close(FdsOf(s, C)) /\ FirstFrom(s, FreeSlots(s, C)) \in Slots /\ Entry(s).fd \in Fds
        BY <1>7, ChosenSlot, EntryFacts DEF TakeSlot
    <2>2. epoll' = [EpollWithout(FdsOf(s, C)) EXCEPT ![s][Entry(s).fd] = FirstFrom(s, FreeSlots(s, C))]
        BY <1>7 DEF TakeSlot
    <2>3. epoll' \in [Subs -> [Fds -> Slots \cup {NoSlot}]]
        BY <2>1, <2>2, EpollType
    <2> QED BY <2>1, <2>3, CloseType DEF KernelType
<1>8. ASSUME NEW s \in Subs, NEW C \in SUBSET Slots, AddFails(s, C) PROVE KernelType'
    <2>1. Close(FdsOf(s, C) \cup {Entry(s).fd}) /\ epoll' = EpollWithout(FdsOf(s, C) \cup {Entry(s).fd})
        BY <1>8 DEF AddFails
    <2> QED BY <2>1, CloseType, EpollType DEF KernelType
<1>9. CASE \E s \in Subs : UseSlot(s) \/ ThrowData(s)
    BY <1>9 DEF TypeOK, KernelType, UseSlot, Deal, ThrowData, kernel, mainVars, slotVars, loopVars, history
<1>10. ASSUME NEW s \in Subs, Refuse(s) PROVE KernelType'
    <2>1. Close({Entry(s).fd}) /\ epoll' = EpollWithout({Entry(s).fd})
        BY <1>10 DEF Refuse
    <2> QED BY <2>1, CloseType, EpollType DEF KernelType
<1>11. CASE \E s \in Subs : Start(s) \/ EpollWait(s) \/ EndTimers(s) \/ EndNew(s) \/ EndEvents(s)
    BY <1>11 DEF TypeOK, KernelType, Start, Goto, EpollWait, EndTimers, EndNew, EndEvents, kernel, mainVars, slotVars, loopVars, history
<1>12. CASE \E s \in Subs : EventOut(s) \/ StopWake(s) \/ StopSub(s)
    BY <1>12 DEF TypeOK, KernelType, EventOut, Handle, StopWake, StopSub, kernel, mainVars, slotVars, loopVars, history
<1>13. ASSUME NEW s \in Subs, JoinSub(s) PROVE KernelType'
    <2>1. Close(FdsOf(s, Slots)) /\ epoll' = EpollWithout(FdsOf(s, Slots))
        BY <1>13 DEF JoinSub
    <2> QED BY <2>1, CloseType, EpollType DEF KernelType
<1>14. CASE \E s \in Subs, k \in Slots : EventIn(s, k)
    BY <1>14 DEF TypeOK, KernelType, EventIn, Handle, kernel, mainVars, slotVars, loopVars, history
<1>15. ASSUME NEW s \in Subs, NEW k \in Slots, CheckDeleteSocket(s, k) PROVE KernelType'
    <2>1. CASE UNCHANGED <<inbox, socketOf, orphans, unread, failed, epoll>>
        BY <2>1 DEF TypeOK, KernelType
    <2>2. CASE Close(FdsOf(s, {k})) /\ epoll' = EpollWithout(FdsOf(s, {k}))
        BY <2>2, CloseType, EpollType DEF KernelType
    <2> QED BY <1>15, <2>1, <2>2, CheckDeleteCases
<1>16. ASSUME NEW s \in Subs, NEW k \in Slots, EventErr(s, k) PROVE KernelType'
    <2>1. Close(FdsOf(s, {k})) /\ epoll' = EpollWithout(FdsOf(s, {k}))
        BY <1>16 DEF EventErr
    <2> QED BY <2>1, CloseType, EpollType DEF KernelType
<1>17. CASE (\E t \in tasks : SendResponse(t)) \/ UNCHANGED vars
    BY <1>17 DEF TypeOK, KernelType, SendResponse, vars, kernel, mainVars, slotVars, loopVars, history
<1> QED BY <1>1, <1>2, <1>3, <1>4, <1>5, <1>6, <1>7, <1>8, <1>9, <1>10, <1>11, <1>12, <1>13, <1>14, <1>15, <1>16, <1>17 DEF Next

(* The table and the timers of the main reactor keep their type. *)
LEMMA MainTypeStep ==
    ASSUME TypeOK, AddressInv, KernelInv, RoundInv, [Next]_vars
    PROVE  MainType'
<1> USE SlotFacts, ConnectionsAssumption
<1>1. CASE \E p \in Peers : ClientSend(p) \/ ForwardKnown(p) \/ NoDescriptor(p) \/ ConnectFails(p)
    BY <1>1 DEF TypeOK, MainType, ClientSend, ForwardKnown, Read, EndTurn, NoDescriptor, ConnectFails, kernel, mainVars, slotVars, loopVars, history
<1>2. ASSUME NEW p \in Peers, AcceptNew(p) PROVE MainType'
    <2>1. Min(Fds \ Open) \in Fds /\ counter \in Subs /\ con_queue \in [Peers -> {<<>>} \cup (Fds \X Subs)]
        BY <1>2, FreeDescriptor DEF AcceptNew, TypeOK, MainType
    <2>2. NextSub \in Subs
        BY <2>1 DEF NextSub, Subs
    <2>3. <<Min(Fds \ Open), counter>> \in Fds \X Subs
        BY <2>1
    <2>4. con_queue' \in [Peers -> {<<>>} \cup (Fds \X Subs)]
        <3>1. con_queue' = con_queue \/ con_queue' = [con_queue EXCEPT ![p] = <<Min(Fds \ Open), counter>>]
            BY <1>2 DEF AcceptNew
        <3> QED BY <2>1, <2>3, <3>1
    <2>5. mainPc' = "timer" /\ erases' = erases /\ counter' = NextSub
        BY <1>2 DEF AcceptNew, Read, EndTurn
    <2> QED BY <2>2, <2>4, <2>5 DEF TypeOK, MainType
<1>3. CASE (\E f \in Fds : SocketError(f)) \/ NoDatagram \/ StopMain
    BY <1>3 DEF TypeOK, MainType, SocketError, NoDatagram, EndTurn, StopMain, kernel, mainVars, slotVars, loopVars, history
<1>4. ASSUME RunTask PROVE MainType'
    <2>1. mainPc' \in {"timer", "recv", "stopped"} /\ counter' \in Subs
        BY <1>4 DEF RunTask, TypeOK, MainType
    <2>2. con_queue' \in [Peers -> {<<>>} \cup (Fds \X Subs)] /\ erases' \in Seq(Peers)
        <3>1. CASE erases = <<>>
            BY <1>4, <3>1 DEF RunTask, TypeOK, MainType
        <3>2. CASE erases # <<>>
            <4>1. erases \in Seq(Peers) /\ Head(erases) \in Peers /\ Tail(erases) \in Seq(Peers)
                BY <3>2 DEF TypeOK, MainType
            <4> QED BY <1>4, <3>2, <4>1 DEF RunTask, TypeOK, MainType
        <3> QED BY <3>1, <3>2
    <2> QED BY <2>1, <2>2 DEF MainType
<1>5. ASSUME NEW s \in Subs, NEW C \in SUBSET Slots, TakeSlot(s, C) PROVE MainType'
    <2>1. erases' = erases \o ErasesOf(s, C) /\ UNCHANGED <<mainPc, con_queue, counter>>
        BY <1>5 DEF TakeSlot, Occupy, Deal
    <2>2. ErasesOf(s, C) \in Seq(Peers)
        BY <1>5, ChosenSlot, ErasesFacts DEF TakeSlot
    <2> QED BY <2>1, <2>2 DEF TypeOK, MainType
<1>6. ASSUME NEW s \in Subs, NEW C \in SUBSET Slots, AddFails(s, C) PROVE MainType'
    <2>1. erases' = erases \o ErasesOf(s, C) /\ UNCHANGED <<mainPc, con_queue, counter>>
        BY <1>6 DEF AddFails, Occupy, Deal
    <2>2. ErasesOf(s, C) \in Seq(Peers)
        BY <1>6, ChosenSlot, ErasesFacts DEF AddFails
    <2> QED BY <2>1, <2>2 DEF TypeOK, MainType
<1>7. CASE \E s \in Subs : Refuse(s) \/ UseSlot(s) \/ ThrowData(s)
    BY <1>7 DEF TypeOK, MainType, Refuse, Deal, UseSlot, ThrowData, kernel, mainVars, slotVars, loopVars, history
<1>8. CASE \E s \in Subs : Start(s) \/ EpollWait(s) \/ EndTimers(s) \/ EndNew(s) \/ EndEvents(s)
    BY <1>8 DEF TypeOK, MainType, Start, Goto, EpollWait, EndTimers, EndNew, EndEvents, kernel, mainVars, slotVars, loopVars, history
<1>9. CASE \E s \in Subs : EventOut(s) \/ StopWake(s) \/ StopSub(s) \/ JoinSub(s)
    BY <1>9 DEF TypeOK, MainType, EventOut, Handle, StopWake, StopSub, JoinSub, kernel, mainVars, slotVars, loopVars, history
<1>10. CASE \E s \in Subs, k \in Slots : EventIn(s, k)
    BY <1>10 DEF TypeOK, MainType, EventIn, Handle, kernel, mainVars, slotVars, loopVars, history
<1>11. ASSUME NEW s \in Subs, NEW k \in Slots, CheckDeleteSocket(s, k) PROVE MainType'
    <2>1. UNCHANGED <<mainPc, con_queue, counter>>
        BY <1>11 DEF CheckDeleteSocket
    <2>2. CASE socket_fd[s][k] = NoFd
        BY <1>11, <2>1, <2>2 DEF CheckDeleteSocket, TypeOK, MainType
    <2>3. CASE socket_fd[s][k] # NoFd
        <3>1. ErasesOf(s, {k}) \in Seq(Peers)
            BY <2>3, ErasesFacts DEF AddressInv
        <3>2. erases' = erases \o ErasesOf(s, {k})
            BY <1>11, <2>3 DEF CheckDeleteSocket
        <3>3. erases' \in Seq(Peers)
            BY <3>1, <3>2 DEF TypeOK, MainType
        <3> QED BY <2>1, <3>3 DEF TypeOK, MainType
    <2> QED BY <2>2, <2>3
<1>12. ASSUME NEW s \in Subs, NEW k \in Slots, EventErr(s, k) PROVE MainType'
    <2>1. UNCHANGED <<mainPc, con_queue, counter>> /\ erases' = erases \o ErasesOf(s, {k}) /\ <<"err", k>> \in ready[s]
        BY <1>12 DEF EventErr, Handle
    <2>2. ErasesOf(s, {k}) \in Seq(Peers)
        BY <2>1, ErasesFacts DEF AddressInv
    <2>3. erases' \in Seq(Peers)
        <3>1. erases \in Seq(Peers) /\ erases' = erases \o ErasesOf(s, {k})
            BY <2>1 DEF TypeOK, MainType
        <3> QED BY <2>2, <3>1
    <2> QED BY <2>1, <2>3 DEF TypeOK, MainType
<1>13. CASE (\E t \in tasks : SendResponse(t)) \/ UNCHANGED vars
    BY <1>13 DEF TypeOK, MainType, SendResponse, vars, kernel, mainVars, slotVars, loopVars, history
<1> QED BY <1>1, <1>2, <1>3, <1>4, <1>5, <1>6, <1>7, <1>8, <1>9, <1>10, <1>11, <1>12, <1>13 DEF Next

(* The loops of the sub-reactors keep their type. *)
LEMMA LoopTypeStep ==
    ASSUME TypeOK, AddressInv, KernelInv, RoundInv, [Next]_vars
    PROVE  LoopType'
<1> USE SlotFacts, ConnectionsAssumption
<1>1. CASE \E p \in Peers : ClientSend(p) \/ ForwardKnown(p) \/ AcceptNew(p) \/ NoDescriptor(p) \/ ConnectFails(p)
    BY <1>1 DEF TypeOK, LoopType, Stages, ClientSend, ForwardKnown, Read, EndTurn, AcceptNew, NoDescriptor, ConnectFails, kernel, mainVars, slotVars, loopVars, history
<1>2. CASE (\E f \in Fds : SocketError(f)) \/ RunTask \/ NoDatagram \/ StopMain
    BY <1>2 DEF TypeOK, LoopType, Stages, SocketError, RunTask, NoDatagram, EndTurn, StopMain, kernel, mainVars, slotVars, loopVars, history
<1>3. CASE \E s \in Subs, C \in SUBSET Slots : TakeSlot(s, C) \/ AddFails(s, C)
    BY <1>3 DEF TypeOK, LoopType, Stages, TakeSlot, Deal, Occupy, AddFails, kernel, mainVars, slotVars, loopVars, history
<1>4. CASE \E s \in Subs : Refuse(s) \/ UseSlot(s) \/ ThrowData(s)
    BY <1>4 DEF TypeOK, LoopType, Stages, Refuse, Deal, UseSlot, ThrowData, kernel, mainVars, slotVars, loopVars, history
<1>5. CASE \E s \in Subs : Start(s) \/ EndNew(s) \/ EndEvents(s)
    BY <1>5 DEF TypeOK, LoopType, Stages, Start, Goto, EndNew, EndEvents, kernel, mainVars, slotVars, loopVars, history
<1>6. ASSUME NEW s \in Subs, EpollWait(s) PROVE LoopType'
    <2>1. epoll \in [Subs -> [Fds -> Slots \cup {NoSlot}]] /\ unread \subseteq Fds /\ failed \subseteq Fds
        BY DEF TypeOK, KernelType
    <2>2. Reported(s) \subseteq {"in", "err", "out"} \X (Slots \cup {NoSlot})
        BY <2>1 DEF Reported
        <2> QED BY <1>6, <2>2 DEF EpollWait, Goto, TypeOK, LoopType, Stages
<1>7. ASSUME NEW s \in Subs, EndTimers(s) PROVE LoopType'
    <2>1. Len(newConnections[s]) \in Nat
        BY DEF TypeOK, SharedType
    <2> QED BY <1>7, <2>1 DEF EndTimers, Goto, TypeOK, LoopType, Stages
<1>8. CASE \E s \in Subs : EventOut(s) \/ StopWake(s) \/ StopSub(s) \/ JoinSub(s)
    BY <1>8 DEF TypeOK, LoopType, Stages, EventOut, Handle, StopWake, StopSub, JoinSub, kernel, mainVars, slotVars, loopVars, history
<1>9. CASE \E s \in Subs, k \in Slots : CheckDeleteSocket(s, k) \/ EventErr(s, k) \/ EventIn(s, k)
    <2>1. ASSUME NEW s \in Subs, NEW k \in Slots, CheckDeleteSocket(s, k) PROVE LoopType'
        BY <2>1 DEF TypeOK, LoopType, CheckDeleteSocket, loopVars
    <2>2. ASSUME NEW s \in Subs, NEW e, Handle(s, e) PROVE LoopType'
        BY <2>2 DEF TypeOK, LoopType, Handle
    <2> QED BY <1>9, <2>1, <2>2, Zenon DEF EventErr, EventIn
<1>10. CASE (\E t \in tasks : SendResponse(t)) \/ UNCHANGED vars
    BY <1>10 DEF TypeOK, LoopType, Stages, SendResponse, vars, kernel, mainVars, slotVars, loopVars, history
<1> QED BY <1>1, <1>2, <1>3, <1>4, <1>5, <1>6, <1>7, <1>8, <1>9, <1>10 DEF Next

(* The slots keep their type. *)
LEMMA SlotTypeStep ==
    ASSUME TypeOK, AddressInv, KernelInv, RoundInv, [Next]_vars
    PROVE  SlotType'
<1> USE SlotFacts, ConnectionsAssumption
<1>1. CASE UNCHANGED slotVars
    BY <1>1 DEF TypeOK, SlotType, slotVars
<1>2. ASSUME NEW s \in Subs, NEW k \in Slots, CheckDeleteSocket(s, k) PROVE SlotType'
    <2>1. checks \in [Subs -> [Slots -> Nat]] /\ checks[s][k] \in Nat /\ checks[s][k] > 0
          /\ checks' = [checks EXCEPT ![s][k] = @ - 1]
        BY <1>2 DEF TypeOK, SlotType, CheckDeleteSocket
    <2>2. checks' \in [Subs -> [Slots -> Nat]]
        <3>1. checks[s][k] - 1 \in Nat
            BY <2>1
        <3> QED BY <2>1, <3>1
    <2>3. UNCHANGED <<addr, activeConnectionsCount, lastEmptyPlace>>
          /\ (socket_fd' = socket_fd \/ socket_fd' = [socket_fd EXCEPT ![s][k] = NoFd])
        BY <1>2, CheckDeleteCases
    <2>4. socket_fd' \in [Subs -> [Slots -> Fds \cup {NoFd}]]
        <3>1. socket_fd \in [Subs -> [Slots -> Fds \cup {NoFd}]] /\ NoFd \in Fds \cup {NoFd}
            BY DEF TypeOK, SlotType
        <3> QED BY <2>3, <3>1
    <2> QED BY <2>2, <2>3, <2>4 DEF TypeOK, SlotType
<1>3. ASSUME NEW s \in Subs, NEW C \in SUBSET Slots, TakeSlot(s, C) \/ AddFails(s, C) PROVE SlotType'
    <2> DEFINE k == FirstFrom(s, FreeSlots(s, C))
    <2>1. Deal(s) /\ MayClear(s, C) /\ FreeSlots(s, C) # {} /\ Occupy(s, C, k, Entry(s).fd, Entry(s).peer)
          /\ (checks' = checks \/ checks' = [checks EXCEPT ![s][k] = @ + 1])
        BY <1>3 DEF TakeSlot, AddFails
    <2>2. k \in Slots /\ Entry(s).fd \in Fds /\ Entry(s).peer \in Peers /\ Cardinality(C) \in Nat
        BY <2>1, ChosenSlot, EntryFacts, NthFacts
    <2> HIDE DEF k
    <2>3. CountAfter(s, C) \in Int
        BY <2>2 DEF CountAfter, TypeOK, SlotType
    <2>4. socket_fd' \in [Subs -> [Slots -> Fds \cup {NoFd}]]
        BY <2>1, <2>2 DEF Occupy, TypeOK, SlotType
    <2>5. addr' \in [Subs -> [Slots -> Peers \cup {NoPeer}]]
        BY <2>1, <2>2 DEF Occupy, TypeOK, SlotType
    <2>6. activeConnectionsCount' \in [Subs -> Int] /\ lastEmptyPlace' \in [Subs -> Slots]
        BY <2>1, <2>2, <2>3 DEF Occupy, TypeOK, SlotType
    <2>7. checks' \in [Subs -> [Slots -> Nat]]
        <3>1. checks \in [Subs -> [Slots -> Nat]]
            BY DEF TypeOK, SlotType
        <3>2. checks[s][k] \in Nat
            BY ONLY <2>2, <3>1, s \in Subs
        <3>3. checks[s][k] + 1 \in Nat
            BY ONLY <3>2
        <3> QED BY <2>1, <2>2, <3>1, <3>3
    <2> QED BY <2>4, <2>5, <2>6, <2>7 DEF SlotType
<1> QED BY <1>1, <1>2, <1>3, SlotFootprint

(* The queues and the tasks keep their type. *)
LEMMA QueueTypeStep ==
    ASSUME TypeOK, AddressInv, KernelInv, RoundInv, [Next]_vars
    PROVE  newConnections' \in [Subs -> Seq(Entries)]
<1> USE SlotFacts, ConnectionsAssumption
<1>1. CASE UNCHANGED newConnections
    BY <1>1 DEF TypeOK, SharedType
<1>2. ASSUME NEW p \in Peers, ForwardKnown(p) \/ AcceptNew(p) PROVE newConnections' \in [Subs -> Seq(Entries)]
    <2>1. PICK s \in Subs, f \in Fds, n \in BOOLEAN : AcceptConnection(s, [fd |-> f, peer |-> p, new |-> n])
        <3>1. CASE ForwardKnown(p)
            <4>1. con_queue[p] \in Fds \X Subs
                BY <1>2, <3>1 DEF ForwardKnown, TypeOK, MainType
            <4>2. con_queue[p][1] \in Fds /\ con_queue[p][2] \in Subs
                BY <4>1
            <4>3. AcceptConnection(con_queue[p][2], [fd |-> con_queue[p][1], peer |-> p, new |-> FALSE])
                BY <3>1 DEF ForwardKnown
            <4> QED BY <4>2, <4>3, Zenon
        <3>2. CASE AcceptNew(p)
            <4>1. Min(Fds \ Open) \in Fds /\ counter \in Subs
                BY <3>2, FreeDescriptor DEF AcceptNew, TypeOK, MainType
            <4>2. AcceptConnection(counter, [fd |-> Min(Fds \ Open), peer |-> p, new |-> TRUE])
                BY <3>2 DEF AcceptNew
            <4> QED BY <4>1, <4>2, Zenon
        <3> QED BY <1>2, <3>1, <3>2
    <2> DEFINE e == [fd |-> f, peer |-> p, new |-> n]
    <2>2. e \in Entries
        BY Zenon DEF Entries
    <2>3. newConnections' = newConnections \/ newConnections' = [newConnections EXCEPT ![s] = Append(@, e)]
        BY <2>1 DEF AcceptConnection
    <2> HIDE DEF e
    <2>4. newConnections \in [Subs -> Seq(Entries)] /\ Append(newConnections[s], e) \in Seq(Entries)
        BY <2>2 DEF TypeOK, SharedType
    <2> QED BY <2>3, <2>4
<1>3. ASSUME NEW s \in Subs, UseSlot(s) \/ \E C \in SUBSET Slots : TakeSlot(s, C)
      PROVE  newConnections' \in [Subs -> Seq(Entries)]
    <2>1. Deal(s) /\ Pop(s)
        BY <1>3 DEF UseSlot, TakeSlot
    <2>2. Tail(newConnections[s]) \in Seq(Entries)
        BY <2>1, EntryFacts
    <2> QED BY <2>1, <2>2 DEF Pop, TypeOK, SharedType
<1> QED BY <1>1, <1>2, <1>3, QueueFootprint

\* Every step keeps the type of the tasks.
LEMMA TasksTypeStep ==
    ASSUME TypeOK, AddressInv, KernelInv, RoundInv, [Next]_vars
    PROVE  tasks' \in SUBSET Tasks
<1> USE SlotFacts, ConnectionsAssumption
<1>0. tasks \in SUBSET Tasks
    BY DEF TypeOK, SharedType
<1>1. CASE UNCHANGED tasks
    BY <1>0, <1>1
<1>2. ASSUME NEW s \in Subs, UseSlot(s) PROVE tasks' \in SUBSET Tasks
    <2> DEFINE k == FirstFrom(s, Holders(s, Entry(s).fd))
    <2>1. Deal(s) /\ Holders(s, Entry(s).fd) # {} /\ Trigger(s, k, Entry(s).peer)
        BY <1>2 DEF UseSlot
    <2>2. Holders(s, Entry(s).fd) \in SUBSET Slots /\ lastEmptyPlace[s] \in Slots
        BY DEF Holders, TypeOK, SlotType
    <2>3. k \in Slots /\ Entry(s).peer \in Peers
        BY <2>1, <2>2, FirstFromIsMember, EntryFacts
    <2> HIDE DEF k
    <2> QED BY <2>1, <2>3, TriggerType
<1>3. ASSUME NEW s \in Subs, NEW k \in Slots, EventIn(s, k) PROVE tasks' \in SUBSET Tasks
    <2>1. CASE UNCHANGED tasks
        BY <1>0, <2>1
    <2>2. CASE /\ socket_fd[s][k] \in unread
               /\ Trigger(s, k, socketOf[socket_fd[s][k]])
        <3>1. socketOf[socket_fd[s][k]] \in Peers
            BY <2>2 DEF KernelInv, TypeOK, KernelType
        <3> QED BY <2>2, <3>1, TriggerType
    <2> QED BY <1>3, <2>1, <2>2 DEF EventIn
<1>4. ASSUME NEW s \in Subs, NEW C \in SUBSET Slots, TakeSlot(s, C) \/ AddFails(s, C) PROVE tasks' \in SUBSET Tasks
    <2> DEFINE k == FirstFrom(s, FreeSlots(s, C))
    <2>1. Deal(s) /\ MayClear(s, C) /\ FreeSlots(s, C) # {} /\ Occupy(s, C, k, Entry(s).fd, Entry(s).peer)
        BY <1>4 DEF TakeSlot, AddFails
    <2>2. k \in Slots /\ Entry(s).peer \in Peers
        BY <2>1, ChosenSlot, EntryFacts
    <2> HIDE DEF k
    <2>3. Trigger(s, k, Entry(s).peer)
        BY <2>1 DEF Occupy
    <2> QED BY <2>2, <2>3, TriggerType
<1>5. ASSUME NEW t \in tasks, SendResponse(t) PROVE tasks' \in SUBSET Tasks
    BY <1>0, <1>5 DEF SendResponse
<1> QED BY <1>1, <1>2, <1>3, <1>4, <1>5, TaskFootprint

(* The switches and the states of the sub-reactors, and the counters, keep their type. *)
LEMMA SwitchTypeStep ==
    ASSUME TypeOK, AddressInv, KernelInv, RoundInv, [Next]_vars
    PROVE  /\ switch' \in SUBSET Subs
           /\ runState' \in [Subs -> {"starting", "running", "waking", "stopping", "stopped"}]
           /\ HistoryType'
<1> USE SlotFacts, ConnectionsAssumption
<1>1. CASE \E p \in Peers : ClientSend(p) \/ NoDescriptor(p) \/ ConnectFails(p)
    BY <1>1 DEF TypeOK, SharedType, HistoryType, ClientSend, NoDescriptor, Read, EndTurn, ConnectFails, kernel, mainVars, slotVars, loopVars, history
<1>2. ASSUME NEW p \in Peers, ForwardKnown(p) PROVE /\ switch' \in SUBSET Subs
                 /\ runState' \in [Subs -> {"starting", "running", "waking", "stopping", "stopped"}]
                 /\ HistoryType'
    <2>1. con_queue[p] \in Fds \X Subs
        BY <1>2 DEF ForwardKnown, TypeOK, MainType
    <2>2. con_queue[p][2] \in Subs
        BY <2>1
    <2> QED BY <1>2, <2>2 DEF ForwardKnown, AcceptConnection, TypeOK, SharedType, HistoryType, history
<1>3. ASSUME NEW p \in Peers, AcceptNew(p) PROVE /\ switch' \in SUBSET Subs
                 /\ runState' \in [Subs -> {"starting", "running", "waking", "stopping", "stopped"}]
                 /\ HistoryType'
    BY <1>3 DEF AcceptNew, AcceptConnection, TypeOK, MainType, SharedType, HistoryType, history
<1>4. CASE (\E f \in Fds : SocketError(f)) \/ RunTask \/ NoDatagram \/ StopMain
    BY <1>4 DEF TypeOK, SharedType, HistoryType, SocketError, RunTask, NoDatagram, EndTurn, StopMain, kernel, mainVars, slotVars, loopVars, history
<1>5. ASSUME NEW s \in Subs, NEW C \in SUBSET Slots, TakeSlot(s, C) PROVE /\ switch' \in SUBSET Subs
                 /\ runState' \in [Subs -> {"starting", "running", "waking", "stopping", "stopped"}]
                 /\ HistoryType'
    BY <1>5 DEF TakeSlot, Deal, TypeOK, SharedType, HistoryType
<1>6. ASSUME NEW s \in Subs, NEW C \in SUBSET Slots, AddFails(s, C) PROVE /\ switch' \in SUBSET Subs
                 /\ runState' \in [Subs -> {"starting", "running", "waking", "stopping", "stopped"}]
                 /\ HistoryType'
    <2>1. UNCHANGED <<switch, runState, sends, errors>> /\ failures' \in Nat
        BY <1>6 DEF AddFails, Deal, TypeOK, HistoryType
    <2>2. dangling' \in BOOLEAN
        BY <1>6 DEF AddFails
    <2> QED BY <2>1, <2>2 DEF TypeOK, SharedType, HistoryType
<1>7. CASE \E s \in Subs : Refuse(s) \/ UseSlot(s) \/ ThrowData(s)
    BY <1>7 DEF TypeOK, SharedType, HistoryType, Refuse, Deal, UseSlot, ThrowData, kernel, mainVars, slotVars, loopVars, history
<1>8. CASE \E s \in Subs : Start(s) \/ EpollWait(s) \/ EndTimers(s) \/ EndNew(s) \/ EndEvents(s)
    BY <1>8 DEF TypeOK, SharedType, HistoryType, Start, Goto, EpollWait, EndTimers, EndNew, EndEvents, kernel, mainVars, slotVars, loopVars, history
<1>9. CASE \E s \in Subs : EventOut(s) \/ StopWake(s) \/ StopSub(s) \/ JoinSub(s)
    BY <1>9 DEF TypeOK, SharedType, HistoryType, EventOut, Handle, StopWake, StopSub, JoinSub, kernel, mainVars, slotVars, loopVars, history
<1>10. CASE \E s \in Subs, k \in Slots : CheckDeleteSocket(s, k) \/ EventErr(s, k) \/ EventIn(s, k)
    <2> SUFFICES ASSUME NEW s \in Subs, NEW k \in Slots,
                        CheckDeleteSocket(s, k) \/ EventErr(s, k) \/ EventIn(s, k)
                 PROVE  /\ switch' \in SUBSET Subs
                        /\ runState' \in [Subs -> {"starting", "running", "waking", "stopping", "stopped"}]
                        /\ HistoryType'
        BY <1>10
    <2>1. CASE CheckDeleteSocket(s, k)
        BY <2>1 DEF TypeOK, SharedType, HistoryType, CheckDeleteSocket, history
    <2>2. CASE EventErr(s, k)
        BY <2>2 DEF TypeOK, SharedType, HistoryType, EventErr, Handle
    <2>3. CASE EventIn(s, k)
        BY <2>3 DEF TypeOK, SharedType, HistoryType, EventIn, Handle
    <2> QED BY <2>1, <2>2, <2>3
<1>11. CASE (\E t \in tasks : SendResponse(t)) \/ UNCHANGED vars
    BY <1>11 DEF TypeOK, SharedType, HistoryType, SendResponse, vars, kernel, mainVars, slotVars, loopVars, history
<1> QED BY <1>1, <1>2, <1>3, <1>4, <1>5, <1>6, <1>7, <1>8, <1>9, <1>10, <1>11 DEF Next

\* Every step keeps the type of the state.
LEMMA TypeStep ==
    ASSUME TypeOK, AddressInv, KernelInv, RoundInv, [Next]_vars
    PROVE  TypeOK'
BY KernelTypeStep, MainTypeStep, LoopTypeStep, SlotTypeStep, QueueTypeStep, TasksTypeStep, SwitchTypeStep
   DEF TypeOK, SharedType

-----------------------------------------------------------------------------
(* The kernel, the loops and the end of the reactors *)

\* A closed socket has nothing to report.
LEMMA CloseKernel ==
    ASSUME TypeOK, KernelInv, NEW F, Close(F)
    PROVE  KernelInv'
BY DEF TypeOK, KernelType, KernelInv, Close

(* The kernel keeps its promises. *)
LEMMA KernelStep ==
    ASSUME TypeOK, KernelInv, [Next]_vars
    PROVE  KernelInv'
<1>1. CASE \E p \in Peers : ForwardKnown(p) \/ NoDescriptor(p)
    BY <1>1 DEF KernelInv, ForwardKnown, Read, EndTurn, NoDescriptor, kernel, mainVars, slotVars, loopVars, history
<1>2. ASSUME NEW p \in Peers, ClientSend(p) PROVE KernelInv'
    BY <1>2, ConnectionsAssumption DEF KernelInv, ClientSend, Open
<1>3. ASSUME NEW p \in Peers, AcceptNew(p) PROVE KernelInv'
    <2> DEFINE g == Min(Fds \ Open)
    <2>1. g \in Fds /\ g \notin Open /\ UNCHANGED <<unread, failed, orphans>> /\ p # NoPeer
          /\ (socketOf' = socketOf \/ socketOf' = [socketOf EXCEPT ![g] = p])
        BY <1>3, FreeDescriptor, ConnectionsAssumption DEF AcceptNew
    <2> HIDE DEF g
    <2> QED BY <2>1 DEF KernelInv, Open, TypeOK, KernelType
<1>4. ASSUME NEW p \in Peers, ConnectFails(p) PROVE KernelInv'
    <2> DEFINE g == Min(Fds \ Open)
    <2>1. g \in Fds /\ g \notin Open /\ UNCHANGED <<unread, failed, socketOf>> /\ orphans' = orphans \cup {g}
        BY <1>4, FreeDescriptor DEF ConnectFails
    <2> HIDE DEF g
    <2> QED BY <2>1 DEF KernelInv, Open
<1>5. CASE RunTask \/ NoDatagram \/ StopMain
    BY <1>5 DEF KernelInv, RunTask, NoDatagram, EndTurn, StopMain, kernel, mainVars, slotVars, loopVars, history
<1>6. ASSUME NEW f \in Fds, SocketError(f) PROVE KernelInv'
    BY <1>6 DEF KernelInv, SocketError, Open
<1>7. ASSUME NEW s \in Subs, NEW C \in SUBSET Slots, TakeSlot(s, C) PROVE KernelInv'
    <2>1. Close(FdsOf(s, C))
        BY <1>7 DEF TakeSlot
    <2> QED BY <2>1, CloseKernel
<1>8. ASSUME NEW s \in Subs, NEW C \in SUBSET Slots, AddFails(s, C) PROVE KernelInv'
    <2>1. Close(FdsOf(s, C) \cup {Entry(s).fd})
        BY <1>8 DEF AddFails
    <2> QED BY <2>1, CloseKernel
<1>9. CASE \E s \in Subs : UseSlot(s) \/ ThrowData(s)
    BY <1>9 DEF KernelInv, UseSlot, Deal, ThrowData, kernel, mainVars, slotVars, loopVars, history
<1>10. ASSUME NEW s \in Subs, Refuse(s) PROVE KernelInv'
    <2>1. Close({Entry(s).fd})
        BY <1>10 DEF Refuse
    <2> QED BY <2>1, CloseKernel
<1>11. CASE \E s \in Subs : Start(s) \/ EpollWait(s) \/ EndTimers(s) \/ EndNew(s) \/ EndEvents(s)
    BY <1>11 DEF KernelInv, Start, Goto, EpollWait, EndTimers, EndNew, EndEvents, kernel, mainVars, slotVars, loopVars, history
<1>12. CASE \E s \in Subs : EventOut(s) \/ StopWake(s) \/ StopSub(s)
    BY <1>12 DEF KernelInv, EventOut, Handle, StopWake, StopSub, kernel, mainVars, slotVars, loopVars, history
<1>13. ASSUME NEW s \in Subs, JoinSub(s) PROVE KernelInv'
    <2>1. Close(FdsOf(s, Slots))
        BY <1>13 DEF JoinSub
    <2> QED BY <2>1, CloseKernel
<1>14. CASE \E s \in Subs, k \in Slots : EventIn(s, k)
    BY <1>14 DEF KernelInv, EventIn, Handle, kernel, mainVars, slotVars, loopVars, history
<1>15. ASSUME NEW s \in Subs, NEW k \in Slots, CheckDeleteSocket(s, k) PROVE KernelInv'
    <2>1. CASE UNCHANGED <<socketOf, orphans, unread, failed>>
        BY <2>1 DEF KernelInv
    <2>2. CASE Close(FdsOf(s, {k}))
        BY <2>2, CloseKernel
    <2> QED BY <1>15, <2>1, <2>2, CheckDeleteCases
<1>16. ASSUME NEW s \in Subs, NEW k \in Slots, EventErr(s, k) PROVE KernelInv'
    <2>1. Close(FdsOf(s, {k}))
        BY <1>16 DEF EventErr
    <2> QED BY <2>1, CloseKernel
<1>17. CASE (\E t \in tasks : SendResponse(t)) \/ UNCHANGED vars
    BY <1>17 DEF KernelInv, SendResponse, vars, kernel, mainVars, slotVars, loopVars, history
<1> QED BY <1>1, <1>2, <1>3, <1>4, <1>5, <1>6, <1>7, <1>8, <1>9, <1>10, <1>11, <1>12, <1>13, <1>14, <1>15, <1>16, <1>17 DEF Next

(* The sub-reactors stop after the main reactor, and are joined after their loops. *)
LEMMA StopStep ==
    ASSUME TypeOK, StopInv, [Next]_vars
    PROVE  StopInv'
<1>1. CASE \E p \in Peers : ClientSend(p) \/ NoDescriptor(p) \/ ConnectFails(p)
    BY <1>1 DEF StopInv, TypeOK, SharedType, LoopType, ClientSend, NoDescriptor, Read, EndTurn, ConnectFails, kernel, mainVars, slotVars, loopVars, history
<1>2. ASSUME NEW p \in Peers, ForwardKnown(p) PROVE StopInv'
    BY <1>2 DEF StopInv, ForwardKnown, Read, EndTurn, loopVars
<1>3. ASSUME NEW p \in Peers, AcceptNew(p) PROVE StopInv'
    BY <1>3 DEF StopInv, AcceptNew, Read, EndTurn, loopVars
<1>4. CASE (\E f \in Fds : SocketError(f)) \/ RunTask \/ NoDatagram \/ StopMain
    BY <1>4 DEF StopInv, TypeOK, SharedType, LoopType, SocketError, RunTask, NoDatagram, EndTurn, StopMain, kernel, mainVars, slotVars, loopVars, history
<1>5. ASSUME NEW s \in Subs, NEW C \in SUBSET Slots, TakeSlot(s, C) PROVE StopInv'
    BY <1>5 DEF StopInv, TakeSlot, Deal
<1>6. ASSUME NEW s \in Subs, NEW C \in SUBSET Slots, AddFails(s, C) PROVE StopInv'
    BY <1>6 DEF StopInv, AddFails, Deal
<1>7. CASE \E s \in Subs : Refuse(s) \/ UseSlot(s) \/ ThrowData(s)
    BY <1>7 DEF StopInv, TypeOK, SharedType, LoopType, Refuse, Deal, UseSlot, ThrowData, kernel, mainVars, slotVars, loopVars, history
<1>8. CASE \E s \in Subs : Start(s) \/ EpollWait(s) \/ EndTimers(s) \/ EndNew(s) \/ EndEvents(s)
    BY <1>8 DEF StopInv, TypeOK, SharedType, LoopType, Start, Goto, EpollWait, EndTimers, EndNew, EndEvents, kernel, mainVars, slotVars, loopVars, history
<1>9. CASE \E s \in Subs : EventOut(s) \/ StopWake(s) \/ StopSub(s) \/ JoinSub(s)
    BY <1>9 DEF StopInv, TypeOK, SharedType, LoopType, EventOut, Handle, StopWake, StopSub, JoinSub, kernel, mainVars, slotVars, loopVars, history
<1>10. CASE \E s \in Subs, k \in Slots : CheckDeleteSocket(s, k) \/ EventErr(s, k) \/ EventIn(s, k)
    BY <1>10 DEF StopInv, TypeOK, SharedType, LoopType, CheckDeleteSocket, EventErr, Handle, EventIn, kernel, mainVars, slotVars, loopVars, history
<1>11. CASE (\E t \in tasks : SendResponse(t)) \/ UNCHANGED vars
    BY <1>11 DEF StopInv, TypeOK, SharedType, LoopType, SendResponse, vars, kernel, mainVars, slotVars, loopVars, history
<1> QED BY <1>1, <1>2, <1>3, <1>4, <1>5, <1>6, <1>7, <1>8, <1>9, <1>10, <1>11 DEF Next

(* What is left of a round is in the queue. *)
LEMMA RoundStep ==
    ASSUME TypeOK, RoundInv, [Next]_vars
    PROVE  RoundInv'
<1>0. left \in [Subs -> Nat] /\ pc \in [Subs -> Stages] /\ newConnections \in [Subs -> Seq(Entries)]
    BY DEF TypeOK, LoopType, SharedType
<1>pop. ASSUME NEW s \in Subs, Deal(s), Pop(s) \/ UNCHANGED newConnections PROVE RoundInv'
    <2>1. Len(Tail(newConnections[s])) = Len(newConnections[s]) - 1 /\ Len(newConnections[s]) \in Nat
        BY <1>pop, EntryFacts
    <2>2. left[s] \in Nat /\ left[s] <= Len(newConnections[s]) /\ pc' = pc /\ left' = [left EXCEPT ![s] = @ - 1]
        BY <1>0, <1>pop DEF RoundInv, Deal
    <2>3. newConnections' = newConnections \/ newConnections' = [newConnections EXCEPT ![s] = Tail(@)]
        BY <1>pop DEF Pop
    <2>4. ASSUME NEW r \in Subs, pc'[r] = "new" PROVE left'[r] <= Len(newConnections'[r])
        <3>1. CASE r = s
            BY <1>0, <2>1, <2>2, <2>3, <3>1
        <3>2. CASE r # s
            BY <1>0, <2>2, <2>3, <2>4, <3>2 DEF RoundInv
        <3> QED BY <3>1, <3>2
    <2> QED BY <2>4 DEF RoundInv
<1>1. CASE \E p \in Peers : ClientSend(p) \/ NoDescriptor(p) \/ ConnectFails(p)
    BY <1>1, <1>0 DEF RoundInv, ClientSend, NoDescriptor, Read, EndTurn, ConnectFails, kernel, mainVars, slotVars, loopVars, history
<1>2. ASSUME NEW p \in Peers, ForwardKnown(p) PROVE RoundInv'
    <2>1. PICK s, e : CanAccept(s) /\ (newConnections' = newConnections \/ newConnections' = [newConnections EXCEPT ![s] = Append(@, e)])
        BY <1>2 DEF ForwardKnown, AcceptConnection
    <2>2. UNCHANGED <<pc, left>>
        BY <1>2 DEF ForwardKnown, loopVars
    <2> QED BY <1>0, <2>1, <2>2 DEF RoundInv, CanAccept
<1>3. ASSUME NEW p \in Peers, AcceptNew(p) PROVE RoundInv'
    <2>1. PICK s, e : CanAccept(s) /\ (newConnections' = newConnections \/ newConnections' = [newConnections EXCEPT ![s] = Append(@, e)])
        BY <1>3 DEF AcceptNew, AcceptConnection
    <2>2. UNCHANGED <<pc, left>>
        BY <1>3 DEF AcceptNew, loopVars
    <2> QED BY <1>0, <2>1, <2>2 DEF RoundInv, CanAccept
<1>4. CASE (\E f \in Fds : SocketError(f)) \/ RunTask \/ NoDatagram \/ StopMain
    BY <1>4, <1>0 DEF RoundInv, SocketError, RunTask, NoDatagram, EndTurn, StopMain, kernel, mainVars, slotVars, loopVars, history
<1>5. ASSUME NEW s \in Subs, NEW C \in SUBSET Slots, TakeSlot(s, C) PROVE RoundInv'
    <2>1. Deal(s) /\ Pop(s)
        BY <1>5 DEF TakeSlot
    <2> QED BY <1>pop, <2>1
<1>6. ASSUME NEW s \in Subs, NEW C \in SUBSET Slots, AddFails(s, C) PROVE RoundInv'
    <2>1. Deal(s) /\ UNCHANGED newConnections
        BY <1>6 DEF AddFails
    <2> QED BY <1>pop, <2>1
<1>7. ASSUME NEW s \in Subs, Refuse(s) PROVE RoundInv'
    <2>1. Deal(s) /\ UNCHANGED newConnections
        BY <1>7 DEF Refuse
    <2> QED BY <1>pop, <2>1
<1>8. ASSUME NEW s \in Subs, UseSlot(s) PROVE RoundInv'
    <2>1. Deal(s) /\ Pop(s)
        BY <1>8 DEF UseSlot
    <2> QED BY <1>pop, <2>1
<1>9. ASSUME NEW s \in Subs, ThrowData(s) PROVE RoundInv'
    <2>1. Deal(s) /\ UNCHANGED newConnections
        BY <1>9 DEF ThrowData
    <2> QED BY <1>pop, <2>1
<1>10. CASE \E s \in Subs : Start(s) \/ EpollWait(s) \/ EndNew(s) \/ EndEvents(s)
    BY <1>10, <1>0 DEF RoundInv, Start, Goto, EpollWait, EndNew, EndEvents, kernel, mainVars, slotVars, loopVars, history
<1>11. ASSUME NEW s \in Subs, EndTimers(s) PROVE RoundInv'
    <2>1. Len(newConnections[s]) \in Nat /\ UNCHANGED newConnections /\ pc' = [pc EXCEPT ![s] = "new"]
          /\ left' = [left EXCEPT ![s] = Len(newConnections[s])]
        BY <1>11, <1>0 DEF EndTimers, Goto
    <2> QED BY <1>0, <2>1 DEF RoundInv
<1>12. CASE \E s \in Subs : EventOut(s) \/ StopWake(s) \/ StopSub(s) \/ JoinSub(s)
    BY <1>12, <1>0 DEF RoundInv, EventOut, Handle, StopWake, StopSub, JoinSub, kernel, mainVars, slotVars, loopVars, history
<1>13. CASE \E s \in Subs, k \in Slots : CheckDeleteSocket(s, k) \/ EventErr(s, k) \/ EventIn(s, k)
    BY <1>13, <1>0 DEF RoundInv, CheckDeleteSocket, EventErr, Handle, EventIn, kernel, mainVars, slotVars, loopVars, history
<1>14. CASE (\E t \in tasks : SendResponse(t)) \/ UNCHANGED vars
    BY <1>14, <1>0 DEF RoundInv, SendResponse, vars, kernel, mainVars, slotVars, loopVars, history
<1> QED BY <1>1, <1>2, <1>3, <1>4, <1>5, <1>6, <1>7, <1>8, <1>9, <1>10, <1>11, <1>12, <1>13, <1>14 DEF Next

-----------------------------------------------------------------------------
(* The slots *)

(* What a step that gives a slot away does to the slots: those of C are    *)
(* empty, k has the descriptor and the client of the entry.                *)
LEMMA Occupied ==
    ASSUME TypeOK, AddressInv, RoundInv, NEW s \in Subs, NEW C \in SUBSET Slots, TakeSlot(s, C) \/ AddFails(s, C)
    PROVE  \E k \in Slots :
              /\ k \in C \/ socket_fd[s][k] = NoFd
              /\ \A j \in C : socket_fd[s][j] \in Fds /\ addr[s][j] \in Peers
              /\ Entry(s).fd \in Fds /\ Entry(s).peer \in Peers /\ Entry(s).new
              /\ Entry(s) = newConnections[s][1] /\ Len(newConnections[s]) > 0
              /\ socket_fd'[s][k] = Entry(s).fd /\ addr'[s][k] = Entry(s).peer
              /\ \A j \in Slots \ {k} : socket_fd'[s][j] = IF j \in C THEN NoFd ELSE socket_fd[s][j]
              /\ \A j \in Slots \ {k} : addr'[s][j] = addr[s][j]
              /\ \A r \in Subs \ {s} : socket_fd'[r] = socket_fd[r] /\ addr'[r] = addr[r]
              /\ erases' = erases \o ErasesOf(s, C)
              /\ TakeSlot(s, C) => /\ epoll' = [EpollWithout(FdsOf(s, C)) EXCEPT ![s][Entry(s).fd] = k]
                                    /\ checks' = [checks EXCEPT ![s][k] = @ + 1]
<1> DEFINE k == FirstFrom(s, FreeSlots(s, C))
<1>1. Deal(s) /\ Entry(s).new /\ MayClear(s, C) /\ FreeSlots(s, C) # {} /\ Occupy(s, C, k, Entry(s).fd, Entry(s).peer)
      /\ (TakeSlot(s, C) => /\ epoll' = [EpollWithout(FdsOf(s, C)) EXCEPT ![s][Entry(s).fd] = k]
                             /\ checks' = [checks EXCEPT ![s][k] = @ + 1])
    BY DEF TakeSlot, AddFails
<1>2. /\ k \in Slots /\ (k \in C \/ socket_fd[s][k] = NoFd)
      /\ \A j \in C : socket_fd[s][j] \in Fds /\ addr[s][j] \in Peers
      /\ Entry(s).fd \in Fds /\ Entry(s).peer \in Peers
      /\ Entry(s) = newConnections[s][1] /\ Len(newConnections[s]) > 0
    BY <1>1, ChosenSlot, EntryFacts
<1> HIDE DEF k
<1>3. /\ socket_fd'[s][k] = Entry(s).fd
      /\ \A j \in Slots \ {k} : socket_fd'[s][j] = IF j \in C THEN NoFd ELSE socket_fd[s][j]
      /\ \A r \in Subs \ {s} : socket_fd'[r] = socket_fd[r]
    BY <1>1, <1>2 DEF Occupy, TypeOK, SlotType
<1>4. /\ addr'[s][k] = Entry(s).peer
      /\ \A j \in Slots \ {k} : addr'[s][j] = addr[s][j]
      /\ \A r \in Subs \ {s} : addr'[r] = addr[r]
    BY <1>1, <1>2 DEF Occupy, TypeOK, SlotType
<1>5. erases' = erases \o ErasesOf(s, C)
    BY <1>1 DEF Occupy
<1> k \in Slots
    BY <1>2
<1> WITNESS k \in Slots
<1> QED BY <1>1, <1>2, <1>3, <1>4, <1>5

(* And one that closes a slot. *)
LEMMA Emptied ==
    ASSUME TypeOK, AddressInv, NEW s \in Subs, NEW k \in Slots, CheckDeleteSocket(s, k)
    PROVE  /\ addr' = addr
           /\ \/ UNCHANGED <<socketOf, orphans, erases, socket_fd, epoll>>
              \/ /\ socket_fd[s][k] \in Fds /\ addr[s][k] \in Peers
                 /\ Close({socket_fd[s][k]})
                 /\ epoll' = EpollWithout({socket_fd[s][k]})
                 /\ erases' = Append(erases, addr[s][k])
                 /\ socket_fd'[s][k] = NoFd
                 /\ \A j \in Slots \ {k} : socket_fd'[s][j] = socket_fd[s][j]
                 /\ \A r \in Subs \ {s} : socket_fd'[r] = socket_fd[r]
<1>1. addr' = addr
    BY CheckDeleteCases
<1>2. CASE UNCHANGED <<socketOf, orphans, erases, socket_fd, epoll>>
    BY <1>1, <1>2
<1>3. CASE /\ socket_fd[s][k] # NoFd
           /\ Close(FdsOf(s, {k}))
           /\ epoll' = EpollWithout(FdsOf(s, {k}))
           /\ erases' = erases \o ErasesOf(s, {k})
           /\ socket_fd' = [socket_fd EXCEPT ![s][k] = NoFd]
    <2>1. socket_fd[s][k] \in Fds /\ addr[s][k] \in Peers /\ erases \in Seq(Peers)
        BY <1>3 DEF TypeOK, SlotType, MainType, AddressInv
    <2>2. FdsOf(s, {k}) = {socket_fd[s][k]}
        BY <2>1 DEF FdsOf
    <2>3. ErasesOf(s, {k}) = <<addr[s][k]>>
        <3>1. Cardinality({k}) = 1
            BY FS_Singleton
        <3>2. \A i \in 1 .. 1 : ErasesOf(s, {k})[i] = addr[s][k]
            <4>1. ASSUME NEW i \in DOMAIN ErasesOf(s, {k}) PROVE ErasesOf(s, {k})[i] = addr[s][k]
                BY <2>1, <4>1, ErasesFacts
            <4> QED BY <3>1, <4>1 DEF ErasesOf
        <3>3. ErasesOf(s, {k}) \in Seq(Peers) /\ Len(ErasesOf(s, {k})) = 1
            BY <2>1, <3>1, ErasesFacts
        <3> QED BY <2>1, <3>2, <3>3
    <2>4. erases' = Append(erases, addr[s][k])
        <3>1. \A q \in Seq(Peers), x \in Peers : q \o <<x>> = Append(q, x)
            OBVIOUS
        <3> QED BY <1>3, <2>1, <2>3, <3>1
    <2>5. /\ socket_fd'[s][k] = NoFd
          /\ \A j \in Slots \ {k} : socket_fd'[s][j] = socket_fd[s][j]
          /\ \A r \in Subs \ {s} : socket_fd'[r] = socket_fd[r]
        BY <1>3 DEF TypeOK, SlotType
    <2> QED BY <1>1, <1>3, <2>1, <2>2, <2>4, <2>5
<1> QED BY <1>2, <1>3, CheckDeleteCases

(* A slot that has an address keeps one. *)
LEMMA AddressKept ==
    ASSUME TypeOK, AddressInv, RoundInv, [Next]_vars, NEW s \in Subs, NEW k \in Slots
    PROVE  addr'[s][k] = addr[s][k] \/ addr'[s][k] \in Peers
<1>1. CASE UNCHANGED slotVars
    BY <1>1 DEF slotVars
<1>2. ASSUME NEW r \in Subs, NEW j \in Slots, CheckDeleteSocket(r, j) PROVE addr'[s][k] = addr[s][k]
    BY <1>2, CheckDeleteCases
<1>3. ASSUME NEW r \in Subs, NEW C \in SUBSET Slots, TakeSlot(r, C) \/ AddFails(r, C)
      PROVE  addr'[s][k] = addr[s][k] \/ addr'[s][k] \in Peers
    BY <1>3, Occupied
<1> QED BY <1>1, <1>2, <1>3, SlotFootprint

\* Every step leaves a slot in use with an address.
LEMMA SlotAddressStep ==
    ASSUME TypeOK, AddressInv, RoundInv, [Next]_vars, NEW s \in Subs, NEW k \in Slots, socket_fd'[s][k] # NoFd
    PROVE  addr'[s][k] \in Peers
<1>1. CASE UNCHANGED slotVars
    BY <1>1 DEF slotVars, AddressInv
<1>2. ASSUME NEW r \in Subs, NEW j \in Slots, CheckDeleteSocket(r, j) PROVE addr'[s][k] \in Peers
    BY <1>2, Emptied DEF AddressInv
<1>3. ASSUME NEW r \in Subs, NEW C \in SUBSET Slots, TakeSlot(r, C) \/ AddFails(r, C)
      PROVE  addr'[s][k] \in Peers
    BY <1>3, Occupied DEF AddressInv
<1> QED BY <1>1, <1>2, <1>3, SlotFootprint

(* An epoll entry is new only for the slot a connection gets. *)
LEMMA EpollEntryStep ==
    ASSUME TypeOK, AddressInv, RoundInv, [Next]_vars, NEW q \in Subs, NEW g \in Fds
    PROVE  epoll'[q][g] \in {NoSlot, epoll[q][g]} \/ addr'[q][epoll'[q][g]] \in Peers
<1>1. CASE \E p \in Peers : ClientSend(p) \/ ForwardKnown(p) \/ AcceptNew(p) \/ NoDescriptor(p) \/ ConnectFails(p)
    BY <1>1 DEF ClientSend, ForwardKnown, Read, EndTurn, AcceptNew, NoDescriptor, ConnectFails, kernel, mainVars, slotVars, loopVars, history
<1>2. CASE (\E f \in Fds : SocketError(f)) \/ RunTask \/ NoDatagram \/ StopMain
    BY <1>2 DEF SocketError, RunTask, NoDatagram, EndTurn, StopMain, kernel, mainVars, slotVars, loopVars, history
<1>3. ASSUME NEW s \in Subs, NEW C \in SUBSET Slots, TakeSlot(s, C) PROVE epoll'[q][g] \in {NoSlot, epoll[q][g]} \/ addr'[q][epoll'[q][g]] \in Peers
    <2>1. PICK k \in Slots : /\ addr'[s][k] \in Peers
                             /\ epoll' = [EpollWithout(FdsOf(s, C)) EXCEPT ![s][Entry(s).fd] = k]
        BY <1>3, Occupied
    <2>2. EpollWithout(FdsOf(s, C)) \in [Subs -> [Fds -> Slots \cup {NoSlot}]]
          /\ EpollWithout(FdsOf(s, C))[q][g] \in {NoSlot, epoll[q][g]}
        BY EpollType DEF EpollWithout
    <2> QED BY <2>1, <2>2
<1>4. ASSUME NEW s \in Subs, NEW C \in SUBSET Slots, AddFails(s, C) PROVE epoll'[q][g] \in {NoSlot, epoll[q][g]} \/ addr'[q][epoll'[q][g]] \in Peers
    <2>1. epoll' = EpollWithout(FdsOf(s, C) \cup {Entry(s).fd})
        BY <1>4 DEF AddFails
    <2> QED BY <2>1 DEF EpollWithout
<1>5. CASE \E s \in Subs : UseSlot(s) \/ ThrowData(s)
    BY <1>5 DEF UseSlot, Deal, ThrowData, kernel, mainVars, slotVars, loopVars, history
<1>6. ASSUME NEW s \in Subs, Refuse(s) PROVE epoll'[q][g] \in {NoSlot, epoll[q][g]} \/ addr'[q][epoll'[q][g]] \in Peers
    <2>1. epoll' = EpollWithout({Entry(s).fd})
        BY <1>6 DEF Refuse
    <2> QED BY <2>1 DEF EpollWithout
<1>7. CASE \E s \in Subs : Start(s) \/ EpollWait(s) \/ EndTimers(s) \/ EndNew(s) \/ EndEvents(s)
    BY <1>7 DEF Start, Goto, EpollWait, EndTimers, EndNew, EndEvents, kernel, mainVars, slotVars, loopVars, history
<1>8. CASE \E s \in Subs : EventOut(s) \/ StopWake(s) \/ StopSub(s)
    BY <1>8 DEF EventOut, Handle, StopWake, StopSub, kernel, mainVars, slotVars, loopVars, history
<1>9. ASSUME NEW s \in Subs, JoinSub(s) PROVE epoll'[q][g] \in {NoSlot, epoll[q][g]} \/ addr'[q][epoll'[q][g]] \in Peers
    <2>1. epoll' = EpollWithout(FdsOf(s, Slots))
        BY <1>9 DEF JoinSub
    <2> QED BY <2>1 DEF EpollWithout
<1>10. CASE \E s \in Subs, k \in Slots : EventIn(s, k)
    BY <1>10 DEF EventIn, Handle, kernel, mainVars, slotVars, loopVars, history
<1>11. ASSUME NEW s \in Subs, NEW k \in Slots, CheckDeleteSocket(s, k) PROVE epoll'[q][g] \in {NoSlot, epoll[q][g]} \/ addr'[q][epoll'[q][g]] \in Peers
    <2>1. epoll' = epoll \/ epoll' = EpollWithout({socket_fd[s][k]})
        BY <1>11, Emptied
    <2> QED BY <2>1 DEF EpollWithout
<1>12. ASSUME NEW s \in Subs, NEW k \in Slots, EventErr(s, k) PROVE epoll'[q][g] \in {NoSlot, epoll[q][g]} \/ addr'[q][epoll'[q][g]] \in Peers
    <2>1. epoll' = EpollWithout(FdsOf(s, {k}))
        BY <1>12 DEF EventErr
    <2> QED BY <2>1 DEF EpollWithout
<1>13. CASE (\E t \in tasks : SendResponse(t)) \/ UNCHANGED vars
    BY <1>13 DEF SendResponse, vars, kernel, mainVars, slotVars, loopVars, history
<1> QED BY <1>1, <1>2, <1>3, <1>4, <1>5, <1>6, <1>7, <1>8, <1>9, <1>10, <1>11, <1>12, <1>13 DEF Next

(* The events of a sub-reactor are those epoll_wait reports, less and less of them. *)
LEMMA ReadyStep ==
    ASSUME [Next]_vars, TypeOK, NEW q \in Subs
    PROVE  ready'[q] \subseteq ready[q] \/ ready'[q] = Reported(q)
<1>1. CASE \E p \in Peers : ClientSend(p) \/ ForwardKnown(p) \/ AcceptNew(p) \/ NoDescriptor(p) \/ ConnectFails(p)
    BY <1>1 DEF TypeOK, LoopType, ClientSend, ForwardKnown, Read, EndTurn, AcceptNew, NoDescriptor, ConnectFails, kernel, mainVars, slotVars, loopVars, history
<1>2. CASE (\E f \in Fds : SocketError(f)) \/ RunTask \/ NoDatagram \/ StopMain
    BY <1>2 DEF TypeOK, LoopType, SocketError, RunTask, NoDatagram, EndTurn, StopMain, kernel, mainVars, slotVars, loopVars, history
<1>3. ASSUME NEW s \in Subs, NEW C \in SUBSET Slots, TakeSlot(s, C) PROVE ready'[q] \subseteq ready[q] \/ ready'[q] = Reported(q)
    BY <1>3 DEF TakeSlot, Deal
<1>4. ASSUME NEW s \in Subs, NEW C \in SUBSET Slots, AddFails(s, C) PROVE ready'[q] \subseteq ready[q] \/ ready'[q] = Reported(q)
    BY <1>4 DEF AddFails, Deal
<1>5. CASE \E s \in Subs : Refuse(s) \/ UseSlot(s) \/ ThrowData(s)
    BY <1>5 DEF TypeOK, LoopType, Refuse, Deal, UseSlot, ThrowData, kernel, mainVars, slotVars, loopVars, history
<1>6. CASE \E s \in Subs : Start(s) \/ EpollWait(s) \/ EndTimers(s) \/ EndNew(s) \/ EndEvents(s)
    BY <1>6 DEF TypeOK, LoopType, Start, Goto, EpollWait, EndTimers, EndNew, EndEvents, kernel, mainVars, slotVars, loopVars, history
<1>7. CASE \E s \in Subs : EventOut(s) \/ StopWake(s) \/ StopSub(s) \/ JoinSub(s)
    BY <1>7 DEF TypeOK, LoopType, EventOut, Handle, StopWake, StopSub, JoinSub, kernel, mainVars, slotVars, loopVars, history
<1>8. CASE \E s \in Subs, k \in Slots : CheckDeleteSocket(s, k) \/ EventErr(s, k) \/ EventIn(s, k)
    <2>1. ASSUME NEW s \in Subs, NEW k \in Slots, CheckDeleteSocket(s, k) PROVE ready'[q] \subseteq ready[q]
        BY <2>1 DEF CheckDeleteSocket, loopVars
    <2>2. ASSUME NEW s \in Subs, NEW e, Handle(s, e) PROVE ready'[q] \subseteq ready[q]
        BY <2>2 DEF TypeOK, LoopType, Handle
    <2> QED BY <1>8, <2>1, <2>2, Zenon DEF EventErr, EventIn
<1>9. CASE (\E t \in tasks : SendResponse(t)) \/ UNCHANGED vars
    BY <1>9 DEF TypeOK, LoopType, SendResponse, vars, kernel, mainVars, slotVars, loopVars, history
<1> QED BY <1>1, <1>2, <1>3, <1>4, <1>5, <1>6, <1>7, <1>8, <1>9 DEF Next

\* Every step keeps AddressInv.
LEMMA AddressStep ==
    ASSUME TypeOK, KernelInv, AddressInv, RoundInv, [Next]_vars
    PROVE  AddressInv'
<1>1. ASSUME NEW s \in Subs, NEW k \in Slots, socket_fd'[s][k] # NoFd PROVE addr'[s][k] \in Peers
    BY <1>1, SlotAddressStep
<1>2. ASSUME NEW s \in Subs, NEW f \in Fds, epoll'[s][f] # NoSlot PROVE addr'[s][epoll'[s][f]] \in Peers
    <2>1. CASE epoll'[s][f] = epoll[s][f]
        <3>1. epoll[s][f] \in Slots /\ addr[s][epoll[s][f]] \in Peers
            BY <1>2, <2>1 DEF TypeOK, KernelType, AddressInv
        <3> QED BY <2>1, <3>1, AddressKept
    <2> QED BY <1>2, <2>1, EpollEntryStep
<1>3. ASSUME NEW s \in Subs, NEW k \in Slots, <<"err", k>> \in ready'[s] PROVE addr'[s][k] \in Peers
    <2>1. addr[s][k] \in Peers
        <3>1. CASE <<"err", k>> \in ready[s]
            BY <3>1 DEF AddressInv
        <3>2. CASE <<"err", k>> \in Reported(s)
            <4>1. \E f \in failed : epoll[s][f] # NoSlot /\ <<"err", k>> = <<"err", epoll[s][f]>>
                BY <3>2 DEF Reported
            <4>2. PICK f \in failed : epoll[s][f] # NoSlot /\ k = epoll[s][f]
                BY <4>1
            <4> QED BY <4>2 DEF AddressInv, TypeOK, KernelType
        <3> QED BY <1>3, <3>1, <3>2, ReadyStep
    <2> QED BY <2>1, AddressKept
<1> QED BY <1>1, <1>2, <1>3 DEF AddressInv

(* The count of a sub-reactor keeps up with its slots. *)
LEMMA CountStep ==
    ASSUME TypeOK, AddressInv, RoundInv, CountCoversSlots, [Next]_vars
    PROVE  CountCoversSlots'
<1> DEFINE Used(s) == {k \in Slots : socket_fd[s][k] # NoFd}
           UsedN(s) == {k \in Slots : socket_fd'[s][k] # NoFd}
<1>1. \A s \in Subs : /\ IsFiniteSet(Used(s)) /\ Cardinality(Used(s)) \in Nat
                      /\ Cardinality(Used(s)) <= activeConnectionsCount[s]
                      /\ activeConnectionsCount[s] \in Int
    <2>1. \A s \in Subs : IsFiniteSet(Used(s))
        BY SlotFacts, FS_Subset
    <2> QED BY <2>1, FS_CardinalityType DEF CountCoversSlots, TypeOK, SlotType
<1>2. CASE UNCHANGED slotVars
    BY <1>2 DEF CountCoversSlots, slotVars
<1>3. ASSUME NEW s \in Subs, NEW k \in Slots, CheckDeleteSocket(s, k) PROVE CountCoversSlots'
    <2>1. \A r \in Subs, j \in Slots : socket_fd'[r][j] # NoFd => socket_fd[r][j] # NoFd
        BY <1>3, Emptied
    <2>2. UNCHANGED activeConnectionsCount
        BY <1>3, CheckDeleteCases
    <2>3. ASSUME NEW r \in Subs PROVE Cardinality(UsedN(r)) <= activeConnectionsCount'[r]
        <3>1. UsedN(r) \in SUBSET Used(r)
            BY <2>1
        <3>2. Cardinality(UsedN(r)) <= Cardinality(Used(r)) /\ Cardinality(UsedN(r)) \in Nat
            <4> HIDE DEF Used, UsedN
            <4> QED BY <1>1, <3>1, FS_Subset, FS_CardinalityType
        <3> HIDE DEF Used, UsedN
        <3> QED BY <1>1, <2>2, <3>2
    <2> QED BY <2>3 DEF CountCoversSlots
<1>4. ASSUME NEW s \in Subs, NEW C \in SUBSET Slots, TakeSlot(s, C) \/ AddFails(s, C) PROVE CountCoversSlots'
    <2>1. PICK k \in Slots :
              /\ \A j \in C : socket_fd[s][j] \in Fds
              /\ \A j \in Slots \ {k} : socket_fd'[s][j] = IF j \in C THEN NoFd ELSE socket_fd[s][j]
              /\ \A r \in Subs \ {s} : socket_fd'[r] = socket_fd[r]
        BY <1>4, Occupied
    <2>2. activeConnectionsCount' = [activeConnectionsCount EXCEPT ![s] = CountAfter(s, C)]
        BY <1>4 DEF TakeSlot, AddFails, Occupy
    <2>3. Cardinality(UsedN(s)) <= CountAfter(s, C)
        <3>1. C \in SUBSET Used(s) /\ UsedN(s) \in SUBSET ((Used(s) \ C) \cup {k})
            BY <2>1, SlotFacts
        <3> HIDE DEF Used, UsedN
        <3>2. /\ IsFiniteSet(C) /\ Cardinality(C) \in Nat
              /\ IsFiniteSet(Used(s) \ C) /\ Cardinality(Used(s) \ C) = Cardinality(Used(s)) - Cardinality(C)
            <4>1. IsFiniteSet(Used(s)) /\ IsFiniteSet(C)
                BY <1>1, <3>1, FS_Subset
            <4>2. Used(s) \cap C = C
                BY <3>1
            <4> QED BY <4>1, <4>2, FS_Difference, FS_CardinalityType
        <3>3. /\ IsFiniteSet((Used(s) \ C) \cup {k})
              /\ Cardinality((Used(s) \ C) \cup {k}) <= Cardinality(Used(s)) - Cardinality(C) + 1
            <4>1. /\ IsFiniteSet((Used(s) \ C) \cup {k})
                  /\ Cardinality((Used(s) \ C) \cup {k}) =
                        IF k \in Used(s) \ C THEN Cardinality(Used(s) \ C) ELSE Cardinality(Used(s) \ C) + 1
                BY <3>2, FS_AddElement
            <4> QED BY <1>1, <3>2, <4>1
        <3>4. Cardinality(UsedN(s)) <= Cardinality((Used(s) \ C) \cup {k}) /\ Cardinality(UsedN(s)) \in Nat
              /\ Cardinality((Used(s) \ C) \cup {k}) \in Nat
            BY <3>1, <3>3, FS_Subset, FS_CardinalityType
        <3> QED BY <1>1, <3>2, <3>3, <3>4 DEF CountAfter
    <2>4. ASSUME NEW r \in Subs PROVE Cardinality(UsedN(r)) <= activeConnectionsCount'[r]
        <3>1. CASE r = s
            <4> HIDE DEF UsedN
            <4> QED BY <2>2, <2>3, <3>1 DEF TypeOK, SlotType
        <3>2. CASE r # s
            <4>1. UsedN(r) = Used(r)
                BY <2>1, <3>2
            <4> HIDE DEF UsedN, Used
            <4> QED BY <1>1, <2>2, <3>2, <4>1 DEF TypeOK, SlotType
        <3> QED BY <3>1, <3>2
    <2> QED BY <2>4 DEF CountCoversSlots
<1> QED BY <1>2, <1>3, <1>4, SlotFootprint

-----------------------------------------------------------------------------
(* Who holds a descriptor *)

HeldBy(f, p, s) ==
    \/ \E k \in Slots : socket_fd[s][k] = f /\ addr[s][k] = p
    \/ \E i \in Nat : NewAt(s, i) /\ newConnections[s][i].fd = f /\ newConnections[s][i].peer = p

\* The two ways to say who holds a number agree.
LEMMA NamedIsHeld ==
    ASSUME TypeOK, NEW f \in Fds, NEW p, NEW s
    PROVE  <<f, p, s>> \in Named <=> s \in Subs /\ HeldBy(f, p, s)
<1>1. <<f, p, s>> \in SlotHolders <=> s \in Subs /\ \E k \in Slots : socket_fd[s][k] = f /\ addr[s][k] = p
    BY DEF SlotHolders
<1>2. <<f, p, s>> \in EntryHolders <=> s \in Subs /\ \E e \in NewEntries(s) : e.fd = f /\ e.peer = p
    BY DEF EntryHolders
<1>3. s \in Subs => \A e : e \in NewEntries(s) <=> \E i \in Nat : NewAt(s, i) /\ newConnections[s][i] = e
    BY DEF NewEntries, NewAt, TypeOK, SharedType
<1>4. f # NoFd
    BY SlotFacts
<1> QED BY <1>1, <1>2, <1>3, <1>4 DEF Named, HeldBy

(* A holder names a descriptor. *)
LEMMA NamedType ==
    ASSUME TypeOK, AddressInv, NEW h \in Named
    PROVE  \E f \in Fds, p \in Peers, s \in Subs : h = <<f, p, s>>
<1>1. CASE h \in SlotHolders
    <2>1. PICK s \in Subs, k \in Slots : h = <<socket_fd[s][k], addr[s][k], s>>
        BY <1>1 DEF SlotHolders
    <2>2. socket_fd[s][k] # NoFd
        BY <2>1 DEF Named
    <2>3. socket_fd[s][k] \in Fds /\ addr[s][k] \in Peers
        BY <2>2 DEF TypeOK, SlotType, AddressInv
    <2> QED BY <2>1, <2>3
<1>2. CASE h \in EntryHolders
    <2>0. PICK s \in Subs : \E e \in NewEntries(s) : h = <<e.fd, e.peer, s>>
        BY <1>2 DEF EntryHolders
    <2>1. PICK e \in NewEntries(s) : h = <<e.fd, e.peer, s>>
        BY <2>0
    <2>2. PICK i \in 1 .. Len(newConnections[s]) : e = newConnections[s][i]
        BY <2>1 DEF NewEntries
    <2>3. e \in Entries
        BY <2>2 DEF TypeOK, SharedType
    <2>4. e.fd \in Fds /\ e.peer \in Peers
        BY <2>3, Zenon DEF Entries
    <2> QED BY <2>1, <2>4
<1> QED BY <1>1, <1>2 DEF Named

(* The entries of a queue that a connection was taken from. *)
LEMMA Popped ==
    ASSUME TypeOK, RoundInv, NEW s \in Subs, Deal(s), Pop(s)
    PROVE  /\ \A r \in Subs \ {s} : newConnections'[r] = newConnections[r]
           /\ Len(newConnections'[s]) = Len(newConnections[s]) - 1
           /\ \A i \in Nat : NewAt(s, i)' => /\ NewAt(s, i + 1) /\ i >= 1
                                             /\ newConnections'[s][i] = newConnections[s][i + 1]
           /\ \A i \in Nat : NewAt(s, i) /\ i # 1 => /\ NewAt(s, i - 1)' /\ i - 1 \in Nat
                                                     /\ newConnections'[s][i - 1] = newConnections[s][i]
<1> DEFINE q == newConnections[s]
           t == newConnections'[s]
<1>1. newConnections' = [newConnections EXCEPT ![s] = Tail(q)] /\ newConnections \in [Subs -> Seq(Entries)]
    BY DEF Pop, TypeOK, SharedType
<1>2. t = Tail(q) /\ \A r \in Subs \ {s} : newConnections'[r] = newConnections[r]
    BY <1>1
<1>3. Len(q) \in Nat /\ Len(q) > 0 /\ Len(t) = Len(q) - 1 /\ \A i \in 1 .. Len(q) - 1 : t[i] = q[i + 1]
    BY <1>2, EntryFacts
<1>4. \A i \in Nat : NewAt(s, i) <=> i \in 1 .. Len(q) /\ q[i].new
    BY DEF NewAt
<1>5. \A i \in Nat : NewAt(s, i)' <=> i \in 1 .. Len(t) /\ t[i].new
    BY DEF NewAt
<1> HIDE DEF q, t
<1>6. ASSUME NEW i \in Nat, NewAt(s, i)' PROVE NewAt(s, i + 1) /\ i >= 1 /\ t[i] = q[i + 1]
    <2>1. i \in 1 .. Len(t) /\ t[i].new
        BY <1>5, <1>6
    <2>2. i >= 1 /\ i + 1 \in Nat /\ i + 1 \in 1 .. Len(q) /\ t[i] = q[i + 1]
        BY <1>3, <2>1
    <2> QED BY <1>4, <2>1, <2>2
<1>7. ASSUME NEW i \in Nat, NewAt(s, i), i # 1 PROVE NewAt(s, i - 1)' /\ i - 1 \in Nat /\ t[i - 1] = q[i]
    <2>1. i \in 1 .. Len(q) /\ q[i].new
        BY <1>4, <1>7
    <2>2. i - 1 \in Nat /\ i - 1 \in 1 .. Len(t) /\ t[i - 1] = q[i - 1 + 1] /\ i - 1 + 1 = i
        BY <1>3, <1>7, <2>1
    <2> QED BY <1>5, <2>1, <2>2
<1> QED BY <1>2, <1>3, <1>6, <1>7 DEF q, t

(* The entries of a queue that the main reactor has added to. *)
LEMMA Appended ==
    ASSUME TypeOK, NEW s \in Subs, NEW e \in Entries,
           newConnections' = [newConnections EXCEPT ![s] = Append(@, e)]
    PROVE  /\ \A r \in Subs \ {s} : newConnections'[r] = newConnections[r]
           /\ Len(newConnections[s]) \in Nat /\ Len(newConnections'[s]) = Len(newConnections[s]) + 1
           /\ newConnections'[s][Len(newConnections[s]) + 1] = e
           /\ \A i \in Nat : NewAt(s, i)' => \/ i = Len(newConnections[s]) + 1 /\ e.new
                                             \/ NewAt(s, i) /\ newConnections'[s][i] = newConnections[s][i]
           /\ \A i \in Nat : NewAt(s, i) => NewAt(s, i)' /\ newConnections'[s][i] = newConnections[s][i]
<1> DEFINE q == newConnections[s]
           t == newConnections'[s]
<1>1. newConnections' = [newConnections EXCEPT ![s] = Append(q, e)] /\ newConnections \in [Subs -> Seq(Entries)]
    BY DEF TypeOK, SharedType
<1>2. t = Append(q, e) /\ q \in Seq(Entries) /\ \A r \in Subs \ {s} : newConnections'[r] = newConnections[r]
    BY <1>1
<1>4. \A i \in Nat : NewAt(s, i) <=> i \in 1 .. Len(q) /\ q[i].new
    BY DEF NewAt
<1>5. \A i \in Nat : NewAt(s, i)' <=> i \in 1 .. Len(t) /\ t[i].new
    BY DEF NewAt
<1> HIDE DEF q, t
<1>3. Len(q) \in Nat /\ Len(t) = Len(q) + 1 /\ t[Len(q) + 1] = e /\ \A i \in 1 .. Len(q) : t[i] = q[i]
    BY <1>2
<1>6. ASSUME NEW i \in Nat, NewAt(s, i)' PROVE (i = Len(q) + 1 /\ e.new) \/ (NewAt(s, i) /\ t[i] = q[i])
    <2>1. i \in 1 .. Len(t) /\ t[i].new
        BY <1>5, <1>6
    <2>2. i = Len(q) + 1 \/ i \in 1 .. Len(q)
        BY <1>3, <2>1
    <2>3. CASE i = Len(q) + 1
        <3>1. t[i] = e
            BY <1>3, <2>3
        <3>2. e.new
            BY <2>1, <3>1
        <3> QED BY <2>3, <3>2
    <2>4. CASE i \in 1 .. Len(q)
        <3>1. t[i] = q[i]
            BY <1>3, <2>4
        <3> QED BY <1>4, <2>1, <2>4, <3>1, Zenon
    <2> QED BY <2>2, <2>3, <2>4
<1>7. ASSUME NEW i \in Nat, NewAt(s, i) PROVE NewAt(s, i)' /\ t[i] = q[i]
    <2>1. i \in 1 .. Len(q) /\ q[i].new
        BY <1>4, <1>7
    <2>2. i \in 1 .. Len(t) /\ t[i] = q[i]
        BY <1>3, <2>1
    <2> QED BY <1>5, <2>1, <2>2
<1> QED BY <1>2, <1>3, <1>6, <1>7 DEF q, t

(* The packet of a known client does not make anybody a holder. *)
LEMMA Forwarded ==
    ASSUME TypeOK, NEW p \in Peers, ForwardKnown(p)
    PROVE  \/ UNCHANGED newConnections
           \/ \E s \in Subs, e \in Entries :
                 ~e.new /\ newConnections' = [newConnections EXCEPT ![s] = Append(@, e)]
<1> DEFINE e == [fd |-> con_queue[p][1], peer |-> p, new |-> FALSE]
<1>1. con_queue[p] \in Fds \X Subs
    BY DEF ForwardKnown, TypeOK, MainType
<1>2. con_queue[p][1] \in Fds /\ con_queue[p][2] \in Subs
    BY <1>1
<1>3. UNCHANGED newConnections \/ newConnections' = [newConnections EXCEPT ![con_queue[p][2]] = Append(@, e)]
    BY DEF ForwardKnown, AcceptConnection
<1>4. e \in Entries /\ ~e.new
    BY <1>2, Zenon DEF Entries
<1> HIDE DEF e
<1> QED BY <1>2, <1>3, <1>4

(* A new client is refused by a sub-reactor that does not run, or gets a   *)
(* descriptor, a route and an entry.                                       *)
LEMMA Accepted ==
    ASSUME TypeOK, NEW p \in Peers, AcceptNew(p)
    PROVE  /\ UNCHANGED <<orphans, erases, socket_fd, addr>> /\ mainPc = "recv" /\ con_queue[p] = <<>>
           /\ \/ UNCHANGED <<socketOf, con_queue, newConnections>>
              \/ \E s \in Subs, f \in Fds, e \in Entries :
                    /\ f \notin Open /\ e.fd = f /\ e.peer = p /\ e.new
                    /\ newConnections' = [newConnections EXCEPT ![s] = Append(@, e)]
                    /\ socketOf' = [socketOf EXCEPT ![f] = p]
                    /\ con_queue' = [con_queue EXCEPT ![p] = <<f, s>>]
<1> DEFINE f == Min(Fds \ Open)
           e == [fd |-> f, peer |-> p, new |-> TRUE]
<1>1. UNCHANGED <<orphans, erases, socket_fd, addr>> /\ mainPc = "recv" /\ con_queue[p] = <<>>
    BY DEF AcceptNew, Read, EndTurn, slotVars
<1>2. f \in Fds /\ f \notin Open /\ counter \in Subs
    BY FreeDescriptor DEF AcceptNew, TypeOK, MainType
<1>3. CASE ~Runs(counter)
    BY <1>1, <1>3 DEF AcceptNew, AcceptConnection
<1>4. CASE Runs(counter)
    <2>1. /\ newConnections' = [newConnections EXCEPT ![counter] = Append(@, e)]
          /\ socketOf' = [socketOf EXCEPT ![f] = p]
          /\ con_queue' = [con_queue EXCEPT ![p] = <<f, counter>>]
        BY <1>4 DEF AcceptNew, AcceptConnection
    <2>2. e \in Entries /\ e.fd = f /\ e.peer = p /\ e.new
        <3> HIDE DEF f
        <3> QED BY <1>2, Zenon DEF Entries
    <2> HIDE DEF e, f
    <2> QED BY <1>1, <1>2, <2>1, <2>2
<1> QED BY <1>3, <1>4

\* A new entry that is appended holds its number.
LEMMA NewEntryHeld ==
    ASSUME TypeOK, NEW s \in Subs, NEW e \in Entries, e.new,
           newConnections' = [newConnections EXCEPT ![s] = Append(@, e)]
    PROVE  HeldBy(e.fd, e.peer, s)'
<1>0. Len(newConnections[s]) \in Nat /\ Len(newConnections'[s]) = Len(newConnections[s]) + 1
      /\ newConnections'[s][Len(newConnections[s]) + 1] = e
    BY Appended
<1>1. PICK n \in Nat : n \in 1 .. Len(newConnections'[s]) /\ newConnections'[s][n] = e
    BY <1>0
<1>2. NewAt(s, n)'
    BY <1>1 DEF NewAt
<1> QED BY <1>1, <1>2 DEF HeldBy

(* A holder lets go of a descriptor only when it is closed and the route   *)
(* to it is about to be erased.                                            *)
LEMMA SlotHolderStep ==
    ASSUME TypeOK, AddressInv, RoundInv, [Next]_vars,
           NEW s \in Subs, NEW k \in Slots, socket_fd[s][k] # NoFd
    PROVE  \/ socket_fd'[s][k] = socket_fd[s][k] /\ addr'[s][k] = addr[s][k]
           \/ /\ socketOf'[socket_fd[s][k]] = NoPeer /\ socket_fd[s][k] \notin orphans'
              /\ \E i \in DOMAIN erases' : erases'[i] = addr[s][k]
<1> DEFINE f == socket_fd[s][k]
<1>0. f \in Fds /\ erases \in Seq(Peers) /\ addr[s][k] \in Peers
    BY DEF TypeOK, SlotType, MainType, AddressInv
<1>1. CASE UNCHANGED slotVars
    BY <1>1 DEF slotVars
<1>2. ASSUME NEW r \in Subs, NEW j \in Slots, CheckDeleteSocket(r, j)
      PROVE  \/ socket_fd'[s][k] = f /\ addr'[s][k] = addr[s][k]
             \/ /\ socketOf'[f] = NoPeer /\ f \notin orphans'
                /\ \E i \in DOMAIN erases' : erases'[i] = addr[s][k]
    <2>1. CASE UNCHANGED socket_fd
        BY <1>2, <2>1, Emptied
    <2>2. CASE r # s \/ j # k
        <3>1. socket_fd'[s][k] = f
            BY <1>2, <2>2, Emptied
        <3>2. addr' = addr
            BY <1>2, Emptied
        <3> QED BY <3>1, <3>2
    <2>3. CASE r = s /\ j = k /\ Close({f}) /\ erases' = Append(erases, addr[s][k])
        <3>1. erases'[Len(erases) + 1] = addr[s][k] /\ Len(erases) + 1 \in DOMAIN erases'
            BY <1>0, <2>3
        <3>2. socketOf'[f] = NoPeer /\ f \notin orphans'
            BY <1>0, <2>3 DEF Close
        <3> QED BY <3>1, <3>2
    <2> QED BY <1>2, <2>1, <2>2, <2>3, Emptied
<1>3. ASSUME NEW r \in Subs, NEW C \in SUBSET Slots, TakeSlot(r, C) \/ AddFails(r, C)
      PROVE  \/ socket_fd'[s][k] = f /\ addr'[s][k] = addr[s][k]
             \/ /\ socketOf'[f] = NoPeer /\ f \notin orphans'
                /\ \E i \in DOMAIN erases' : erases'[i] = addr[s][k]
    <2>1. CASE r # s \/ k \notin C
        BY <1>3, <2>1, Occupied
    <2>2. CASE r = s /\ k \in C
        <3>1. f \in FdsOf(s, C) /\ (Close(FdsOf(s, C)) \/ Close(FdsOf(s, C) \cup {Entry(s).fd}))
            BY <1>0, <1>3, <2>2 DEF FdsOf, TakeSlot, AddFails
        <3>2. socketOf'[f] = NoPeer /\ f \notin orphans'
            BY <1>0, <3>1 DEF Close
        <3>3. erases' = erases \o ErasesOf(s, C) /\ \A j \in C : addr[s][j] \in Peers
            BY <1>3, <2>2, Occupied
        <3>4. PICK i \in DOMAIN ErasesOf(s, C) : ErasesOf(s, C)[i] = addr[s][k]
            BY <2>2, <3>3, ErasesFacts
        <3>5. ErasesOf(s, C) \in Seq(Peers)
            BY <3>3, ErasesFacts
        <3>6. Len(erases) + i \in DOMAIN erases' /\ erases'[Len(erases) + i] = ErasesOf(s, C)[i]
            BY <1>0, <3>3, <3>4, <3>5
        <3> QED BY <3>2, <3>4, <3>6
    <2> QED BY <2>1, <2>2
<1> QED BY <1>1, <1>2, <1>3, SlotFootprint

\* A number a new entry holds is still held after a step, there or in a slot.
LEMMA EntryHolderStep ==
    ASSUME TypeOK, AddressInv, RoundInv, [Next]_vars,
           NEW s \in Subs, NEW i \in Nat, NewAt(s, i), NEW e, e = newConnections[s][i]
    PROVE  HeldBy(e.fd, e.peer, s)'
<1>1. ASSUME NEW j \in Nat, NewAt(s, j)', newConnections'[s][j] = e PROVE HeldBy(e.fd, e.peer, s)'
    BY <1>1 DEF HeldBy
<1>2. CASE newConnections'[s] = newConnections[s]
    BY <1>1, <1>2 DEF NewAt
<1>3. ASSUME NEW r \in Subs, NEW x \in Entries, newConnections' = [newConnections EXCEPT ![r] = Append(@, x)]
      PROVE  HeldBy(e.fd, e.peer, s)'
    <2>1. CASE r = s
        BY <1>1, <1>3, <2>1, Appended
    <2>2. CASE r # s
        BY <1>2, <1>3, <2>2, Appended
    <2> QED BY <2>1, <2>2
<1>4. ASSUME NEW p \in Peers, ForwardKnown(p) \/ AcceptNew(p) PROVE HeldBy(e.fd, e.peer, s)'
    BY <1>2, <1>3, <1>4, Forwarded, Accepted
<1>5. ASSUME NEW r \in Subs, Deal(r), Pop(r), r # s \/ i # 1 PROVE HeldBy(e.fd, e.peer, s)'
    <2>1. CASE r = s
        BY <1>1, <1>5, <2>1, Popped
    <2>2. CASE r # s
        BY <1>2, <1>5, <2>2, Popped
    <2> QED BY <2>1, <2>2
<1>6. ASSUME NEW r \in Subs, UseSlot(r) PROVE HeldBy(e.fd, e.peer, s)'
    <2>1. Deal(r) /\ Pop(r) /\ ~Entry(r).new
        BY <1>6 DEF UseSlot
    <2>2. r # s \/ i # 1
        BY <2>1, EntryFacts DEF NewAt
    <2> QED BY <1>5, <2>1, <2>2
<1>7. ASSUME NEW r \in Subs, NEW C \in SUBSET Slots, TakeSlot(r, C) PROVE HeldBy(e.fd, e.peer, s)'
    <2>1. Deal(r) /\ Pop(r)
        BY <1>7 DEF TakeSlot
    <2>2. CASE r = s /\ i = 1
        <3>1. PICK k \in Slots : socket_fd'[s][k] = e.fd /\ addr'[s][k] = e.peer
            BY <1>7, <2>2, Occupied
        <3> QED BY <3>1 DEF HeldBy
    <2> QED BY <1>5, <2>1, <2>2
<1> QED BY <1>2, <1>4, <1>6, <1>7, QueueFootprint

\* A holder keeps its number until the socket is closed and the erase of the route is due.
LEMMA HolderStep ==
    ASSUME TypeOK, AddressInv, RoundInv, [Next]_vars,
           NEW f \in Fds, NEW p, NEW s \in Subs, HeldBy(f, p, s)
    PROVE  \/ HeldBy(f, p, s)'
           \/ /\ socketOf'[f] = NoPeer /\ f \notin orphans'
              /\ \E i \in DOMAIN erases' : erases'[i] = p
<1>1. CASE \E k \in Slots : socket_fd[s][k] = f /\ addr[s][k] = p
    <2>1. PICK k \in Slots : socket_fd[s][k] = f /\ addr[s][k] = p
        BY <1>1
    <2>2. socket_fd[s][k] # NoFd
        BY <2>1, SlotFacts
    <2>3. CASE socket_fd'[s][k] = f /\ addr'[s][k] = p
        BY <2>3 DEF HeldBy
    <2> QED BY <2>1, <2>2, <2>3, SlotHolderStep
<1>2. CASE \E i \in Nat : NewAt(s, i) /\ newConnections[s][i].fd = f /\ newConnections[s][i].peer = p
    BY <1>2, EntryHolderStep
<1> QED BY <1>1, <1>2 DEF HeldBy

(* A descriptor is opened for an entry, a route is made for one. *)
LEMMA OpenStep ==
    ASSUME TypeOK, AddressInv, RoundInv, [Next]_vars, NEW f \in Fds, socketOf'[f] # NoPeer
    PROVE  socketOf[f] # NoPeer \/ \E p \in Peers, s \in Subs : HeldBy(f, p, s)'
<1>1. ASSUME NEW F, Close(F) PROVE socketOf[f] # NoPeer
    BY <1>1 DEF Close
<1>2. ASSUME NEW p \in Peers, AcceptNew(p) PROVE socketOf[f] # NoPeer \/ \E q \in Peers, s \in Subs : HeldBy(f, q, s)'
    <2>1. CASE UNCHANGED socketOf
        BY <2>1
    <2>2. ASSUME NEW s \in Subs, NEW g \in Fds, NEW e \in Entries, e.fd = g, e.peer = p, e.new,
                 newConnections' = [newConnections EXCEPT ![s] = Append(@, e)],
                 socketOf' = [socketOf EXCEPT ![g] = p]
          PROVE  socketOf[f] # NoPeer \/ \E q \in Peers, r \in Subs : HeldBy(f, q, r)'
        <3>1. CASE f # g
            BY <2>2, <3>1 DEF TypeOK, KernelType
        <3>2. CASE f = g
            BY <2>2, <3>2, NewEntryHeld
        <3> QED BY <3>1, <3>2
    <2> QED BY <1>2, <2>1, <2>2, Accepted
<1>3. ASSUME NEW p \in Peers, ConnectFails(p) PROVE UNCHANGED socketOf
    BY <1>3 DEF ConnectFails
<1>4. ASSUME NEW s \in Subs, Refuse(s) \/ JoinSub(s) PROVE socketOf[f] # NoPeer
    BY <1>1, <1>4 DEF Refuse, JoinSub
<1>5. ASSUME NEW s \in Subs, NEW k \in Slots, CheckDeleteSocket(s, k) \/ EventErr(s, k) PROVE socketOf[f] # NoPeer
    BY <1>1, <1>5, CheckDeleteCases DEF EventErr
<1>6. ASSUME NEW s \in Subs, NEW C \in SUBSET Slots, TakeSlot(s, C) \/ AddFails(s, C) PROVE socketOf[f] # NoPeer
    BY <1>1, <1>6 DEF TakeSlot, AddFails
<1> QED BY <1>2, <1>3, <1>4, <1>5, <1>6, SocketFootprint

\* NamedIsHeld after a step.
LEMMA NamedIsHeldNext ==
    ASSUME TypeOK', NEW f \in Fds, NEW p, NEW s \in Subs, HeldBy(f, p, s)'
    PROVE  <<f, p, s>> \in Named'
<1>1. CASE \E k \in Slots : socket_fd'[s][k] = f /\ addr'[s][k] = p
    BY <1>1, SlotFacts DEF SlotHolders, Named
<1>2. ASSUME NEW i \in Nat, NewAt(s, i)', newConnections'[s][i].fd = f, newConnections'[s][i].peer = p
      PROVE  <<f, p, s>> \in Named'
    <2>1. newConnections'[s][i] \in NewEntries(s)'
        BY <1>2 DEF NewEntries, NewAt
    <2>2. <<f, p, s>> \in EntryHolders'
        BY <1>2, <2>1 DEF EntryHolders
    <2> QED BY <2>2, SlotFacts DEF Named
<1> QED BY <1>1, <1>2 DEF HeldBy

\* A pending erase stays until the route is gone.
LEMMA PendingStep ==
    ASSUME TypeOK, AddressInv, RoundInv, [Next]_vars, NEW p \in Peers, NEW i \in DOMAIN erases, erases[i] = p
    PROVE  con_queue'[p] = <<>> \/ \E j \in DOMAIN erases' : erases'[j] = p
<1>0. erases \in Seq(Peers) /\ con_queue \in [Peers -> {<<>>} \cup (Fds \X Subs)]
    BY DEF TypeOK, MainType
<1>1. ASSUME NEW q \in Seq(Peers), erases' = erases \o q PROVE \E j \in DOMAIN erases' : erases'[j] = p
    <2>1. i \in DOMAIN erases' /\ erases'[i] = p
        BY <1>0, <1>1
    <2> QED BY <2>1
<1>2. ASSUME NEW q \in Peers, AcceptNew(q) PROVE \E j \in DOMAIN erases' : erases'[j] = p
    BY <1>2, Accepted
<1>3. CASE RunTask
    <2>1. erases # <<>> /\ con_queue' = [con_queue EXCEPT ![Head(erases)] = <<>>] /\ erases' = Tail(erases)
        BY <1>0, <1>3 DEF RunTask
    <2>2. CASE i = 1
        BY <1>0, <2>1, <2>2
    <2>3. CASE i # 1
        <3>1. i - 1 \in DOMAIN Tail(erases) /\ Tail(erases)[i - 1] = erases[i]
            BY <1>0, <2>1, <2>3
        <3> QED BY <2>1, <3>1
    <2> QED BY <2>2, <2>3
<1>4. ASSUME NEW s \in Subs, NEW k \in Slots, CheckDeleteSocket(s, k) PROVE \E j \in DOMAIN erases' : erases'[j] = p
    <2>1. CASE UNCHANGED erases
        BY <2>1
    <2>2. CASE addr[s][k] \in Peers /\ erases' = Append(erases, addr[s][k])
        <3>1. i \in DOMAIN erases' /\ erases'[i] = p
            BY <1>0, <2>2
        <3> QED BY <3>1
    <2> QED BY <1>4, <2>1, <2>2, Emptied
<1>5. ASSUME NEW s \in Subs, NEW k \in Slots, EventErr(s, k) PROVE \E j \in DOMAIN erases' : erases'[j] = p
    <2>1. erases' = erases \o ErasesOf(s, {k}) /\ <<"err", k>> \in ready[s]
        BY <1>5 DEF EventErr, Handle
    <2>2. ErasesOf(s, {k}) \in Seq(Peers)
        BY <2>1, ErasesFacts DEF AddressInv
    <2> QED BY <1>1, <2>1, <2>2
<1>6. ASSUME NEW s \in Subs, NEW C \in SUBSET Slots, TakeSlot(s, C) \/ AddFails(s, C)
      PROVE  \E j \in DOMAIN erases' : erases'[j] = p
    <2>1. erases' = erases \o ErasesOf(s, C) /\ \A j \in C : addr[s][j] \in Peers
        BY <1>6, Occupied
    <2>2. ErasesOf(s, C) \in Seq(Peers)
        BY <2>1, ErasesFacts
    <2> QED BY <1>1, <2>1, <2>2
<1> QED BY <1>2, <1>3, <1>4, <1>5, <1>6, RouteFootprint

\* Every step keeps the routes backed.
LEMMA RouteStep ==
    ASSUME TypeOK, AddressInv, RoundInv, [Next]_vars, NEW p \in Peers,
           NEW f \in Fds, NEW s \in Subs, con_queue'[p] = <<f, s>>
    PROVE  con_queue[p] = <<f, s>> \/ HeldBy(f, p, s)'
<1>0. con_queue \in [Peers -> {<<>>} \cup (Fds \X Subs)] /\ erases \in Seq(Peers)
    BY DEF TypeOK, MainType
<1>1. ASSUME NEW q \in Peers, AcceptNew(q) PROVE con_queue[p] = <<f, s>> \/ HeldBy(f, p, s)'
    <2>1. CASE UNCHANGED con_queue
        BY <2>1
    <2>2. ASSUME NEW r \in Subs, NEW g \in Fds, NEW e \in Entries, e.fd = g, e.peer = q, e.new,
                 newConnections' = [newConnections EXCEPT ![r] = Append(@, e)],
                 con_queue' = [con_queue EXCEPT ![q] = <<g, r>>]
          PROVE  con_queue[p] = <<f, s>> \/ HeldBy(f, p, s)'
        <3>1. HeldBy(g, q, r)'
            BY <2>2, NewEntryHeld
        <3>2. CASE p = q
            <4>1. <<f, s>> = <<g, r>>
                BY <1>0, <2>2, <3>2
            <4>2. f = g /\ s = r
                BY <4>1
            <4> QED BY <3>1, <3>2, <4>2
        <3>3. CASE p # q
            BY <1>0, <2>2, <3>3
        <3> QED BY <3>2, <3>3
    <2> QED BY <1>1, <2>1, <2>2, Accepted
<1>2. CASE RunTask
    <2>1. con_queue' = con_queue \/ con_queue' = [con_queue EXCEPT ![Head(erases)] = <<>>]
        BY <1>2 DEF RunTask
    <2>2. <<f, s>> # <<>>
        OBVIOUS
    <2> QED BY <1>0, <2>1, <2>2
<1>3. ASSUME NEW r \in Subs, NEW k \in Slots, CheckDeleteSocket(r, k) \/ EventErr(r, k) PROVE UNCHANGED con_queue
    BY <1>3 DEF CheckDeleteSocket, EventErr, Handle
<1>4. ASSUME NEW r \in Subs, NEW C \in SUBSET Slots, TakeSlot(r, C) \/ AddFails(r, C) PROVE UNCHANGED con_queue
    BY <1>4 DEF TakeSlot, AddFails, Deal
<1> QED BY <1>1, <1>2, <1>3, <1>4, RouteFootprint

(* No descriptor is left without a holder. *)
LEMMA LeakStep ==
    ASSUME TypeOK, KernelInv, AddressInv, RoundInv, NamesLast, [Next]_vars, TypeOK', AddressInv'
    PROVE  NamesLast'
<1>1. ASSUME NEW f \in Fds, socketOf'[f] # NoPeer PROVE \E p, s : <<f, p, s>> \in Named'
    <2>1. CASE \E p \in Peers, s \in Subs : HeldBy(f, p, s)'
        BY <2>1, NamedIsHeldNext
    <2>2. CASE socketOf[f] # NoPeer /\ f \in {h[1] : h \in Named}
        <3>1. PICK h \in Named : h[1] = f
            BY <2>2
        <3>2. PICK g \in Fds, p \in Peers, s \in Subs : h = <<g, p, s>>
            BY NamedType
        <3>3. HeldBy(f, p, s)
            BY <3>1, <3>2, NamedIsHeld
        <3>4. HeldBy(f, p, s)'
            BY <1>1, <3>3, HolderStep
        <3> QED BY <3>4, NamedIsHeldNext
    <2>3. CASE socketOf[f] # NoPeer /\ f \in orphans
        BY <2>3 DEF KernelInv
    <2>4. socketOf[f] # NoPeer => f \in orphans \cup {h[1] : h \in Named}
        BY DEF NamesLast, Open
    <2> QED BY <1>1, <2>1, <2>2, <2>3, <2>4, OpenStep
<1>2. ASSUME NEW f \in Open' PROVE f \in orphans' \cup {h[1] : h \in Named'}
    <2>1. CASE f \in orphans'
        BY <2>1
    <2>2. CASE f \in Fds /\ socketOf'[f] # NoPeer
        <3>1. PICK p, s : <<f, p, s>> \in Named'
            BY <1>1, <2>2
        <3>2. <<f, p, s>>[1] = f
            OBVIOUS
        <3> QED BY <3>1, <3>2
    <2> QED BY <2>1, <2>2 DEF Open
<1> QED BY <1>2 DEF NamesLast

(* No route is left without a holder or an erase. *)
LEMMA StaleStep ==
    ASSUME TypeOK, AddressInv, RoundInv, NoStaleRoute, [Next]_vars, TypeOK'
    PROVE  NoStaleRoute'
<1> SUFFICES ASSUME NEW p \in Peers, con_queue'[p] # <<>>
             PROVE  \/ <<con_queue'[p][1], p, con_queue'[p][2]>> \in Named'
                    \/ \E i \in DOMAIN erases' : erases'[i] = p
    BY DEF NoStaleRoute
<1>0. PICK f \in Fds, s \in Subs : con_queue'[p] = <<f, s>>
    <2>1. con_queue'[p] \in Fds \X Subs
        BY DEF TypeOK, MainType
    <2> QED BY <2>1
<1>1. CASE HeldBy(f, p, s)'
    <2>1. <<f, p, s>> \in Named'
        BY <1>1, NamedIsHeldNext
    <2> QED BY <1>0, <2>1
<1>2. CASE con_queue[p] = <<f, s>>
    <2>1. CASE \E i \in DOMAIN erases : erases[i] = p
        BY <2>1, PendingStep
    <2>2. CASE <<f, p, s>> \in Named
        <3>1. HeldBy(f, p, s)
            BY <2>2, NamedIsHeld
        <3> QED BY <1>1, <3>1, HolderStep
    <2>3. con_queue[p] # <<>> /\ con_queue[p][1] = f /\ con_queue[p][2] = s
        BY <1>2
    <2> QED BY <2>1, <2>2, <2>3 DEF NoStaleRoute
<1> QED BY <1>0, <1>1, <1>2, RouteStep

-----------------------------------------------------------------------------
(* Every connection has its own socket and route *)

(* Three steps close a descriptor under its holder, and leave a mark. *)
LEMMA NoMark ==
    ASSUME ~dangling'
    PROVE  /\ \A s \in Subs : ~Refuse(s)
           /\ \A s \in Subs, k \in Slots : ~EventErr(s, k)
           /\ \A s \in Subs, C \in SUBSET Slots : ~AddFails(s, C)
BY DEF Refuse, EventErr, AddFails

(* The mark stays. *)
LEMMA MarkStays ==
    ASSUME [Next]_vars, ~dangling'
    PROVE  ~dangling
<1>1. CASE \E p \in Peers : ClientSend(p) \/ ForwardKnown(p) \/ AcceptNew(p) \/ NoDescriptor(p) \/ ConnectFails(p)
    BY <1>1 DEF ClientSend, ForwardKnown, Read, EndTurn, AcceptNew, NoDescriptor, ConnectFails, kernel, mainVars, slotVars, loopVars, history
<1>2. CASE (\E f \in Fds : SocketError(f)) \/ RunTask \/ NoDatagram \/ StopMain
    BY <1>2 DEF SocketError, RunTask, NoDatagram, EndTurn, StopMain, kernel, mainVars, slotVars, loopVars, history
<1>3. CASE \E s \in Subs, C \in SUBSET Slots : TakeSlot(s, C)
    BY <1>3 DEF TakeSlot, Deal, Occupy, kernel, mainVars, slotVars, loopVars, history
<1>4. ASSUME NEW s \in Subs, NEW C \in SUBSET Slots, AddFails(s, C) PROVE ~dangling
    BY <1>4, NoMark
<1>5. CASE \E s \in Subs : UseSlot(s) \/ ThrowData(s)
    BY <1>5 DEF UseSlot, Deal, ThrowData, kernel, mainVars, slotVars, loopVars, history
<1>6. ASSUME NEW s \in Subs, Refuse(s) PROVE ~dangling
    BY <1>6, NoMark
<1>7. CASE \E s \in Subs : Start(s) \/ EpollWait(s) \/ EndTimers(s) \/ EndNew(s) \/ EndEvents(s)
    BY <1>7 DEF Start, Goto, EpollWait, EndTimers, EndNew, EndEvents, kernel, mainVars, slotVars, loopVars, history
<1>8. CASE \E s \in Subs : EventOut(s) \/ StopWake(s) \/ StopSub(s) \/ JoinSub(s)
    BY <1>8 DEF EventOut, Handle, StopWake, StopSub, JoinSub, kernel, mainVars, slotVars, loopVars, history
<1>9. CASE \E s \in Subs, k \in Slots : CheckDeleteSocket(s, k) \/ EventIn(s, k)
    BY <1>9 DEF CheckDeleteSocket, EventIn, Handle, kernel, mainVars, slotVars, loopVars, history
<1>10. ASSUME NEW s \in Subs, NEW k \in Slots, EventErr(s, k) PROVE ~dangling
    BY <1>10, NoMark
<1>11. CASE (\E t \in tasks : SendResponse(t)) \/ UNCHANGED vars
    BY <1>11 DEF SendResponse, vars, kernel, mainVars, slotVars, loopVars, history
<1> QED BY <1>1, <1>2, <1>3, <1>4, <1>5, <1>6, <1>7, <1>8, <1>9, <1>10, <1>11 DEF Next

\* The steps that change holders, sockets or routes while nothing dangles.
LEMMA HolderFootprint ==
    ASSUME [Next]_vars, ~dangling'
    PROVE  \/ UNCHANGED <<socketOf, con_queue, erases, socket_fd, addr, newConnections>>
           \/ RunTask
           \/ \E p \in Peers : AcceptNew(p) \/ ForwardKnown(p) \/ ConnectFails(p)
           \/ \E s \in Subs : UseSlot(s) \/ JoinSub(s)
           \/ \E s \in Subs, k \in Slots : CheckDeleteSocket(s, k)
           \/ \E s \in Subs, C \in SUBSET Slots : TakeSlot(s, C)
BY SlotFootprint, SocketFootprint, QueueFootprint, RouteFootprint, NoMark DEF slotVars

(* A joined sub-reactor stays joined. *)
LEMMA JoinedStays ==
    ASSUME TypeOK, [Next]_vars, NEW s \in Subs, runState'[s] # "stopped"
    PROVE  runState[s] # "stopped"
<1>1. CASE UNCHANGED runState
    BY <1>1
<1>2. ASSUME NEW r \in Subs, Start(r) \/ StopWake(r) \/ StopSub(r) \/ JoinSub(r) PROVE runState[s] # "stopped"
    BY <1>2 DEF Start, StopWake, StopSub, JoinSub, TypeOK, SharedType
<1> QED BY <1>1, <1>2, StopFootprint

(* Closing the slots of C touches no other connection. *)
LEMMA Released ==
    ASSUME TypeOK, Own, NEW s \in Subs, NEW C \in SUBSET Slots, runState[s] # "stopped",
           \A j \in C : socket_fd[s][j] \in Fds /\ addr[s][j] \in Peers
    PROVE  /\ \A r \in Subs, j \in Slots : socket_fd[r][j] # NoFd /\ (r # s \/ j \notin C) =>
                 socket_fd[r][j] \notin FdsOf(s, C)
           /\ \A r \in Subs, i \in Nat : NewAt(r, i) => newConnections[r][i].fd \notin FdsOf(s, C)
           /\ \A r \in Subs : \A p, f : con_queue[p] = <<f, r>> /\ f \notin FdsOf(s, C)
                 /\ (\A i \in DOMAIN erases : erases[i] # p) =>
                     \A i \in DOMAIN (erases \o ErasesOf(s, C)) : (erases \o ErasesOf(s, C))[i] # p
           /\ \A i \in DOMAIN (erases \o ErasesOf(s, C)) : con_queue[(erases \o ErasesOf(s, C))[i]] # <<>>
           /\ \A i, j \in DOMAIN (erases \o ErasesOf(s, C)) :
                 (erases \o ErasesOf(s, C))[i] = (erases \o ErasesOf(s, C))[j] => i = j
<1> DEFINE E == ErasesOf(s, C)
           m == erases \o E
           n == Len(erases)
<1>1. FdsOf(s, C) = {socket_fd[s][j] : j \in C}
    BY DEF FdsOf
<1>2. ASSUME NEW r \in Subs, NEW j \in Slots, socket_fd[r][j] # NoFd, r # s \/ j \notin C
      PROVE  socket_fd[r][j] \notin FdsOf(s, C)
    BY <1>1, <1>2 DEF Own, SlotsApart
<1>3. ASSUME NEW r \in Subs, NEW i \in Nat, NewAt(r, i) PROVE newConnections[r][i].fd \notin FdsOf(s, C)
    BY <1>1, <1>3 DEF Own, SlotsEntriesApart
<1>4. \A j \in C : /\ con_queue[addr[s][j]] = <<socket_fd[s][j], s>>
                   /\ \A i \in DOMAIN erases : erases[i] # addr[s][j]
    <2>1. \A j \in C : j \in Slots /\ socket_fd[s][j] # NoFd
        BY SlotFacts
    <2> QED BY <2>1 DEF Own, SlotsBacked, Backed
<1>5. E \in Seq(Peers) /\ Len(E) = Cardinality(C)
      /\ \A i \in DOMAIN E : NthOf(C, i) \in C /\ E[i] = addr[s][NthOf(C, i)]
    BY ErasesFacts
<1>6. \A i, j \in DOMAIN E : NthOf(C, i) = NthOf(C, j) => i = j
    <2>1. DOMAIN E = 1 .. Cardinality(C)
        BY <1>5
    <2> QED BY <2>1, NthFacts
<1>7. erases \in Seq(Peers)
    BY DEF TypeOK, MainType
<1> HIDE DEF E
<1>8. /\ m \in Seq(Peers) /\ n \in Nat /\ DOMAIN erases = 1 .. n
      /\ \A i \in DOMAIN m : \/ i \in DOMAIN erases /\ m[i] = erases[i]
                             \/ i - n \in DOMAIN E /\ m[i] = E[i - n] /\ i \in Nat
    BY <1>5, <1>7
<1> HIDE DEF m
<1>9. ASSUME NEW r \in Subs, NEW p, NEW f, con_queue[p] = <<f, r>>, f \notin FdsOf(s, C),
             \A i \in DOMAIN erases : erases[i] # p, NEW i \in DOMAIN m
      PROVE  m[i] # p
    <2>1. CASE i \in DOMAIN erases /\ m[i] = erases[i]
        BY <1>9, <2>1
    <2>2. CASE i - n \in DOMAIN E /\ m[i] = E[i - n]
        <3>1. PICK j \in C : m[i] = addr[s][j]
            BY <1>5, <2>2
        <3>2. con_queue[m[i]] = <<socket_fd[s][j], s>> /\ socket_fd[s][j] \in FdsOf(s, C)
            BY <1>1, <1>4, <3>1
        <3>3. <<socket_fd[s][j], s>> # <<f, r>>
            BY <1>9, <3>2
        <3> QED BY <1>9, <3>2, <3>3
    <2> QED BY <1>8, <1>9, <2>1, <2>2
<1>10. ASSUME NEW i \in DOMAIN m PROVE con_queue[m[i]] # <<>>
    <2>1. CASE i \in DOMAIN erases /\ m[i] = erases[i]
        BY <2>1 DEF Own, ErasesApart
    <2>2. CASE i - n \in DOMAIN E /\ m[i] = E[i - n]
        <3>1. PICK j \in C : m[i] = addr[s][j]
            BY <1>5, <2>2
        <3>2. con_queue[m[i]] = <<socket_fd[s][j], s>>
            BY <1>4, <3>1
        <3>3. <<socket_fd[s][j], s>> # <<>>
            OBVIOUS
        <3> QED BY <3>2, <3>3
    <2> QED BY <1>8, <1>10, <2>1, <2>2
<1>11. ASSUME NEW i \in DOMAIN m, NEW j \in DOMAIN m, m[i] = m[j] PROVE i = j
    <2>1. CASE i \in DOMAIN erases /\ m[i] = erases[i] /\ j \in DOMAIN erases /\ m[j] = erases[j]
        BY <1>11, <2>1 DEF Own, ErasesApart
    <2>2. ASSUME NEW x \in DOMAIN m, NEW y \in DOMAIN m, x \in DOMAIN erases, m[x] = erases[x],
                 y - n \in DOMAIN E, m[y] = E[y - n]
          PROVE  m[x] # m[y]
        BY <1>4, <1>5, <2>2
    <2>3. CASE i - n \in DOMAIN E /\ m[i] = E[i - n] /\ j - n \in DOMAIN E /\ m[j] = E[j - n] /\ i \in Nat /\ j \in Nat
        <3> DEFINE a == NthOf(C, i - n)
                   b == NthOf(C, j - n)
        <3>1. a \in C /\ b \in C /\ addr[s][a] = addr[s][b]
            BY <1>5, <1>11, <2>3
        <3> HIDE DEF a, b
        <3>2. <<socket_fd[s][a], s>> = <<socket_fd[s][b], s>>
            BY <1>4, <3>1
        <3>3. socket_fd[s][a] = socket_fd[s][b] /\ socket_fd[s][a] # NoFd
            BY <3>1, <3>2, SlotFacts
        <3>4. a = b
            BY <3>1, <3>3 DEF Own, SlotsApart
        <3>5. i - n = j - n
            BY <1>6, <2>3, <3>4 DEF a, b
        <3> QED BY <1>8, <2>3, <3>5
    <2> QED BY <1>8, <1>11, <2>1, <2>2, <2>3
<1> QED BY <1>2, <1>3, <1>9, <1>10, <1>11 DEF m, E

\* The entries of a queue are entries.
LEMMA EntryAtType ==
    ASSUME TypeOK, NEW s \in Subs, NEW i \in Nat, NewAt(s, i)
    PROVE  newConnections[s][i].fd \in Fds /\ newConnections[s][i].peer \in Peers
<1>1. newConnections[s][i] \in Entries
    BY DEF NewAt, TypeOK, SharedType
<1> QED BY <1>1, Zenon DEF Entries

\* A step that touches no holder keeps the ownership.
LEMMA OwnKept ==
    ASSUME Own, UNCHANGED <<socketOf, con_queue, erases, socket_fd, addr, newConnections>>,
           \A s \in Subs : runState'[s] # "stopped" => runState[s] # "stopped"
    PROVE  Own'
<1>1. SlotsApart' /\ SlotsBacked'
    BY DEF Own, SlotsApart, SlotsBacked, Backed
<1>2. EntriesApart' /\ SlotsEntriesApart'
    BY DEF Own, EntriesApart, SlotsEntriesApart, NewAt
<1>3. EntriesBacked'
    BY DEF Own, EntriesBacked, Backed, NewAt
<1>4. ErasesApart'
    BY DEF Own, ErasesApart
<1> QED BY <1>1, <1>2, <1>3, <1>4 DEF Own

(* The timer of a silent connection closes what is its own. *)
LEMMA OwnClosed ==
    ASSUME TypeOK, AddressInv, StopInv, Own, NEW s \in Subs, NEW k \in Slots, CheckDeleteSocket(s, k)
    PROVE  Own'
<1>0. UNCHANGED <<newConnections, con_queue, runState, addr>> /\ runState[s] # "stopped"
    BY DEF CheckDeleteSocket, StopInv
<1>1. CASE UNCHANGED <<socketOf, erases, socket_fd>>
    BY <1>0, <1>1, OwnKept
<1>2. CASE /\ socket_fd[s][k] # NoFd /\ Close(FdsOf(s, {k}))
           /\ erases' = erases \o ErasesOf(s, {k})
           /\ socket_fd' = [socket_fd EXCEPT ![s][k] = NoFd]
    <2>1. socket_fd[s][k] \in Fds /\ addr[s][k] \in Peers
        BY <1>2 DEF TypeOK, SlotType, AddressInv
    <2>2. \A r \in Subs, j \in Slots : socket_fd'[r][j] # NoFd =>
              socket_fd'[r][j] = socket_fd[r][j] /\ (r # s \/ j \notin {k})
        BY <1>2 DEF TypeOK, SlotType
    <2> HIDE <1>2
    <2>3. \A r \in Subs, j \in Slots : socket_fd'[r][j] # NoFd => socket_fd[r][j] \notin FdsOf(s, {k})
        BY <1>0, <2>1, <2>2, Released
    <2>4. \A r \in Subs, i \in Nat : NewAt(r, i) => newConnections[r][i].fd \notin FdsOf(s, {k})
        BY <1>0, <2>1, Released
    <2>5. \A f \in Fds : f \notin FdsOf(s, {k}) => socketOf'[f] = socketOf[f]
        BY <1>2 DEF Close
    <2>6. \A r \in Subs : \A p, f : con_queue[p] = <<f, r>> /\ f \notin FdsOf(s, {k})
              /\ (\A i \in DOMAIN erases : erases[i] # p) => \A i \in DOMAIN erases' : erases'[i] # p
        BY <1>0, <1>2, <2>1, Released
    <2>7. ErasesApart'
        <3>1. \A i \in DOMAIN erases' : con_queue'[erases'[i]] # <<>>
            BY <1>0, <1>2, <2>1, Released
        <3>2. \A i, j \in DOMAIN erases' : erases'[i] = erases'[j] => i = j
            BY <1>0, <1>2, <2>1, Released
        <3> QED BY <3>1, <3>2 DEF ErasesApart
    <2>8. SlotsApart' /\ EntriesApart' /\ SlotsEntriesApart'
        <3>1. SlotsApart'
            BY <2>2 DEF Own, SlotsApart
        <3>2. EntriesApart'
            BY <1>0 DEF Own, EntriesApart, NewAt
        <3>3. ASSUME NEW q \in Subs, NEW r \in Subs, NEW j \in Slots, NEW i \in Nat, NewAt(r, i)
              PROVE  socket_fd'[q][j] # newConnections[r][i].fd
            <4>1. newConnections[r][i].fd # NoFd /\ socket_fd[q][j] # newConnections[r][i].fd
                BY <3>3, EntryAtType, SlotFacts DEF Own, SlotsEntriesApart
            <4> QED BY <2>2, <4>1
        <3>4. SlotsEntriesApart'
            BY <1>0, <3>3 DEF SlotsEntriesApart, NewAt
        <3> QED BY <3>1, <3>2, <3>4
    <2>9. ASSUME NEW r \in Subs, NEW f \in Fds, NEW p, Backed(f, p, r), f \notin FdsOf(s, {k}) PROVE Backed(f, p, r)'
        BY <1>0, <2>5, <2>6, <2>9 DEF Backed
    <2>10. SlotsBacked'
        <3>1. ASSUME NEW r \in Subs, NEW j \in Slots, NEW f, NEW p, f = socket_fd'[r][j], p = addr'[r][j], f # NoFd
              PROVE  Backed(f, p, r)'
            <4>1. f = socket_fd[r][j] /\ p = addr[r][j] /\ f \notin FdsOf(s, {k})
                BY <1>0, <2>2, <2>3, <3>1
            <4>2. f \in Fds
                BY <3>1, <4>1 DEF TypeOK, SlotType
            <4> QED BY <2>9, <3>1, <4>1, <4>2 DEF Own, SlotsBacked
        <3> QED BY <3>1 DEF SlotsBacked, Backed
    <2>11. EntriesBacked'
        <3>1. ASSUME NEW r \in Subs, NEW i \in Nat, NewAt(r, i), NEW e, e = newConnections[r][i]
              PROVE  Backed(e.fd, e.peer, r)'
            <4>1. e.fd \in Fds
                BY <3>1, EntryAtType
            <4> QED BY <2>4, <2>9, <3>1, <4>1 DEF Own, EntriesBacked
        <3> QED BY <1>0, <3>1 DEF EntriesBacked, Backed, NewAt
    <2> QED BY <2>7, <2>8, <2>10, <2>11 DEF Own
<1> QED BY <1>1, <1>2, CheckDeleteCases

(* A new connection takes over the descriptor of its entry, and the slots  *)
(* cleared for it close what is their own.                                 *)
LEMMA OwnTaken ==
    ASSUME TypeOK, AddressInv, RoundInv, StopInv, Own, NEW s \in Subs, NEW C \in SUBSET Slots, TakeSlot(s, C)
    PROVE  Own'
<1>0. UNCHANGED <<con_queue, runState>> /\ runState[s] # "stopped" /\ Deal(s) /\ Pop(s) /\ Close(FdsOf(s, C))
    BY DEF TakeSlot, Deal, StopInv
<1>1. PICK k \in Slots :
          /\ k \in C \/ socket_fd[s][k] = NoFd
          /\ \A j \in C : socket_fd[s][j] \in Fds /\ addr[s][j] \in Peers
          /\ Entry(s).new /\ Entry(s) = newConnections[s][1] /\ Len(newConnections[s]) > 0
          /\ socket_fd'[s][k] = Entry(s).fd /\ addr'[s][k] = Entry(s).peer
          /\ \A j \in Slots \ {k} : socket_fd'[s][j] = IF j \in C THEN NoFd ELSE socket_fd[s][j]
          /\ \A j \in Slots \ {k} : addr'[s][j] = addr[s][j]
          /\ \A r \in Subs \ {s} : socket_fd'[r] = socket_fd[r] /\ addr'[r] = addr[r]
          /\ erases' = erases \o ErasesOf(s, C)
    BY Occupied
<1>2. NewAt(s, 1) /\ newConnections[s][1].fd \in Fds
    <2>1. Len(newConnections[s]) \in Nat
        BY DEF TypeOK, SharedType
    <2>2. NewAt(s, 1)
        BY <1>1, <2>1 DEF NewAt
    <2> QED BY <2>2, EntryAtType
<1>3. PICK e : e = newConnections[s][1]
    OBVIOUS
<1>4. ASSUME NEW r \in Subs, NEW j \in Slots, socket_fd'[r][j] # NoFd
      PROVE  \/ r = s /\ j = k /\ socket_fd'[r][j] = e.fd /\ addr'[r][j] = e.peer
             \/ /\ socket_fd'[r][j] = socket_fd[r][j] /\ addr'[r][j] = addr[r][j]
                /\ r # s \/ j \notin C
    BY <1>1, <1>3, <1>4
<1>5. ASSUME NEW r \in Subs, NEW i \in Nat, NewAt(r, i)'
      PROVE  \E j \in Nat : /\ NewAt(r, j) /\ newConnections'[r][i] = newConnections[r][j]
                            /\ IF r = s THEN j = i + 1 /\ i >= 1 ELSE j = i
    <2>1. CASE r = s
        BY <1>0, <1>5, <2>1, Popped
    <2>2. CASE r # s
        <3>1. newConnections'[r] = newConnections[r]
            BY <1>0, <2>2, Popped
        <3> QED BY <1>5, <2>2, <3>1 DEF NewAt
    <2> QED BY <2>1, <2>2
<1>6. SlotsApart'
    <2>1. \A q \in Subs, j \in Slots : socket_fd[q][j] # e.fd
        BY <1>2, <1>3 DEF Own, SlotsEntriesApart
    <2>2. ASSUME NEW q \in Subs, NEW r \in Subs, NEW i \in Slots, NEW j \in Slots,
                 socket_fd'[q][i] # NoFd, socket_fd'[q][i] = socket_fd'[r][j]
          PROVE  q = r /\ i = j
        <3>1. CASE q = s /\ i = k /\ socket_fd'[q][i] = e.fd
            BY <1>4, <2>1, <2>2, <3>1
        <3>2. CASE socket_fd'[q][i] = socket_fd[q][i]
            <4>1. socket_fd'[r][j] = e.fd \/ socket_fd'[r][j] = socket_fd[r][j]
                <5>1. socket_fd'[r][j] # NoFd
                    BY <2>2
                <5> QED BY <1>4, <5>1
            <4>2. socket_fd[q][i] # NoFd /\ socket_fd[q][i] = socket_fd[r][j]
                BY <2>1, <2>2, <3>2, <4>1
            <4>3. SlotsApart
                BY DEF Own
            <4> QED BY <4>2, <4>3 DEF SlotsApart
        <3> QED BY <1>4, <2>2, <3>1, <3>2
    <2> QED BY <2>2 DEF SlotsApart
<1>7. EntriesApart'
    <2>1. ASSUME NEW q \in Subs, NEW r \in Subs, NEW i \in Nat, NEW j \in Nat, NewAt(q, i)', NewAt(r, j)',
                 newConnections'[q][i].fd = newConnections'[r][j].fd
          PROVE  q = r /\ i = j
        <3>1. PICK a \in Nat : /\ NewAt(q, a) /\ newConnections'[q][i] = newConnections[q][a]
                               /\ IF q = s THEN a = i + 1 /\ i >= 1 ELSE a = i
            BY <1>5, <2>1
        <3>2. PICK b \in Nat : /\ NewAt(r, b) /\ newConnections'[r][j] = newConnections[r][b]
                               /\ IF r = s THEN b = j + 1 /\ j >= 1 ELSE b = j
            BY <1>5, <2>1
        <3>3. q = r /\ a = b
            BY <2>1, <3>1, <3>2 DEF Own, EntriesApart
        <3> QED BY <3>1, <3>2, <3>3
    <2> QED BY <2>1 DEF EntriesApart
<1>8. SlotsEntriesApart'
    <2>1. ASSUME NEW q \in Subs, NEW r \in Subs, NEW j \in Slots, NEW i \in Nat, NewAt(r, i)'
          PROVE  socket_fd'[q][j] # newConnections'[r][i].fd
        <3>1. PICK a \in Nat : /\ NewAt(r, a) /\ newConnections'[r][i] = newConnections[r][a]
                               /\ IF r = s THEN a = i + 1 /\ i >= 1 ELSE a = i
            BY <1>5, <2>1
        <3>2. newConnections[r][a].fd # NoFd
            BY <3>1, EntryAtType, SlotFacts
        <3>3. socket_fd[q][j] # newConnections[r][a].fd
            BY <3>1 DEF Own, SlotsEntriesApart
        <3>4. newConnections[r][a].fd # e.fd
            <4>1. ~(r = s /\ a = 1)
                BY <3>1
            <4> QED BY <1>2, <1>3, <3>1, <4>1 DEF Own, EntriesApart
        <3> QED BY <1>4, <3>1, <3>2, <3>3, <3>4
    <2> QED BY <2>1 DEF SlotsEntriesApart
<1>9. /\ \A r \in Subs, j \in Slots : socket_fd[r][j] # NoFd /\ (r # s \/ j \notin C) =>
             socket_fd[r][j] \notin FdsOf(s, C)
      /\ \A r \in Subs, i \in Nat : NewAt(r, i) => newConnections[r][i].fd \notin FdsOf(s, C)
    BY <1>0, <1>1, Released
<1>10. ErasesApart'
    <2>1. \A i \in DOMAIN erases' : con_queue'[erases'[i]] # <<>>
        BY <1>0, <1>1, Released
    <2>2. \A i, j \in DOMAIN erases' : erases'[i] = erases'[j] => i = j
        BY <1>0, <1>1, Released
    <2> QED BY <2>1, <2>2 DEF ErasesApart
<1>11. \A r \in Subs : \A p, f : con_queue[p] = <<f, r>> /\ f \notin FdsOf(s, C)
              /\ (\A i \in DOMAIN erases : erases[i] # p) => \A i \in DOMAIN erases' : erases'[i] # p
    <2>1. erases' = erases \o ErasesOf(s, C) /\ \A j \in C : socket_fd[s][j] \in Fds /\ addr[s][j] \in Peers
        BY <1>1
    <2> QED BY <1>0, <2>1, Released
<1>12. ASSUME NEW r \in Subs, NEW f \in Fds, NEW p, Backed(f, p, r), f \notin FdsOf(s, C) PROVE Backed(f, p, r)'
    <2>1. socketOf'[f] = socketOf[f]
        BY <1>0, <1>12 DEF Close
    <2> QED BY <1>0, <1>12, <1>11, <2>1 DEF Backed
<1>13. ASSUME NEW r \in Subs, NEW i \in Nat, NewAt(r, i), NEW x, x = newConnections[r][i] PROVE Backed(x.fd, x.peer, r)'
    <2>1. x.fd \in Fds /\ x.fd \notin FdsOf(s, C) /\ Backed(x.fd, x.peer, r)
        BY <1>9, <1>13, EntryAtType DEF Own, EntriesBacked
    <2> QED BY <1>12, <2>1
<1>14. SlotsBacked'
    <2>1. ASSUME NEW r \in Subs, NEW j \in Slots, NEW f, NEW p, f = socket_fd'[r][j], p = addr'[r][j], f # NoFd
          PROVE  Backed(f, p, r)'
        <3>1. CASE r = s /\ f = e.fd /\ p = e.peer
            BY <1>2, <1>3, <1>13, <3>1
        <3>2. CASE f = socket_fd[r][j] /\ p = addr[r][j] /\ (r # s \/ j \notin C)
            <4>1. f \in Fds /\ f \notin FdsOf(s, C) /\ Backed(f, p, r)
                BY <1>9, <2>1, <3>2 DEF Own, SlotsBacked, TypeOK, SlotType
            <4> QED BY <1>12, <4>1
        <3> QED BY <1>4, <2>1, <3>1, <3>2
    <2> QED BY <2>1 DEF SlotsBacked, Backed
<1>15. EntriesBacked'
    <2>1. ASSUME NEW r \in Subs, NEW i \in Nat, NewAt(r, i)', NEW x, x = newConnections'[r][i]
          PROVE  Backed(x.fd, x.peer, r)'
        BY <1>5, <1>13, <2>1
    <2>2. ASSUME NEW r \in Subs, NEW i \in Nat, NewAt(r, i)'
          PROVE  Backed(newConnections[r][i].fd, newConnections[r][i].peer, r)'
        <3>1. PICK x : x = newConnections'[r][i]
            OBVIOUS
        <3>2. Backed(x.fd, x.peer, r)'
            BY <2>1, <2>2, <3>1
        <3> QED BY ONLY <3>1, <3>2 DEF Backed
    <2> QED BY ONLY <2>2 DEF EntriesBacked
<1> QED BY <1>6, <1>7, <1>8, <1>10, <1>14, <1>15 DEF Own

(* A packet leaves a queue, or the packet of a known client enters one:    *)
(* the new connections are the same.                                       *)
LEMMA OwnSame ==
    ASSUME TypeOK, Own, UNCHANGED <<socketOf, con_queue, erases, socket_fd, addr, runState>>, NEW s \in Subs, NEW d \in Int,
           \A r \in Subs, i \in Nat : NewAt(r, i)' =>
               \E j \in Nat : /\ NewAt(r, j) /\ newConnections'[r][i] = newConnections[r][j]
                              /\ IF r = s THEN j = i + d ELSE j = i
    PROVE  Own'
<1>1. SlotsApart' /\ SlotsBacked' /\ ErasesApart'
    BY DEF Own, SlotsApart, SlotsBacked, Backed, ErasesApart
<1>2. EntriesApart'
    <2>1. ASSUME NEW q \in Subs, NEW r \in Subs, NEW i \in Nat, NEW j \in Nat, NewAt(q, i)', NewAt(r, j)',
                 newConnections'[q][i].fd = newConnections'[r][j].fd
          PROVE  q = r /\ i = j
        <3>1. PICK a \in Nat : /\ NewAt(q, a) /\ newConnections'[q][i] = newConnections[q][a]
                               /\ IF q = s THEN a = i + d ELSE a = i
            BY <2>1
        <3>2. PICK b \in Nat : /\ NewAt(r, b) /\ newConnections'[r][j] = newConnections[r][b]
                               /\ IF r = s THEN b = j + d ELSE b = j
            BY <2>1
        <3>3. q = r /\ a = b
            BY <2>1, <3>1, <3>2 DEF Own, EntriesApart
        <3> QED BY <3>1, <3>2, <3>3
    <2> QED BY <2>1 DEF EntriesApart
<1>3. SlotsEntriesApart'
    <2>1. ASSUME NEW q \in Subs, NEW r \in Subs, NEW j \in Slots, NEW i \in Nat, NewAt(r, i)'
          PROVE  socket_fd'[q][j] # newConnections'[r][i].fd
        BY <2>1 DEF Own, SlotsEntriesApart
    <2> QED BY <2>1 DEF SlotsEntriesApart
<1>4. EntriesBacked'
    <2>1. ASSUME NEW r \in Subs, NEW i \in Nat, NewAt(r, i)', NEW x, x = newConnections'[r][i]
          PROVE  Backed(x.fd, x.peer, r)'
        <3>1. Backed(x.fd, x.peer, r)
            BY <2>1 DEF Own, EntriesBacked
        <3> QED BY <3>1 DEF Backed
    <2> SUFFICES ASSUME NEW r \in Subs, NEW i \in Nat, NewAt(r, i)'
                 PROVE  Backed(newConnections[r][i].fd, newConnections[r][i].peer, r)'
        BY DEF EntriesBacked
    <2>2. PICK x : x = newConnections'[r][i]
        OBVIOUS
    <2>3. Backed(x.fd, x.peer, r)'
        BY <2>1, <2>2
    <2> QED BY <2>2, <2>3 DEF Backed
<1> QED BY <1>1, <1>2, <1>3, <1>4 DEF Own

\* A packet for a slot in use leaves the queue: the ownership stays.
LEMMA OwnUsed ==
    ASSUME TypeOK, RoundInv, Own, NEW s \in Subs, UseSlot(s)
    PROVE  Own'
<1>1. UNCHANGED <<socketOf, con_queue, erases, socket_fd, addr, runState>> /\ Deal(s) /\ Pop(s)
    BY DEF UseSlot, Deal, kernel, slotVars
<1>2. ASSUME NEW r \in Subs, NEW i \in Nat, NewAt(r, i)'
      PROVE  \E j \in Nat : /\ NewAt(r, j) /\ newConnections'[r][i] = newConnections[r][j]
                            /\ IF r = s THEN j = i + 1 ELSE j = i
    <2>1. CASE r = s
        BY <1>1, <1>2, <2>1, Popped
    <2>2. CASE r # s
        <3>1. newConnections'[r] = newConnections[r]
            BY <1>1, <2>2, Popped
        <3> QED BY <1>2, <2>2, <3>1 DEF NewAt
    <2> QED BY <2>1, <2>2
<1>3. 1 \in Int
    OBVIOUS
<1> QED BY <1>1, <1>2, <1>3, OwnSame

\* Forwarding a packet to a known connection keeps it.
LEMMA OwnForwarded ==
    ASSUME TypeOK, Own, NEW p \in Peers, ForwardKnown(p)
    PROVE  Own'
<1>1. UNCHANGED <<socketOf, con_queue, erases, socket_fd, addr, runState>>
    BY DEF ForwardKnown, slotVars
<1>2. CASE UNCHANGED newConnections
    BY <1>1, <1>2, OwnKept
<1>3. ASSUME NEW s \in Subs, NEW e \in Entries, ~e.new, newConnections' = [newConnections EXCEPT ![s] = Append(@, e)]
      PROVE  Own'
    <2>1. ASSUME NEW r \in Subs, NEW i \in Nat, NewAt(r, i)'
          PROVE  \E j \in Nat : /\ NewAt(r, j) /\ newConnections'[r][i] = newConnections[r][j]
                                /\ IF r = s THEN j = i + 0 ELSE j = i
        <3>1. CASE r = s
            <4>0. NewAt(s, i)' => \/ i = Len(newConnections[s]) + 1 /\ e.new
                                  \/ NewAt(s, i) /\ newConnections'[s][i] = newConnections[s][i]
                BY <1>3, Appended
            <4>1. NewAt(r, i) /\ newConnections'[r][i] = newConnections[r][i]
                BY ONLY <1>3, <2>1, <3>1, <4>0
            <4> QED BY <3>1, <4>1
        <3>2. CASE r # s
            <4>1. newConnections'[r] = newConnections[r]
                BY <1>3, <3>2, Appended
            <4> QED BY <2>1, <3>2, <4>1 DEF NewAt
        <3> QED BY <3>1, <3>2
    <2>2. 0 \in Int
        OBVIOUS
    <2> QED BY <1>1, <2>1, <2>2, OwnSame
<1> QED BY <1>2, <1>3, Forwarded

(* When the holders stay and each one's backing does, all is well. *)
LEMMA OwnBacked ==
    ASSUME TypeOK, AddressInv, Own, UNCHANGED <<socket_fd, addr, newConnections>>, ErasesApart',
           \A f, p, s : f \in Fds /\ p \in Peers /\ s \in Subs /\ Backed(f, p, s)
                        /\ ((\E k \in Slots : socket_fd[s][k] = f) \/ (\E i \in Nat : NewAt(s, i) /\ newConnections[s][i].fd = f))
                        => Backed(f, p, s)'
    PROVE  Own'
<1>1. SlotsApart' /\ EntriesApart' /\ SlotsEntriesApart'
    <2>1. SlotsApart'
        BY DEF Own, SlotsApart
    <2>2. EntriesApart' /\ SlotsEntriesApart'
        BY DEF Own, EntriesApart, SlotsEntriesApart, NewAt
    <2> QED BY <2>1, <2>2
<1>2. SlotsBacked'
    <2> SUFFICES ASSUME NEW s \in Subs, NEW k \in Slots, socket_fd[s][k] # NoFd
                 PROVE  Backed(socket_fd[s][k], addr[s][k], s)'
        BY DEF SlotsBacked
    <2>1. PICK f, p : f = socket_fd[s][k] /\ p = addr[s][k]
        OBVIOUS
    <2>2. f \in Fds /\ p \in Peers
        BY <2>1 DEF TypeOK, SlotType, AddressInv
    <2>3. Backed(f, p, s)'
        BY <2>1, <2>2 DEF Own, SlotsBacked
    <2> QED BY <2>1, <2>3 DEF Backed
<1>3. EntriesBacked'
    <2> SUFFICES ASSUME NEW s \in Subs, NEW i \in Nat, NewAt(s, i)
                 PROVE  Backed(newConnections[s][i].fd, newConnections[s][i].peer, s)'
        BY DEF EntriesBacked, NewAt
    <2>1. PICK f, p : f = newConnections[s][i].fd /\ p = newConnections[s][i].peer
        OBVIOUS
    <2>2. f \in Fds /\ p \in Peers
        BY <2>1, EntryAtType
    <2>3. Backed(f, p, s)'
        BY <2>1, <2>2 DEF Own, EntriesBacked
    <2> QED BY <2>1, <2>3 DEF Backed
<1> QED BY <1>1, <1>2, <1>3 DEF Own

(* The main reactor erases a route that no connection uses. *)
LEMMA OwnErased ==
    ASSUME TypeOK, AddressInv, Own, RunTask
    PROVE  Own'
<1>0. UNCHANGED <<socketOf, socket_fd, addr, runState, newConnections>>
    BY DEF RunTask, kernel, slotVars
<1>1. CASE UNCHANGED <<con_queue, erases>>
    BY <1>0, <1>1, OwnKept
<1>2. CASE erases # <<>> /\ con_queue' = [con_queue EXCEPT ![Head(erases)] = <<>>] /\ erases' = Tail(erases)
    <2>1. erases \in Seq(Peers) /\ con_queue \in [Peers -> {<<>>} \cup (Fds \X Subs)]
        BY DEF TypeOK, MainType
    <2>2. /\ Head(erases) = erases[1] /\ 1 \in DOMAIN erases /\ erases[1] \in Peers
          /\ \A i \in DOMAIN erases' : /\ i + 1 \in DOMAIN erases /\ i \in Nat /\ i >= 1
                                       /\ erases'[i] = erases[i + 1] /\ erases[i + 1] \in Peers
        BY <1>2, <2>1
    <2>3. \A p \in Peers : p # erases[1] => con_queue'[p] = con_queue[p]
        BY <1>2, <2>1, <2>2
    <2> HIDE <1>2
    <2>4. ASSUME NEW i \in DOMAIN erases' PROVE con_queue'[erases'[i]] # <<>>
        <3>1. erases[i + 1] # erases[1]
            <4>1. i + 1 # 1
                BY <2>2
            <4> QED BY <2>2, <4>1 DEF Own, ErasesApart
        <3> QED BY <2>2, <2>3, <3>1 DEF Own, ErasesApart
    <2>5. ASSUME NEW i \in DOMAIN erases', NEW j \in DOMAIN erases', erases'[i] = erases'[j] PROVE i = j
        <3>1. i + 1 = j + 1
            BY <2>2, <2>5 DEF Own, ErasesApart
        <3> QED BY <2>2, <3>1
    <2>6. ASSUME NEW f, NEW p \in Peers, NEW s \in Subs, Backed(f, p, s) PROVE Backed(f, p, s)'
        <3>1. ASSUME \A i \in DOMAIN erases : erases[i] # p
              PROVE  con_queue'[p] = con_queue[p] /\ \A i \in DOMAIN erases' : erases'[i] # p
            BY <2>2, <2>3, <3>1
        <3> QED BY <1>0, <2>6, <3>1 DEF Backed
    <2>7. ErasesApart'
        BY <2>4, <2>5 DEF ErasesApart
    <2> QED BY <1>0, <2>6, <2>7, OwnBacked
<1> QED BY <1>1, <1>2 DEF RunTask

(* Closing the slots of a joined sub-reactor touches no other one. *)
LEMMA OwnJoined ==
    ASSUME TypeOK, AddressInv, Own, NEW q \in Subs, JoinSub(q)
    PROVE  Own'
<1>0. /\ UNCHANGED <<con_queue, erases, socket_fd, addr, newConnections>>
      /\ Close(FdsOf(q, Slots)) /\ runState' = [runState EXCEPT ![q] = "stopped"]
    BY DEF JoinSub, mainVars, slotVars
<1>1. ErasesApart'
    BY <1>0 DEF Own, ErasesApart
<1>2. ASSUME NEW f \in Fds, NEW p \in Peers, NEW s \in Subs, Backed(f, p, s),
             (\E k \in Slots : socket_fd[s][k] = f) \/ (\E i \in Nat : NewAt(s, i) /\ newConnections[s][i].fd = f)
      PROVE  Backed(f, p, s)'
    <2>1. CASE s = q
        BY <1>0, <2>1 DEF Backed, TypeOK, SharedType
    <2>2. CASE s # q
        <3>1. f \notin FdsOf(q, Slots)
            <4>1. ASSUME NEW j \in Slots PROVE socket_fd[q][j] # f
                BY <1>2, <2>2, SlotFacts DEF Own, SlotsApart, SlotsEntriesApart
            <4> QED BY <4>1 DEF FdsOf
        <3>2. socketOf'[f] = socketOf[f]
            BY <1>0, <3>1 DEF Close
        <3>3. runState'[s] = runState[s]
            BY <1>0, <2>2 DEF TypeOK, SharedType
        <3> QED BY <1>0, <1>2, <3>2, <3>3 DEF Backed
    <2> QED BY <2>1, <2>2
<1> QED BY <1>0, <1>1, <1>2, OwnBacked

(* A new client gets a descriptor, a route and an entry nobody else has. *)
LEMMA OwnAccepted ==
    ASSUME TypeOK, AddressInv, StopInv, Own, NEW p \in Peers, AcceptNew(p)
    PROVE  Own'
<1>0. UNCHANGED <<erases, socket_fd, addr, runState>> /\ mainPc = "recv" /\ con_queue[p] = <<>>
    BY Accepted DEF AcceptNew
<1>1. CASE UNCHANGED <<socketOf, con_queue, newConnections>>
    BY <1>0, <1>1, OwnKept
<1>2. ASSUME NEW s \in Subs, NEW f \in Fds, NEW e \in Entries, f \notin Open, e.fd = f, e.peer = p, e.new,
             newConnections' = [newConnections EXCEPT ![s] = Append(@, e)],
             socketOf' = [socketOf EXCEPT ![f] = p],
             con_queue' = [con_queue EXCEPT ![p] = <<f, s>>]
      PROVE  Own'
    <2>0. e.fd = f /\ e.peer = p
        BY <1>2
    <2>1. \A r \in Subs : runState[r] # "stopped"
        BY <1>0 DEF StopInv
    <2>2. socketOf[f] = NoPeer /\ NoPeer \notin Peers
        BY <1>2, ConnectionsAssumption DEF Open
    <2>3. \A r \in Subs, j \in Slots : socket_fd[r][j] # f
        <3>1. ASSUME NEW r \in Subs, NEW j \in Slots, socket_fd[r][j] # NoFd PROVE socketOf[socket_fd[r][j]] \in Peers
            BY <2>1, <3>1 DEF Own, SlotsBacked, Backed, AddressInv
        <3> QED BY <2>2, <3>1, SlotFacts
    <2>4. \A r \in Subs, i \in Nat : NewAt(r, i) => newConnections[r][i].fd # f
        <3>1. ASSUME NEW r \in Subs, NEW i \in Nat, NewAt(r, i) PROVE socketOf[newConnections[r][i].fd] \in Peers
            <4>1. newConnections[r][i].peer \in Peers
                BY <3>1, EntryAtType
            <4> QED BY <2>1, <3>1, <4>1 DEF Own, EntriesBacked, Backed
        <3> QED BY <2>2, <3>1
    <2>5. ASSUME NEW r \in Subs, NEW i \in Nat, NewAt(r, i)'
          PROVE  \/ r = s /\ i = Len(newConnections[s]) + 1 /\ newConnections'[r][i] = e
                 \/ NewAt(r, i) /\ newConnections'[r][i] = newConnections[r][i]
        <3>0. newConnections' = [newConnections EXCEPT ![s] = Append(@, e)]
            BY <1>2
        <3>1. CASE r = s
            <4>1. newConnections'[s][Len(newConnections[s]) + 1] = e
                BY <3>0, Appended
            <4>2. i = Len(newConnections[s]) + 1 \/ (NewAt(s, i) /\ newConnections'[s][i] = newConnections[s][i])
                BY <2>5, <3>0, <3>1, Appended
            <4> QED BY <3>1, <4>1, <4>2
        <3>2. CASE r # s
            <4>1. newConnections'[r] = newConnections[r]
                BY <1>2, <3>2, Appended
            <4> QED BY <2>5, <4>1 DEF NewAt
        <3> QED BY <3>1, <3>2
    <2>6. SlotsApart'
        BY <1>0 DEF Own, SlotsApart
    <2>7. EntriesApart'
        <3>1. ASSUME NEW q \in Subs, NEW r \in Subs, NEW i \in Nat, NEW j \in Nat, NewAt(q, i)', NewAt(r, j)',
                     newConnections'[q][i].fd = newConnections'[r][j].fd
              PROVE  q = r /\ i = j
            <4>1. CASE q = s /\ i = Len(newConnections[s]) + 1 /\ newConnections'[q][i] = e
                <5>1. newConnections'[q][i].fd = f
                    BY <2>0, <4>1
                <5> QED BY <2>4, <2>5, <3>1, <4>1, <5>1
            <4>2. CASE NewAt(q, i) /\ newConnections'[q][i] = newConnections[q][i]
                <5>1. NewAt(r, j) /\ newConnections'[r][j] = newConnections[r][j]
                    <6>1. newConnections'[r][j].fd # f
                        BY <2>4, <3>1, <4>2
                    <6> QED BY <2>0, <2>5, <3>1, <6>1
                <5> QED BY <3>1, <4>2, <5>1 DEF Own, EntriesApart
            <4> QED BY <2>5, <3>1, <4>1, <4>2
        <3> QED BY <3>1 DEF EntriesApart
    <2>8. SlotsEntriesApart'
        <3>1. ASSUME NEW q \in Subs, NEW r \in Subs, NEW j \in Slots, NEW i \in Nat, NewAt(r, i)'
              PROVE  socket_fd'[q][j] # newConnections'[r][i].fd
            <4>1. CASE newConnections'[r][i] = e
                BY <1>0, <2>0, <2>3, <4>1
            <4>2. CASE NewAt(r, i) /\ newConnections'[r][i] = newConnections[r][i]
                BY <1>0, <4>2 DEF Own, SlotsEntriesApart
            <4> QED BY <2>5, <3>1, <4>1, <4>2
        <3> QED BY <3>1 DEF SlotsEntriesApart
    <2>9. con_queue \in [Peers -> {<<>>} \cup (Fds \X Subs)] /\ socketOf \in [Fds -> Peers \cup {NoPeer}]
        BY DEF TypeOK, MainType, KernelType
    <2>10. ErasesApart'
        <3>1. \A q \in Peers : con_queue[q] # <<>> => con_queue'[q] = con_queue[q]
            BY <1>0, <1>2, <2>9
        <3>2. \A i \in DOMAIN erases : erases[i] \in Peers
            BY DEF TypeOK, MainType
        <3> QED BY <1>0, <3>1, <3>2 DEF Own, ErasesApart
    <2>11. ASSUME NEW g \in Fds, NEW q \in Peers, NEW r \in Subs, Backed(g, q, r), g # f PROVE Backed(g, q, r)'
        <3>1. socketOf[g] = q /\ con_queue[q] = <<g, r>> /\ \A i \in DOMAIN erases : erases[i] # q
            BY <2>1, <2>11 DEF Backed
        <3>2. q # p
            <4>1. <<g, r>> # <<>>
                OBVIOUS
            <4> QED BY <1>0, <3>1, <4>1
        <3>3. socketOf'[g] = q /\ con_queue'[q] = <<g, r>>
            BY <1>2, <2>9, <2>11, <3>1, <3>2
        <3> QED BY <1>0, <3>1, <3>3 DEF Backed
    <2>12. Backed(f, p, s)'
        <3>1. socketOf'[f] = p /\ con_queue'[p] = <<f, s>>
            BY <1>2, <2>9
        <3>2. \A i \in DOMAIN erases : erases[i] # p
            BY <1>0 DEF Own, ErasesApart
        <3> QED BY <1>0, <3>1, <3>2 DEF Backed
    <2>13. SlotsBacked'
        <3> SUFFICES ASSUME NEW r \in Subs, NEW k \in Slots, socket_fd[r][k] # NoFd
                     PROVE  Backed(socket_fd[r][k], addr[r][k], r)'
            BY <1>0 DEF SlotsBacked
        <3>1. PICK g, q : g = socket_fd[r][k] /\ q = addr[r][k]
            OBVIOUS
        <3>2. g \in Fds /\ q \in Peers
            BY <3>1 DEF TypeOK, SlotType, AddressInv
        <3>3. Backed(g, q, r)'
            BY <2>3, <2>11, <3>1, <3>2 DEF Own, SlotsBacked
        <3> QED BY <1>0, <3>1, <3>3 DEF Backed
    <2>14. EntriesBacked'
        <3> SUFFICES ASSUME NEW r \in Subs, NEW i \in Nat, NewAt(r, i)'
                     PROVE  Backed(newConnections[r][i].fd, newConnections[r][i].peer, r)'
            BY DEF EntriesBacked
        <3>1. PICK g, q : g = newConnections'[r][i].fd /\ q = newConnections'[r][i].peer
            OBVIOUS
        <3>2. CASE r = s /\ newConnections'[r][i] = e
            BY <1>2, <2>12, <3>1, <3>2 DEF Backed
        <3>3. CASE NewAt(r, i) /\ newConnections'[r][i] = newConnections[r][i]
            <4>1. g \in Fds /\ q \in Peers
                BY <3>1, <3>3, EntryAtType
            <4>2. Backed(g, q, r)'
                BY <2>4, <2>11, <3>1, <3>3, <4>1 DEF Own, EntriesBacked
            <4> QED BY <3>1, <4>2 DEF Backed
        <3> QED BY <2>5, <3>2, <3>3
    <2> QED BY <2>6, <2>7, <2>8, <2>10, <2>13, <2>14 DEF Own
<1> QED BY <1>1, <1>2, Accepted

\* Every step keeps the ownership.
LEMMA OwnedStep ==
    ASSUME TypeOK, AddressInv, RoundInv, StopInv, Owned, [Next]_vars
    PROVE  Owned'
<1> SUFFICES ASSUME ~dangling' PROVE Own'
    BY DEF Owned
<1>0. Own
    BY MarkStays DEF Owned
<1>1. CASE UNCHANGED <<socketOf, con_queue, erases, socket_fd, addr, newConnections>>
    BY <1>0, <1>1, OwnKept, JoinedStays
<1>2. ASSUME NEW p \in Peers, ConnectFails(p) PROVE Own'
    <2>1. UNCHANGED <<socketOf, con_queue, erases, socket_fd, addr, newConnections, runState>>
        BY <1>2 DEF ConnectFails, slotVars
    <2> QED BY <1>0, <2>1, OwnKept
<1> QED BY <1>0, <1>1, <1>2, HolderFootprint, OwnErased, OwnAccepted, OwnForwarded, OwnUsed, OwnJoined, OwnClosed, OwnTaken

-----------------------------------------------------------------------------
(* What is closed, what the epoll watches *)

\* close() takes descriptors from the open ones.
LEMMA CloseOpen ==
    ASSUME TypeOK, NEW F, Close(F)
    PROVE  Open' = Open \ F
BY DEF Close, Open, TypeOK, KernelType

\* Without the main reactor no socket is opened.
LEMMA NothingOpened ==
    ASSUME TypeOK, AddressInv, [Next]_vars, mainPc = "stopped"
    PROVE  Open' \subseteq Open
<1>1. CASE UNCHANGED <<socketOf, orphans>>
    BY <1>1 DEF Open
<1>2. ASSUME NEW p \in Peers, AcceptNew(p) \/ ConnectFails(p) PROVE FALSE
    BY <1>2 DEF AcceptNew, ConnectFails, Read, EndTurn
<1>3. ASSUME NEW s \in Subs, Refuse(s) \/ JoinSub(s) PROVE Open' \subseteq Open
    BY <1>3, CloseOpen DEF Refuse, JoinSub
<1>4. ASSUME NEW s \in Subs, NEW k \in Slots, EventErr(s, k) PROVE Open' \subseteq Open
    BY <1>4, CloseOpen DEF EventErr
<1>5. ASSUME NEW s \in Subs, NEW k \in Slots, CheckDeleteSocket(s, k) PROVE Open' \subseteq Open
    BY <1>1, <1>5, CloseOpen, Emptied
<1>6. ASSUME NEW s \in Subs, NEW C \in SUBSET Slots, TakeSlot(s, C) \/ AddFails(s, C) PROVE Open' \subseteq Open
    BY <1>6, CloseOpen DEF TakeSlot, AddFails
<1> QED BY <1>1, <1>2, <1>3, <1>4, <1>5, <1>6, SocketFootprint

\* A sub-reactor that has left its loop does not touch its slots.
LEMMA SlotsRest ==
    ASSUME TypeOK, AddressInv, RoundInv, [Next]_vars, NEW s \in Subs, pc[s] = "exited"
    PROVE  socket_fd'[s] = socket_fd[s]
<1>1. CASE UNCHANGED slotVars
    BY <1>1 DEF slotVars
<1>2. ASSUME NEW r \in Subs, NEW k \in Slots, CheckDeleteSocket(r, k) PROVE socket_fd'[s] = socket_fd[s]
    <2>1. r # s
        BY <1>2 DEF CheckDeleteSocket
    <2> QED BY <1>2, <2>1, Emptied
<1>3. ASSUME NEW r \in Subs, NEW C \in SUBSET Slots, TakeSlot(r, C) \/ AddFails(r, C) PROVE socket_fd'[s] = socket_fd[s]
    <2>1. r # s
        BY <1>3 DEF TakeSlot, AddFails, Deal
    <2> QED BY <1>3, <2>1, Occupied
<1> QED BY <1>1, <1>2, <1>3, SlotFootprint

\* The numbers in the slots of a joined sub-reactor stay closed.
LEMMA JoinedStep ==
    ASSUME TypeOK, AddressInv, RoundInv, StopInv, JoinedInv, [Next]_vars
    PROVE  JoinedInv'
<1> SUFFICES ASSUME NEW s \in Subs, NEW k \in Slots, runState'[s] = "stopped"
             PROVE  socket_fd'[s][k] \notin Open'
    BY DEF JoinedInv
<1>1. CASE runState[s] = "stopped"
    <2>1. mainPc = "stopped" /\ pc[s] = "exited" /\ socket_fd[s][k] \notin Open
        BY <1>1 DEF StopInv, JoinedInv
    <2> QED BY <2>1, NothingOpened, SlotsRest
<1>2. CASE runState[s] # "stopped"
    <2>1. JoinSub(s)
        BY <1>2, StopFootprint DEF Start, StopWake, StopSub, JoinSub, TypeOK, SharedType
    <2>2. Open' = Open \ FdsOf(s, Slots) /\ socket_fd' = socket_fd
        BY <2>1, CloseOpen DEF JoinSub, slotVars
    <2>3. Open \subseteq Fds
        BY DEF Open, TypeOK, KernelType
    <2> QED BY <2>2, <2>3 DEF FdsOf
<1> QED BY <1>1, <1>2

(* An entry whose descriptor was not closed still points to its slot. *)
Watched(q, g) == g \in Open /\ socket_fd[q][epoll[q][g]] = g /\ checks[q][epoll[q][g]] > 0

\* ... when the slots are left alone.
LEMMA WatchedClose ==
    ASSUME TypeOK, WatchedConnections, NEW F, Close(F), epoll' = EpollWithout(F),
           UNCHANGED <<socket_fd, checks>>, NEW q \in Subs, NEW g \in Fds, epoll'[q][g] # NoSlot
    PROVE  Watched(q, g)'
<1>1. g \notin F /\ epoll'[q][g] = epoll[q][g]
    BY DEF EpollWithout
<1>2. Watched(q, g)
    BY <1>1 DEF WatchedConnections, Watched
<1> QED BY <1>1, <1>2, CloseOpen DEF Watched

\* Every step keeps the epoll entries at their slots.
LEMMA WatchedStep ==
    ASSUME TypeOK, AddressInv, RoundInv, WatchedConnections, [Next]_vars
    PROVE  WatchedConnections'
<1> SUFFICES ASSUME NEW q \in Subs, NEW g \in Fds, epoll'[q][g] # NoSlot
             PROVE  Watched(q, g)'
    BY DEF WatchedConnections, Watched
<1>0. /\ epoll \in [Subs -> [Fds -> Slots \cup {NoSlot}]] /\ checks \in [Subs -> [Slots -> Nat]]
      /\ (epoll[q][g] # NoSlot => epoll[q][g] \in Slots /\ Watched(q, g))
    BY DEF TypeOK, KernelType, SlotType, WatchedConnections, Watched
<1>1. ASSUME UNCHANGED slotVars, UNCHANGED epoll, Open \subseteq Open' PROVE Watched(q, g)'
    BY <1>0, <1>1 DEF slotVars, Watched
<1>2. ASSUME UNCHANGED slotVars, UNCHANGED <<socketOf, orphans, epoll>> PROVE Watched(q, g)'
    BY <1>1, <1>2 DEF Open
<1>3. ASSUME NEW p \in Peers, AcceptNew(p) PROVE Watched(q, g)'
    <2> DEFINE f == Min(Fds \ Open)
    <2>1. f \in Fds /\ p # NoPeer /\ UNCHANGED <<orphans, epoll, slotVars>>
          /\ (socketOf' = socketOf \/ socketOf' = [socketOf EXCEPT ![f] = p])
        BY <1>3, FreeDescriptor, ConnectionsAssumption DEF AcceptNew
    <2> HIDE DEF f
    <2>2. Open \subseteq Open'
        BY <2>1 DEF Open, TypeOK, KernelType
    <2> QED BY <1>1, <2>1, <2>2
<1>4. ASSUME NEW p \in Peers, ConnectFails(p) PROVE Watched(q, g)'
    <2>1. UNCHANGED <<socketOf, epoll, slotVars>> /\ orphans \subseteq orphans'
        BY <1>4 DEF ConnectFails
    <2>2. Open \subseteq Open'
        BY <2>1 DEF Open
    <2> QED BY <1>1, <2>1, <2>2
<1>5. ASSUME NEW s \in Subs, Refuse(s) \/ JoinSub(s) PROVE Watched(q, g)'
    BY <1>5, WatchedClose DEF Refuse, JoinSub, slotVars
<1>6. ASSUME NEW s \in Subs, NEW k \in Slots, EventErr(s, k) PROVE Watched(q, g)'
    BY <1>6, WatchedClose DEF EventErr, Handle
<1>7. ASSUME NEW s \in Subs, NEW k \in Slots, CheckDeleteSocket(s, k) PROVE Watched(q, g)'
    <2>1. checks' = [checks EXCEPT ![s][k] = @ - 1]
        BY <1>7 DEF CheckDeleteSocket
    <2>2. CASE UNCHANGED <<socketOf, orphans, epoll, socket_fd>> /\ socket_fd[s][k] = NoFd
        <3>1. Watched(q, g) /\ epoll[q][g] \in Slots /\ ~(q = s /\ epoll[q][g] = k)
            BY <1>0, <2>2, SlotFacts DEF Watched
        <3> QED BY <1>0, <2>1, <2>2, <3>1 DEF Watched, Open
    <2>3. CASE socket_fd[s][k] # NoFd
        <3>1. /\ Close({socket_fd[s][k]})
              /\ epoll' = EpollWithout({socket_fd[s][k]})
              /\ \A j \in Slots \ {k} : socket_fd'[s][j] = socket_fd[s][j]
              /\ \A r \in Subs \ {s} : socket_fd'[r] = socket_fd[r]
            <4>1. socket_fd' # socket_fd
                BY <1>7, <2>3 DEF CheckDeleteSocket, TypeOK, SlotType
            <4> QED BY <1>7, <4>1, Emptied
        <3>2. g # socket_fd[s][k] /\ epoll'[q][g] = epoll[q][g]
            BY <3>1 DEF EpollWithout
        <3>3. Watched(q, g) /\ epoll[q][g] \in Slots /\ ~(q = s /\ epoll[q][g] = k)
            BY <1>0, <3>2 DEF Watched
        <3>4. g \in Open' /\ socket_fd'[q][epoll[q][g]] = g
            BY <3>1, <3>2, <3>3, CloseOpen DEF Watched
        <3>5. checks'[q][epoll[q][g]] > 0
            BY <1>0, <2>1, <3>3 DEF Watched
        <3> QED BY <3>2, <3>4, <3>5 DEF Watched
    <2>4. socket_fd[s][k] = NoFd => UNCHANGED <<socketOf, orphans, epoll, socket_fd>>
        BY <1>7 DEF CheckDeleteSocket, kernel
    <2> QED BY <2>2, <2>3, <2>4
<1>8. ASSUME NEW s \in Subs, NEW C \in SUBSET Slots, TakeSlot(s, C) \/ AddFails(s, C) PROVE Watched(q, g)'
    <2>0. PICK k \in Slots :
              /\ k \in C \/ socket_fd[s][k] = NoFd
              /\ Entry(s).fd \in Fds
              /\ socket_fd'[s][k] = Entry(s).fd
              /\ \A j \in Slots \ {k} : socket_fd'[s][j] = IF j \in C THEN NoFd ELSE socket_fd[s][j]
              /\ \A r \in Subs \ {s} : socket_fd'[r] = socket_fd[r]
              /\ TakeSlot(s, C) => /\ epoll' = [EpollWithout(FdsOf(s, C)) EXCEPT ![s][Entry(s).fd] = k]
                                    /\ checks' = [checks EXCEPT ![s][k] = @ + 1]
        BY <1>8, Occupied
    <2>1. ASSUME epoll'[q][g] = epoll[q][g], g \notin FdsOf(s, C)
          PROVE  /\ Watched(q, g) /\ epoll[q][g] \in Slots
                 /\ socket_fd'[q][epoll[q][g]] = g
        <3>1. Watched(q, g) /\ epoll[q][g] \in Slots
            BY <1>0, <2>1
        <3>2. q = s => epoll[q][g] \notin C
            BY <2>1, <3>1 DEF Watched, FdsOf
        <3>3. q = s => epoll[q][g] # k
            BY <2>0, <3>1, <3>2, SlotFacts DEF Watched
        <3> QED BY <2>0, <3>1, <3>2, <3>3 DEF Watched
    <2>2. CASE TakeSlot(s, C)
        <3>1. Close(FdsOf(s, C)) /\ Entry(s).fd \in Open \ FdsOf(s, C)
            BY <2>2 DEF TakeSlot, CanAdd
        <3>2. Open' = Open \ FdsOf(s, C)
            BY <3>1, CloseOpen
        <3>3. checks' = [checks EXCEPT ![s][k] = @ + 1]
              /\ epoll' = [EpollWithout(FdsOf(s, C)) EXCEPT ![s][Entry(s).fd] = k]
            BY <2>0, <2>2
        <3>4. EpollWithout(FdsOf(s, C)) \in [Subs -> [Fds -> Slots \cup {NoSlot}]]
            BY EpollType
        <3>5. CASE q = s /\ g = Entry(s).fd
            <4>1. epoll'[q][g] = k
                BY <2>0, <3>3, <3>4, <3>5
            <4>2. checks'[s][k] > 0
                BY <1>0, <3>3
            <4> QED BY <2>0, <3>1, <3>2, <3>5, <4>1, <4>2 DEF Watched
        <3>6. CASE ~(q = s /\ g = Entry(s).fd)
            <4>1. epoll'[q][g] = EpollWithout(FdsOf(s, C))[q][g]
                BY <2>0, <3>3, <3>4, <3>6
            <4>2. g \notin FdsOf(s, C) /\ epoll'[q][g] = epoll[q][g]
                BY <4>1 DEF EpollWithout
            <4>3. Watched(q, g) /\ epoll[q][g] \in Slots /\ socket_fd'[q][epoll[q][g]] = g
                BY <2>1, <4>2
            <4>4. checks'[q][epoll[q][g]] > 0
                BY <1>0, <3>3, <4>3 DEF Watched
            <4>5. g \in Open'
                BY <3>2, <4>2, <4>3 DEF Watched
            <4> QED BY <4>2, <4>3, <4>4, <4>5 DEF Watched
        <3> QED BY <3>5, <3>6
    <2>3. CASE AddFails(s, C)
        <3> DEFINE F == FdsOf(s, C) \cup {Entry(s).fd}
        <3>1. Close(F) /\ epoll' = EpollWithout(F) /\ UNCHANGED checks
            BY <2>3 DEF AddFails
        <3>2. g \notin F /\ epoll'[q][g] = epoll[q][g] /\ Open' = Open \ F
            BY <3>1, CloseOpen DEF EpollWithout
        <3>3. Watched(q, g) /\ socket_fd'[q][epoll[q][g]] = g
            BY <2>1, <3>2
        <3> QED BY <3>1, <3>2, <3>3 DEF Watched
    <2> QED BY <1>8, <2>2, <2>3
<1> QED BY <1>2, <1>3, <1>4, <1>5, <1>6, <1>7, <1>8, SlotFootprint, SocketFootprint

-----------------------------------------------------------------------------
(* The theorems *)

\* The invariant holds at the start ...
LEMMA InitInv == Init => IInv
<1> SUFFICES ASSUME Init PROVE IInv
    OBVIOUS
<1> USE SlotFacts, ConnectionsAssumption
<1>1. TypeOK
    <2>1. KernelType
        BY DEF Init, KernelType
    <2>2. MainType
        <3>1. <<>> \in Seq(Peers)
            OBVIOUS
        <3> QED BY <3>1 DEF Init, MainType
    <2>3. SlotType
        BY DEF Init, SlotType
    <2>4. LoopType
        BY DEF Init, LoopType, Stages
    <2>5. SharedType
        <3>1. <<>> \in Seq(Entries)
            OBVIOUS
        <3> QED BY <3>1 DEF Init, SharedType
    <2>6. HistoryType
        BY DEF Init, HistoryType
    <2> QED BY <2>1, <2>2, <2>3, <2>4, <2>5, <2>6 DEF TypeOK
<1>2. KernelInv /\ AddressInv /\ RoundInv /\ StopInv
    BY DEF Init, KernelInv, AddressInv, RoundInv, StopInv
<1>3. CountCoversSlots
    <2>1. ASSUME NEW s \in Subs PROVE {k \in Slots : socket_fd[s][k] # NoFd} = {} /\ activeConnectionsCount[s] = 0
        BY DEF Init
    <2>2. ASSUME NEW s \in Subs
          PROVE  Cardinality({k \in Slots : socket_fd[s][k] # NoFd}) <= activeConnectionsCount[s]
        BY ONLY <2>1, <2>2, FS_EmptySet
    <2> QED BY <2>2, Zenon DEF CountCoversSlots
<1>4. NamesLast /\ NoStaleRoute
    <2>1. Open = {}
        BY DEF Init, Open
    <2>2. \A p \in Peers : con_queue[p] = <<>>
        BY DEF Init
    <2> QED BY <2>1, <2>2 DEF NamesLast, NoStaleRoute
<1>5. Owned
    <2>0. \A s \in Subs : (\A k \in Slots : socket_fd[s][k] = NoFd) /\ newConnections[s] = <<>>
        BY DEF Init
    <2>1. \A s \in Subs, i \in Nat : ~NewAt(s, i)
        <3>1. Len(<<>>) = 0
            OBVIOUS
        <3> QED BY <2>0, <3>1 DEF NewAt
    <2>2. SlotsApart /\ SlotsBacked
        BY <2>0 DEF SlotsApart, SlotsBacked
    <2>3. EntriesApart /\ SlotsEntriesApart /\ EntriesBacked
        BY <2>1 DEF EntriesApart, SlotsEntriesApart, EntriesBacked
    <2>4. ErasesApart
        <3>1. DOMAIN <<>> = {}
            OBVIOUS
        <3>2. erases = <<>>
            BY DEF Init
        <3> QED BY <3>1, <3>2 DEF ErasesApart
    <2> QED BY <2>2, <2>3, <2>4 DEF Owned, Own
<1>6. JoinedInv /\ WatchedConnections
    BY DEF Init, JoinedInv, WatchedConnections
<1> QED BY <1>1, <1>2, <1>3, <1>4, <1>5, <1>6 DEF IInv

\* ... is kept by every step ...
LEMMA StepInv == IInv /\ [Next]_vars => IInv'
<1> SUFFICES ASSUME IInv, [Next]_vars PROVE IInv'
    OBVIOUS
<1>1. TypeOK /\ KernelInv /\ AddressInv /\ RoundInv /\ StopInv /\ CountCoversSlots /\ NamesLast
      /\ NoStaleRoute /\ Owned /\ JoinedInv /\ WatchedConnections
    BY DEF IInv
<1>2. TypeOK' /\ KernelInv' /\ AddressInv' /\ RoundInv' /\ StopInv'
    BY <1>1, TypeStep, KernelStep, AddressStep, RoundStep, StopStep
<1>3. CountCoversSlots' /\ NamesLast' /\ NoStaleRoute'
    BY <1>1, <1>2, CountStep, LeakStep, StaleStep
<1>4. Owned' /\ JoinedInv' /\ WatchedConnections'
    BY <1>1, OwnedStep, JoinedStep, WatchedStep
<1> QED BY <1>2, <1>3, <1>4 DEF IInv

\* ... and so holds always.
LEMMA Invariance == Spec => []IInv
<1>1. Init => IInv
    BY InitInv
<1>2. IInv /\ [Next]_vars => IInv'
    BY StepInv
<1> QED BY <1>1, <1>2, PTL DEF Spec

(* The state of the reactors always has its type. *)
THEOREM TypeCorrect == Spec => []TypeOK
<1>1. IInv => TypeOK
    BY DEF IInv
<1> QED BY <1>1, Invariance, PTL

(* activeConnectionsCount never falls below the slots in use, so that      *)
(* clearTimeoutConnections runs whenever all slots are taken.              *)
THEOREM CountSafe == Spec => []CountCoversSlots
<1>1. IInv => CountCoversSlots
    BY DEF IInv
<1> QED BY <1>1, Invariance, PTL

(* The descriptors whose connect() failed and those of new connections     *)
(* still queued when the sub-reactor is joined are the only ones that      *)
(* leak: on every other path, in any order, a descriptor is closed before  *)
(* the last slot or queue entry that has its number lets go of it.         *)
THEOREM DescriptorsSafe == Spec => []NoDescriptorLeak
<1>1. ASSUME IInv PROVE NoDescriptorLeak
    <2>0. TypeOK /\ AddressInv /\ NamesLast /\ JoinedInv
        BY <1>1 DEF IInv
    <2>1. ASSUME NEW f \in Open, f \notin orphans
          PROVE  f \in LeftInQueue \cup {h[1] : h \in Holding}
        <3>1. PICK h \in Named : h[1] = f
            BY <2>0, <2>1 DEF NamesLast
        <3>2. CASE h \in Holding
            BY <3>1, <3>2
        <3>3. CASE h \in EntryHolders \ Holding
            BY <3>1, <3>3 DEF LeftInQueue
        <3>4. CASE h \in SlotHolders \ Holding
            <4>1. PICK s \in Subs, k \in Slots : h = <<socket_fd[s][k], addr[s][k], s>>
                BY <3>4 DEF SlotHolders
            <4>2. socket_fd[s][k] = f /\ h[3] = s
                BY <3>1, <4>1
            <4>3. runState[s] = "stopped"
                BY <3>1, <3>4, <4>2 DEF Holding
            <4> QED BY <2>0, <2>1, <4>2, <4>3 DEF JoinedInv
        <3> QED BY <3>2, <3>3, <3>4 DEF Named
    <2> QED BY <2>1 DEF NoDescriptorLeak
<1> QED BY <1>1, Invariance, PTL

(* con_queue never keeps a route without a connection at its end or a      *)
(* pending timer that erases it.                                           *)
THEOREM RoutesSafe == Spec => []NoStaleRoute
<1>1. IInv => NoStaleRoute
    BY DEF IInv
<1> QED BY <1>1, Invariance, PTL

(* Until a descriptor is closed under its holder, each connection has a    *)
(* socket of its own, connected to its client, and the route to it.        *)
THEOREM ConnectionsOwned == Spec => []OwnConnections
<1>1. ASSUME IInv PROVE OwnConnections
    <2> SUFFICES ASSUME ~dangling, NEW h \in Named, runState[h[3]] # "stopped"
                 PROVE  /\ socketOf[h[1]] = h[2]
                        /\ con_queue[h[2]] = <<h[1], h[3]>>
                        /\ \A i \in DOMAIN erases : erases[i] # h[2]
                        /\ \A g \in Named : g[1] = h[1] => g = h
        BY DEF OwnConnections, Holding
    <2>0. TypeOK /\ AddressInv /\ StopInv /\ Own
        BY <1>1 DEF IInv, Owned
    <2>1. PICK f \in Fds, p \in Peers, s \in Subs : h = <<f, p, s>>
        BY <2>0, NamedType
    <2>2. h[1] = f /\ h[2] = p /\ h[3] = s
        BY <2>1
    <2>3. HeldBy(f, p, s)
        BY <2>0, <2>1, NamedIsHeld
    <2>4. Backed(f, p, s)
        BY <2>0, <2>3, SlotFacts DEF HeldBy, Own, SlotsBacked, EntriesBacked
    <2>5. ASSUME NEW g \in Named, g[1] = f PROVE g = h
        <3>1. PICK d \in Fds, q \in Peers, r \in Subs : g = <<d, q, r>>
            BY <2>0, NamedType
        <3>2. d = f
            BY <2>5, <3>1
        <3>3. HeldBy(f, q, r)
            BY <2>0, <3>1, <3>2, NamedIsHeld
        <3>4. q = p /\ r = s
            <4>1. CASE \E k \in Slots : socket_fd[s][k] = f /\ addr[s][k] = p
                <5>1. PICK k \in Slots : socket_fd[s][k] = f /\ addr[s][k] = p
                    BY <4>1
                <5>2. ASSUME NEW i \in Nat, NewAt(r, i), newConnections[r][i].fd = f PROVE FALSE
                    BY <2>0, <5>1, <5>2 DEF Own, SlotsEntriesApart
                <5>3. PICK j \in Slots : socket_fd[r][j] = f /\ addr[r][j] = q
                    BY <3>3, <5>2 DEF HeldBy
                <5>4. s = r /\ k = j
                    BY <2>0, <5>1, <5>3, SlotFacts DEF Own, SlotsApart
                <5> QED BY <5>1, <5>3, <5>4
            <4>2. CASE \E i \in Nat : NewAt(s, i) /\ newConnections[s][i].fd = f /\ newConnections[s][i].peer = p
                <5>1. PICK i \in Nat : NewAt(s, i) /\ newConnections[s][i].fd = f /\ newConnections[s][i].peer = p
                    BY <4>2
                <5>2. \A j \in Slots : socket_fd[r][j] # f
                    BY <2>0, <5>1 DEF Own, SlotsEntriesApart
                <5>3. PICK j \in Nat : NewAt(r, j) /\ newConnections[r][j].fd = f /\ newConnections[r][j].peer = q
                    BY <3>3, <5>2 DEF HeldBy
                <5>4. s = r /\ i = j
                    BY <2>0, <5>1, <5>3 DEF Own, EntriesApart
                <5> QED BY <5>1, <5>3, <5>4
            <4> QED BY <2>3, <4>1, <4>2 DEF HeldBy
        <3> QED BY <2>1, <3>1, <3>2, <3>4
    <2> QED BY <2>2, <2>4, <2>5 DEF Backed
<1> QED BY <1>1, Invariance, PTL

(* An epoll entry always points to the slot that has its descriptor, which *)
(* is open and has a timer: the pointers epoll_wait reports are those of   *)
(* the connections that reported, and no connection that can still send    *)
(* escapes the time-out, whatever was closed and handed out again.         *)
THEOREM WatchedSafe == Spec => []WatchedConnections
<1>1. IInv => WatchedConnections
    BY DEF IInv
<1> QED BY <1>1, Invariance, PTL
=============================================================================
