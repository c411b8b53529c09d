-------------------------- MODULE ThreadPoolProofs ---------------------------
(***************************************************************************)
(* Proofs about ThreadPool, for any number of tasks, callers and threads,  *)
(* any batches and any size of the queue.                                  *)
(***************************************************************************)
EXTENDS ThreadPool, FiniteSetTheorems, WellFoundedInduction, TLAPS

\* The slots are positive numbers, and the dynamic ones are slots.
LEMMA SlotFacts == Slots \subseteq Nat /\ DynamicSlots \subseteq Slots /\ IsFiniteSet(Slots)
<1>1. CoreSlots \subseteq 1 .. MaxThreadCount /\ DynamicSlots \subseteq 1 .. MaxThreadCount
    BY PoolAssumption DEF CoreSlots, DynamicSlots
<1>2. IsFiniteSet(1 .. MaxThreadCount)
    BY PoolAssumption, FS_Interval
<1>3. Slots \subseteq 1 .. MaxThreadCount /\ DynamicSlots \subseteq Slots
    BY <1>1 DEF Slots
<1>4. IsFiniteSet(Slots)
    BY <1>2, <1>3, FS_Subset
<1>5. 1 .. MaxThreadCount \subseteq Nat
    BY PoolAssumption
<1> QED BY <1>3, <1>4, <1>5

\* The for loops over the slots find a slot: First is a member.
LEMMA FirstIsMember ==
    ASSUME NEW S \in SUBSET Nat, S # {}
    PROVE  First(S) \in S
<1> DEFINE R == {q \in Nat \X Nat : q[1] < q[2]}
<1>1. IsWellFoundedOn(R, Nat)
    <2>1. R = OpToRel(<, Nat)
        BY Zenon DEF OpToRel
    <2> QED BY <2>1, NatLessThanWellFounded, Zenon
<1>2. PICK m \in S : \A y \in S : ~(<<y, m>> \in R)
    <2> HIDE DEF R
    <2> QED BY <1>1, WFMin
<1>3. ASSUME NEW y \in S PROVE m <= y
    <2>1. y \in Nat /\ m \in Nat /\ ~(<<y, m>> \in R)
        BY <1>2
    <2> QED BY <2>1
<1> QED BY <1>3 DEF First

-----------------------------------------------------------------------------
(* Sequences of tasks *)

Distinct(s) == \A i, j \in 1 .. Len(s) : s[i] = s[j] => i = j

LEMMA TailFacts ==
    ASSUME NEW T, NEW s \in Seq(T), s # <<>>
    PROVE  /\ Head(s) \in T /\ Tail(s) \in Seq(T) /\ Len(Tail(s)) = Len(s) - 1
           /\ ElementsOf(s) = {Head(s)} \cup ElementsOf(Tail(s))
           /\ Distinct(s) => Distinct(Tail(s)) /\ Head(s) \notin ElementsOf(Tail(s))
<1>1. /\ Len(s) \in Nat /\ Len(s) > 0 /\ Head(s) = s[1] /\ Head(s) \in T
      /\ Tail(s) \in Seq(T) /\ Len(Tail(s)) = Len(s) - 1
      /\ \A i \in 1 .. Len(s) - 1 : Tail(s)[i] = s[i + 1]
    OBVIOUS
<1>2. ElementsOf(s) = {Head(s)} \cup ElementsOf(Tail(s))
    <2>1. ASSUME NEW i \in 1 .. Len(s) PROVE s[i] = Head(s) \/ s[i] \in ElementsOf(Tail(s))
        <3>1. CASE i = 1
            BY <1>1, <3>1
        <3>2. CASE i # 1
            <4>1. i - 1 \in 1 .. Len(Tail(s)) /\ Tail(s)[i - 1] = s[i]
                BY <1>1, <3>2
            <4> QED BY <4>1 DEF ElementsOf
        <3> QED BY <3>1, <3>2
    <2>2. ASSUME NEW i \in 1 .. Len(Tail(s)) PROVE Tail(s)[i] \in ElementsOf(s)
        <3>1. i + 1 \in 1 .. Len(s) /\ Tail(s)[i] = s[i + 1]
            BY <1>1
        <3> QED BY <3>1 DEF ElementsOf
    <2>3. Head(s) \in ElementsOf(s)
        BY <1>1 DEF ElementsOf
    <2> QED BY <2>1, <2>2, <2>3 DEF ElementsOf
<1>3. ASSUME Distinct(s) PROVE Distinct(Tail(s)) /\ Head(s) \notin ElementsOf(Tail(s))
    BY <1>1, <1>3 DEF Distinct, ElementsOf
<1> QED BY <1>1, <1>2, <1>3

LEMMA ConcatFacts ==
    ASSUME NEW T, NEW s \in Seq(T), NEW t \in Seq(T)
    PROVE  /\ s \o t \in Seq(T) /\ Len(s \o t) = Len(s) + Len(t)
           /\ ElementsOf(s \o t) = ElementsOf(s) \cup ElementsOf(t)
           /\ Distinct(s) /\ Distinct(t) /\ ElementsOf(s) \cap ElementsOf(t) = {} => Distinct(s \o t)
<1>1. /\ s \o t \in Seq(T) /\ Len(s \o t) = Len(s) + Len(t) /\ Len(s) \in Nat /\ Len(t) \in Nat
      /\ \A i \in 1 .. Len(s) : (s \o t)[i] = s[i]
      /\ \A i \in 1 .. Len(t) : (s \o t)[Len(s) + i] = t[i]
    OBVIOUS
<1>2. ASSUME NEW i \in 1 .. Len(s \o t), i \notin 1 .. Len(s)
      PROVE  i - Len(s) \in 1 .. Len(t) /\ (s \o t)[i] = t[i - Len(s)]
    BY <1>1, <1>2
<1>3. ElementsOf(s \o t) = ElementsOf(s) \cup ElementsOf(t)
    <2>1. ElementsOf(s \o t) \subseteq ElementsOf(s) \cup ElementsOf(t)
        BY <1>1, <1>2 DEF ElementsOf
    <2>2. ElementsOf(s) \subseteq ElementsOf(s \o t)
        BY <1>1 DEF ElementsOf
    <2>3. ASSUME NEW i \in 1 .. Len(t) PROVE t[i] \in ElementsOf(s \o t)
        <3>1. Len(s) + i \in 1 .. Len(s \o t)
            BY <1>1
        <3> QED BY <1>1, <3>1 DEF ElementsOf
    <2> QED BY <2>1, <2>2, <2>3 DEF ElementsOf
<1>4. ASSUME Distinct(s), Distinct(t), ElementsOf(s) \cap ElementsOf(t) = {}
      PROVE  Distinct(s \o t)
    <2> SUFFICES ASSUME NEW i \in 1 .. Len(s \o t), NEW j \in 1 .. Len(s \o t),
                        (s \o t)[i] = (s \o t)[j]
                 PROVE  i = j
        BY DEF Distinct
    <2>1. CASE i \in 1 .. Len(s) /\ j \in 1 .. Len(s)
        BY <1>1, <1>4, <2>1 DEF Distinct
    <2>2. CASE i \notin 1 .. Len(s) /\ j \notin 1 .. Len(s)
        BY <1>1, <1>2, <1>4, <2>2 DEF Distinct
    <2>3. ASSUME NEW k \in 1 .. Len(s \o t)
          PROVE  /\ k \in 1 .. Len(s) => (s \o t)[k] \in ElementsOf(s)
                 /\ k \notin 1 .. Len(s) => (s \o t)[k] \in ElementsOf(t)
        BY <1>1, <1>2 DEF ElementsOf
    <2>4. CASE (i \in 1 .. Len(s)) # (j \in 1 .. Len(s))
        BY <1>4, <2>3, <2>4
    <2> QED BY <2>1, <2>2, <2>4
<1> QED BY <1>1, <1>3, <1>4

\* What a commit admits: a prefix of the caller's batch that fits the queue.
LEMMA AdmittedFacts ==
    ASSUME TypeOK, QueueBounded, NEW c \in Callers
    PROVE  /\ Admitted(c) \in Seq(Tasks)
           /\ Len(queueTask) + Len(Admitted(c)) <= QueueMaxSize
           /\ Len(Admitted(c)) <= Len(Batch[c])
           /\ \A i \in 1 .. Len(Admitted(c)) : Admitted(c)[i] = Batch[c][i]
           /\ Distinct(Admitted(c)) /\ ElementsOf(Admitted(c)) \subseteq ElementsOf(Batch[c])
           /\ ElementsOf(Batch[c]) \subseteq Tasks
<1>1. Batch[c] \in Seq(Tasks) /\ Len(Batch[c]) \in Nat /\ QueueMaxSize \in Nat
      /\ Len(queueTask) \in Nat /\ Len(queueTask) <= QueueMaxSize
    BY PoolAssumption DEF TypeOK, QueueBounded
<1> DEFINE n == IF QueueMaxSize - Len(queueTask) < Len(Batch[c])
                THEN QueueMaxSize - Len(queueTask) ELSE Len(Batch[c])
<1>2. n \in 0 .. Len(Batch[c]) /\ Len(queueTask) + n <= QueueMaxSize
    BY <1>1
<1>3. Admitted(c) = SubSeq(Batch[c], 1, n)
    BY DEF Admitted
<1> HIDE DEF n
<1>4. /\ Admitted(c) \in Seq(Tasks) /\ Len(Admitted(c)) = n
      /\ \A i \in 1 .. n : Admitted(c)[i] = Batch[c][i]
    BY <1>1, <1>2, <1>3
<1>5. Distinct(Admitted(c)) /\ ElementsOf(Admitted(c)) \subseteq ElementsOf(Batch[c])
    <2>1. Len(Admitted(c)) = n /\ 1 .. n \subseteq 1 .. Len(Batch[c])
        BY <1>1, <1>2, <1>4
    <2>2. \A i \in 1 .. n : i \in 1 .. Len(Batch[c]) /\ Admitted(c)[i] = Batch[c][i]
        BY <1>4, <2>1
    <2>3. \A i, j \in 1 .. Len(Batch[c]) : Batch[c][i] = Batch[c][j] => i = j
        BY BatchAssumption
    <2>4. Distinct(Admitted(c))
        BY <2>1, <2>2, <2>3, Zenon DEF Distinct
    <2>5. ElementsOf(Admitted(c)) \subseteq ElementsOf(Batch[c])
        BY <2>1, <2>2, Zenon DEF ElementsOf
    <2> QED BY <2>4, <2>5
<1>6. ElementsOf(Batch[c]) \subseteq Tasks
    BY <1>1 DEF ElementsOf
<1> QED BY <1>1, <1>2, <1>4, <1>5, <1>6
-----------------------------------------------------------------------------
(* The invariant *)

LEMMA InitPoolInv == Init => PoolInv
<1> SUFFICES ASSUME Init PROVE PoolInv
    OBVIOUS
<1> USE PoolAssumption, SlotFacts DEF Init
<1>1. TypeOK
    <2>1. FlagsOK
        BY Zenon DEF FlagsOK
    <2> QED BY <2>1 DEF TypeOK, WorkerStates, ManagerStates, CloserStates, Results, Strategies
<1>2. QueueBounded
    BY DEF QueueBounded
<1>3. TaskInOnePlace
    BY DEF TaskInOnePlace, Accepted, Queued, Held, Busy, ElementsOf
<1>4. FreshInv /\ WorkerInv
    <2>1. FreshInv
        BY DEF FreshInv
    <2>2. WorkerInv
        BY DEF WorkerInv
    <2> QED BY <2>1, <2>2
<1>5. SlotInv
    BY DEF SlotInv
<1> QED BY <1>1, <1>2, <1>3, <1>4, <1>5 DEF PoolInv

\* A step that moves no task and does not change who is working preserves
\* everything that is said of tasks.
LEMMA NoTaskMoves ==
    ASSUME PoolInv, UNCHANGED <<queueTask, result, finished, discarded, caller, holding>>,
           \A w \in Slots : worker'[w] = "working" <=> worker[w] = "working"
    PROVE  /\ QueueBounded' /\ TaskInOnePlace' /\ FreshInv'
           /\ \A w \in Slots : worker'[w] = "working" => holding'[w] \in Tasks
<1> USE DEF PoolInv
<1>1. Busy' = Busy /\ Held' = Held
    BY DEF Busy, Held
<1>2. Accepted' = Accepted /\ Queued' = Queued
    BY DEF Accepted, Queued
<1>3. TaskInOnePlace'
    BY <1>1, <1>2 DEF TaskInOnePlace
<1>4. QueueBounded' /\ FreshInv'
    BY DEF QueueBounded, FreshInv
<1> QED BY <1>3, <1>4 DEF WorkerInv

\* Notifications only wake: they move nobody in or out of "working".
LEMMA NotifyFacts ==
    ASSUME TypeOK
    PROVE  /\ NotifyAll \in [Slots -> WorkerStates]
           /\ \A w \in Slots : NotifyAll[w] = "working" <=> worker[w] = "working"
           /\ \A w \in Slots : worker[w] = "none" => NotifyAll[w] = "none"
           /\ \A f \in NotifyOne : /\ f \in [Slots -> WorkerStates]
                                   /\ \A w \in Slots : f[w] = "working" <=> worker[w] = "working"
                                   /\ \A w \in Slots : worker[w] = "none" => f[w] = "none"
<1> USE DEF TypeOK, WorkerStates
<1>1. /\ NotifyAll \in [Slots -> WorkerStates]
      /\ \A w \in Slots : NotifyAll[w] = "working" <=> worker[w] = "working"
      /\ \A w \in Slots : worker[w] = "none" => NotifyAll[w] = "none"
    BY DEF NotifyAll
<1>2. ASSUME NEW f \in NotifyOne
      PROVE  /\ f \in [Slots -> WorkerStates]
             /\ \A w \in Slots : f[w] = "working" <=> worker[w] = "working"
             /\ \A w \in Slots : worker[w] = "none" => f[w] = "none"
    BY DEF NotifyOne
<1> QED BY <1>1, <1>2

LEMMA CommitEnterPoolInv ==
    ASSUME NEW c \in Callers, PoolInv, CommitEnter(c)
    PROVE  PoolInv'
<1> USE PoolAssumption, SlotFacts DEF PoolInv
<1>1. /\ UNCHANGED <<stopCommitState, isTerminated, closeStrategy, dynamicWorkerCount, victim,
                     queueTask, holding, closer, finished, discarded, late, spurious>>
      /\ isStart' = TRUE
      /\ \/ isStart /\ UNCHANGED <<runState, isRunning, worker, vacantThreadsCount, manager>>
         \/ ~isStart /\ StartPool
    BY Zenon DEF CommitEnter, taskVars, StartPool, TypeOK, FlagsOK
<1>2. /\ worker' \in [Slots -> WorkerStates] /\ manager' \in ManagerStates
      /\ vacantThreadsCount' \in Int
      /\ \A w \in Slots : worker'[w] = "working" <=> worker[w] = "working"
    BY <1>1 DEF StartPool, TypeOK, WorkerInv, WorkerStates, ManagerStates
<1>3. /\ caller' \in [Callers -> {"idle", "entered", "done"}]
      /\ \A d \in Callers : caller'[d] # "done" => caller[d] # "done"
      /\ \/ UNCHANGED result
         \/ /\ result' = [t \in Tasks |-> IF t \in ElementsOf(Batch[c])
                                          THEN "ThreadPoolHasStoppedRunning" ELSE result[t]]
            /\ caller'[c] = "done"
    BY DEF CommitEnter, TypeOK
<1>4. caller[c] # "done"
    BY DEF CommitEnter
<1>5. result' \in [Tasks -> Results]
    BY <1>3 DEF TypeOK, Results
<1>6. \A t \in Tasks : t \in ElementsOf(Batch[c]) => result[t] = "none"
    BY <1>4 DEF FreshInv, ElementsOf
<1>7. Accepted' = Accepted
    BY <1>3, <1>6 DEF Accepted
<1>8. TypeOK'
    <2>1. isRunning' \in [Slots -> BOOLEAN] /\ runState' \in BOOLEAN
        <3>1. CASE isStart /\ UNCHANGED <<runState, isRunning>>
            BY <3>1, Zenon DEF TypeOK, FlagsOK
        <3>2. CASE StartPool
            <4>1. \A w \in Slots : (w \in CoreSlots) \in BOOLEAN
                BY SMT
            <4>2. isRunning' = [w \in Slots |-> w \in CoreSlots] /\ runState' = TRUE
                BY <3>2, Zenon DEF StartPool
            <4> QED BY ONLY <4>1, <4>2, Zenon
        <3> QED BY <1>1, <3>1, <3>2
    <2>2. FlagsOK'
        BY <1>1, <2>1, Zenon DEF TypeOK, FlagsOK
    <2> QED BY <1>1, <1>2, <1>3, <1>5, <2>2 DEF TypeOK
<1>9. TaskInOnePlace' /\ QueueBounded'
    <2>1. Busy' = Busy /\ Held' = Held /\ Queued' = Queued
        BY <1>1, <1>2 DEF Busy, Held, Queued
    <2> QED BY <1>1, <1>7, <2>1 DEF TaskInOnePlace, QueueBounded
<1>10. FreshInv'
    <2> SUFFICES ASSUME NEW d \in Callers, caller'[d] # "done", NEW i \in 1 .. Len(Batch[d])
                 PROVE  result'[Batch[d][i]] = "none"
        BY DEF FreshInv
    <2>1. result[Batch[d][i]] = "none" /\ Batch[d][i] \in Tasks
        BY <1>3 DEF FreshInv
    <2>2. d # c => Batch[d][i] \notin ElementsOf(Batch[c])
        BY BatchAssumption DEF ElementsOf
    <2> QED BY <1>3, <2>1, <2>2
<1>11. WorkerInv'
    BY <1>1, <1>2 DEF WorkerInv
<1>12. SlotInv'
    <2>1. CASE isStart /\ UNCHANGED <<runState, isRunning, worker, vacantThreadsCount, manager>>
        BY <1>1, <2>1 DEF SlotInv
    <2>2. CASE ~isStart /\ StartPool
        <3>1. DynamicSlots \cap CoreSlots = {}
            BY DEF DynamicSlots, CoreSlots
        <3>2. \A w \in DynamicSlots : worker'[w] = "none"
            BY <2>2, <3>1 DEF StartPool
        <3>3. manager' \in {"loop", "none"} /\ manager = "none" /\ victim' = victim
            BY <1>1, <2>2 DEF StartPool, WorkerInv
        <3> QED BY <3>2, <3>3 DEF SlotInv
    <2> QED BY <1>1, <2>1, <2>2
<1> QED BY <1>8, <1>9, <1>10, <1>11, <1>12

\* The two commits: the admitted tasks are new to the pool and enter the queue.
LEMMA CommitPoolInv ==
    ASSUME NEW c \in Callers, PoolInv, CommitStep(c)
    PROVE  PoolInv'
<1> DEFINE adm == Admitted(c)
<1> USE PoolAssumption, SlotFacts DEF PoolInv
<1>1. /\ Enqueue(c)
      /\ worker' \in [Slots -> WorkerStates]
      /\ \A w \in Slots : worker'[w] = "working" <=> worker[w] = "working"
      /\ \A w \in Slots : worker[w] = "none" => worker'[w] = "none"
    BY NotifyFacts DEF CommitStep, CommitExecutor, CommitExecutors, TypeOK
<1>2. /\ caller[c] = "entered" /\ caller' = [caller EXCEPT ![c] = "done"]
      /\ queueTask' = queueTask \o adm
      /\ result' = [t \in Tasks |-> IF t \in ElementsOf(adm) THEN "NoRefuse"
                                    ELSE IF t \in ElementsOf(Batch[c]) THEN "TaskQueueFulled"
                                    ELSE result[t]]
      /\ late' = IF stopCommitState THEN late \cup ElementsOf(adm) ELSE late
      /\ UNCHANGED <<isStart, runState, stopCommitState, isTerminated, closeStrategy,
                     vacantThreadsCount, isRunning, holding, manager, victim,
                     dynamicWorkerCount, closer, finished, discarded, spurious>>
    BY <1>1, Zenon DEF Enqueue, poolVars, managerVars
<1>3. /\ adm \in Seq(Tasks) /\ Len(queueTask) + Len(adm) <= QueueMaxSize /\ Distinct(adm)
      /\ ElementsOf(adm) \subseteq ElementsOf(Batch[c]) /\ ElementsOf(Batch[c]) \subseteq Tasks
    BY AdmittedFacts
<1> HIDE DEF adm
<1>4. \A t \in ElementsOf(Batch[c]) : result[t] = "none"
    BY <1>2 DEF FreshInv, ElementsOf
<1>5. ElementsOf(adm) \cap Accepted = {} /\ Accepted' = Accepted \cup ElementsOf(adm)
    BY <1>2, <1>3, <1>4 DEF Accepted
<1>6. /\ queueTask' \in Seq(Tasks) /\ Len(queueTask') = Len(queueTask) + Len(adm)
      /\ Queued' = Queued \cup ElementsOf(adm)
      /\ Distinct(queueTask')
    <2>1. Distinct(queueTask) /\ ElementsOf(queueTask) \cap ElementsOf(adm) = {}
        BY <1>5 DEF TaskInOnePlace, Distinct, Queued
    <2> QED BY <1>2, <1>3, <2>1, ConcatFacts DEF TypeOK, Queued
<1>7. Busy' = Busy /\ Held' = Held
    BY <1>1, <1>2 DEF Busy, Held
<1>8. TypeOK'
    <2>1. FlagsOK'
        BY <1>2, Zenon DEF TypeOK, FlagsOK
    <2>2. result' \in [Tasks -> Results] /\ late' \in SUBSET Tasks
        BY <1>2, <1>3 DEF TypeOK, Results
    <2> QED BY <1>1, <1>2, <1>6, <2>1, <2>2 DEF TypeOK
<1>9. QueueBounded'
    BY <1>3, <1>6 DEF QueueBounded
<1>10. TaskInOnePlace'
    <2>1. Accepted' = Queued' \cup Held' \cup finished' \cup discarded'
        BY <1>2, <1>5, <1>6, <1>7 DEF TaskInOnePlace
    <2>2. /\ Queued' \cap Held' = {} /\ (Queued' \cup Held') \cap (finished' \cup discarded') = {}
          /\ finished' \cap discarded' = {}
        BY <1>2, <1>5, <1>6, <1>7 DEF TaskInOnePlace
    <2>3. \A v, w \in Busy' : holding'[v] = holding'[w] => v = w
        BY <1>2, <1>7 DEF TaskInOnePlace
    <2> QED BY <1>6, <2>1, <2>2, <2>3 DEF TaskInOnePlace, Distinct
<1>11. FreshInv'
    <2> SUFFICES ASSUME NEW d \in Callers, caller'[d] # "done", NEW i \in 1 .. Len(Batch[d])
                 PROVE  result'[Batch[d][i]] = "none"
        BY DEF FreshInv
    <2>1. d # c /\ caller[d] # "done"
        BY <1>2 DEF TypeOK
    <2>2. result[Batch[d][i]] = "none" /\ Batch[d][i] \in Tasks
        BY <2>1 DEF FreshInv
    <2>3. Batch[d][i] \notin ElementsOf(Batch[c])
        BY <2>1, BatchAssumption DEF ElementsOf
    <2> QED BY <1>2, <1>3, <2>2, <2>3
<1>12. WorkerInv'
    BY <1>1, <1>2 DEF WorkerInv
<1>13. SlotInv'
    BY <1>1, <1>2 DEF SlotInv
<1> QED BY <1>8, <1>9, <1>10, <1>11, <1>12, <1>13

LEMMA TakeTaskPoolInv ==
    ASSUME NEW w \in Slots, PoolInv, TakeTask(w)
    PROVE  PoolInv'
<1> DEFINE t == Head(queueTask)
<1> USE PoolAssumption, SlotFacts DEF PoolInv
<1>1. /\ worker[w] = "check" /\ worker' = [worker EXCEPT ![w] = "working"]
      /\ holding' = [holding EXCEPT ![w] = t] /\ queueTask' = Tail(queueTask)
      /\ queueTask # <<>> /\ vacantThreadsCount' = vacantThreadsCount - 1
      /\ UNCHANGED <<isStart, runState, stopCommitState, isTerminated, closeStrategy, isRunning,
                     manager, victim, dynamicWorkerCount, caller, result, closer,
                     finished, discarded, late, spurious>>
    BY Zenon DEF TakeTask, poolVars, managerVars, taskVars
<1>2. /\ t \in Tasks /\ Tail(queueTask) \in Seq(Tasks) /\ Len(Tail(queueTask)) = Len(queueTask) - 1
      /\ Queued = {t} \cup Queued' /\ t \notin Queued' /\ Distinct(queueTask')
    <2>1. Distinct(queueTask)
        BY DEF TaskInOnePlace, Distinct
    <2> QED BY <1>1, <2>1, TailFacts DEF TypeOK, Queued
<1> HIDE DEF t
<1>3. /\ worker' \in [Slots -> WorkerStates] /\ holding' \in [Slots -> Tasks \cup {NoTask}]
      /\ Busy' = Busy \cup {w} /\ w \notin Busy
      /\ \A v \in Busy : holding'[v] = holding[v]
      /\ holding'[w] = t
    BY <1>1, <1>2 DEF TypeOK, Busy, WorkerStates
<1>4. Held' = Held \cup {t}
    BY <1>3 DEF Held, Busy
<1>5. TypeOK'
    <2>1. FlagsOK'
        BY <1>1, Zenon DEF TypeOK, FlagsOK
    <2> QED BY <1>1, <1>2, <1>3, <2>1 DEF TypeOK
<1>6. QueueBounded'
    BY <1>1, <1>2 DEF QueueBounded, TypeOK
<1>7. TaskInOnePlace'
    <2>1. /\ Accepted' = Accepted /\ t \in Queued /\ t \notin Held
          /\ t \notin finished \cup discarded
        BY <1>1, <1>2 DEF Accepted, TaskInOnePlace
    <2>2. Accepted' = Queued' \cup Held' \cup finished' \cup discarded'
        BY <1>1, <1>2, <1>4, <2>1 DEF TaskInOnePlace
    <2>3. /\ Queued' \cap Held' = {} /\ (Queued' \cup Held') \cap (finished' \cup discarded') = {}
          /\ finished' \cap discarded' = {}
        BY <1>1, <1>2, <1>4, <2>1 DEF TaskInOnePlace
    <2>4. \A u, v \in Busy' : holding'[u] = holding'[v] => u = v
        <3>1. \A u \in Busy : holding[u] \in Held
            BY DEF Busy, Held
        <3> QED BY <1>3, <2>1, <3>1 DEF TaskInOnePlace
    <2> QED BY <1>2, <2>2, <2>3, <2>4 DEF TaskInOnePlace, Distinct
<1>8. FreshInv'
    BY <1>1 DEF FreshInv
<1>9. WorkerInv'
    BY <1>1, <1>2, <1>3 DEF WorkerInv, TypeOK
<1>10. SlotInv'
    BY <1>1 DEF SlotInv, TypeOK
<1> QED BY <1>5, <1>6, <1>7, <1>8, <1>9, <1>10

LEMMA FinishTaskPoolInv ==
    ASSUME NEW w \in Slots, PoolInv, FinishTask(w)
    PROVE  PoolInv'
<1> DEFINE t == holding[w]
<1> USE PoolAssumption, SlotFacts DEF PoolInv
<1>1. /\ worker[w] = "working" /\ worker' = [worker EXCEPT ![w] = "check"]
      /\ holding' = [holding EXCEPT ![w] = NoTask] /\ finished' = finished \cup {t}
      /\ vacantThreadsCount' = vacantThreadsCount + 1
      /\ UNCHANGED <<isStart, runState, stopCommitState, isTerminated, closeStrategy, isRunning,
                     manager, victim, dynamicWorkerCount, caller, result, closer, queueTask,
                     discarded, late, spurious>>
    BY Zenon DEF FinishTask, poolVars, managerVars
<1>2. t \in Tasks /\ w \in Busy /\ t \in Held
    BY <1>1 DEF WorkerInv, Busy, Held
<1>3. /\ worker' \in [Slots -> WorkerStates] /\ holding' \in [Slots -> Tasks \cup {NoTask}]
      /\ Busy' = Busy \ {w}
      /\ \A v \in Busy' : holding'[v] = holding[v]
    BY <1>1 DEF TypeOK, Busy, WorkerStates
<1>4. Held = {holding[v] : v \in Busy} /\ Held' = {holding'[v] : v \in Busy'}
    BY DEF Held, Busy
<1>5. Held' = Held \ {t}
    BY <1>2, <1>3, <1>4 DEF TaskInOnePlace
<1>6. TypeOK'
    <2>1. FlagsOK'
        BY <1>1, Zenon DEF TypeOK, FlagsOK
    <2> QED BY <1>1, <1>2, <1>3, <2>1 DEF TypeOK
<1>7. TaskInOnePlace'
    <2>1. Accepted' = Accepted /\ Queued' = Queued
        BY <1>1 DEF Accepted, Queued
    <2>2. Accepted' = Queued' \cup Held' \cup finished' \cup discarded'
        BY <1>1, <1>2, <1>5, <2>1 DEF TaskInOnePlace
    <2>3. /\ Queued' \cap Held' = {} /\ (Queued' \cup Held') \cap (finished' \cup discarded') = {}
          /\ finished' \cap discarded' = {}
        BY <1>1, <1>2, <1>5, <2>1 DEF TaskInOnePlace
    <2>4. \A u, v \in Busy' : holding'[u] = holding'[v] => u = v
        BY <1>3 DEF TaskInOnePlace
    <2> QED BY <1>1, <2>2, <2>3, <2>4 DEF TaskInOnePlace
<1>8. QueueBounded' /\ FreshInv'
    BY <1>1 DEF QueueBounded, FreshInv
<1>9. WorkerInv'
    BY <1>1, <1>3 DEF WorkerInv, TypeOK
<1>10. SlotInv'
    BY <1>1 DEF SlotInv, TypeOK
<1> QED BY <1>6, <1>7, <1>8, <1>9, <1>10

\* A step that only moves control: what has to be shown of it.
LEMMA ControlStep ==
    ASSUME PoolInv, FlagsOK', SlotInv',
           UNCHANGED <<isStart, closeStrategy, vacantThreadsCount, queueTask, holding, caller,
                       result, finished, discarded, late>>,
           worker' \in [Slots -> WorkerStates],
           \A w \in Slots : worker'[w] = "working" <=> worker[w] = "working",
           ~isStart => manager' = "none" /\ \A w \in Slots : worker'[w] = "none",
           manager' \in ManagerStates, victim' \in DynamicSlots \cup {NoSlot},
           dynamicWorkerCount' \in Int, closer' \in CloserStates, spurious' \in 0 .. MaxSpurious
    PROVE  PoolInv'
<1>1. /\ QueueBounded' /\ TaskInOnePlace' /\ FreshInv'
      /\ \A w \in Slots : worker'[w] = "working" => holding'[w] \in Tasks
    BY NoTaskMoves
<1>2. TypeOK'
    BY DEF PoolInv, TypeOK
<1>3. WorkerInv'
    BY <1>1 DEF WorkerInv
<1> QED BY <1>1, <1>2, <1>3 DEF PoolInv

\* The steps of a worker that touch no task.
LEMMA WorkerControlPoolInv ==
    ASSUME NEW w \in Slots, PoolInv,
           Return(w) \/ PredicateFalse(w) \/ Sleep(w) \/ SpuriousWakeup(w)
    PROVE  PoolInv'
<1> USE DEF PoolInv
<1>1. /\ worker[w] \in {"check", "blocking", "waiting"}
      /\ \E s \in {"exited", "blocking", "waiting", "check"} : worker' = [worker EXCEPT ![w] = s]
      /\ spurious' \in {spurious, spurious + 1}
      /\ spurious' # spurious => spurious < MaxSpurious
    BY DEF Return, PredicateFalse, Sleep, SpuriousWakeup
<1>2. UNCHANGED <<isStart, runState, stopCommitState, isTerminated, closeStrategy,
                  vacantThreadsCount, queueTask, isRunning, holding, manager, victim,
                  dynamicWorkerCount, caller, result, closer, finished, discarded, late>>
    BY Zenon DEF Return, PredicateFalse, Sleep, SpuriousWakeup, poolVars, managerVars, taskVars
<1>3. FlagsOK'
    BY <1>2, Zenon DEF TypeOK, FlagsOK
<1>4. /\ worker' \in [Slots -> WorkerStates]
      /\ \A v \in Slots : worker'[v] = "working" <=> worker[v] = "working"
      /\ ~isStart => \A v \in Slots : worker'[v] = "none"
    BY <1>1 DEF TypeOK, WorkerInv, WorkerStates
<1>5. spurious' \in 0 .. MaxSpurious
    BY <1>1, PoolAssumption DEF TypeOK
<1>6. SlotInv'
    BY <1>1, <1>2 DEF SlotInv, TypeOK
<1> QED BY <1>2, <1>3, <1>4, <1>5, <1>6, ControlStep DEF TypeOK, WorkerInv

\* The manager thread: it changes slots, and only its own control.
LEMMA ManagerPoolInv ==
    ASSUME PoolInv, ManagerStep
    PROVE  PoolInv'
<1> USE DEF PoolInv
<1>1. /\ manager # "none" /\ manager' \in ManagerStates
      /\ UnchangedByManager
    BY DEF ManagerStep, ManagerLoop, AddDynamicThread, KillDynamicThread, ManagerIdle,
           KillNotify, KillJoin, ManagerStates
<1>2. isStart
    BY <1>1 DEF WorkerInv
<1>3. UNCHANGED <<isStart, runState, stopCommitState, isTerminated, closeStrategy,
                  vacantThreadsCount, queueTask, holding, caller, result, closer,
                  finished, discarded, late, spurious>>
    BY <1>1, Zenon DEF UnchangedByManager, poolVars, taskVars
<1>4. /\ VacantDynamic # {} => First(VacantDynamic) \in VacantDynamic
      /\ RunningDynamic # {} => First(RunningDynamic) \in RunningDynamic
    BY FirstIsMember, SlotFacts DEF VacantDynamic, RunningDynamic
<1>5. /\ worker' \in [Slots -> WorkerStates] /\ dynamicWorkerCount' \in Int
      /\ \A v \in Slots : worker'[v] = "working" <=> worker[v] = "working"
      /\ victim' \in DynamicSlots \cup {NoSlot}
      /\ FlagsOK' /\ SlotInv'
    <2> USE DEF TypeOK
    <2>1. CASE ManagerLoop \/ ManagerIdle
        <3>1. UNCHANGED <<worker, isRunning, victim, dynamicWorkerCount>>
            BY <2>1, Zenon DEF ManagerLoop, ManagerIdle
        <3>2. FlagsOK'
            BY <1>3, <3>1, Zenon DEF FlagsOK
        <3>3. SlotInv'
            BY <2>1, <3>1 DEF SlotInv, ManagerLoop, ManagerIdle
        <3> QED BY <3>1, <3>2, <3>3
    <2>2. CASE AddDynamicThread
        <3> DEFINE x == First(VacantDynamic)
        <3>1. x \in Slots /\ x \in DynamicSlots
            BY <1>4, <2>2, SlotFacts DEF AddDynamicThread, VacantDynamic
        <3>2. /\ isRunning' = [isRunning EXCEPT ![x] = TRUE] /\ UNCHANGED victim
              /\ \/ /\ worker' = [worker EXCEPT ![x] = "check"]
                    /\ dynamicWorkerCount' = dynamicWorkerCount + 1
                 \/ UNCHANGED <<worker, dynamicWorkerCount>>
            BY <2>2, Zenon DEF AddDynamicThread
        <3> HIDE DEF x
        <3>3. FlagsOK'
            BY <1>3, <3>1, <3>2, Zenon DEF FlagsOK
        <3>4. manager = "slept" /\ manager' = "loop" /\ victim = NoSlot /\ ~isRunning[x]
            BY <1>4, <2>2 DEF AddDynamicThread, VacantDynamic, SlotInv, x
        <3>5. worker[x] = "none"
            BY <3>1, <3>4, SlotAssumption, SlotFacts DEF SlotInv
        <3>6. SlotInv'
            <4>1. isRunning'[x] = TRUE /\ \A v \in Slots \ {x} : isRunning'[v] = isRunning[v]
                BY <3>1, <3>2, Zenon DEF FlagsOK
            <4>2. \A v \in Slots \ {x} : worker'[v] = worker[v]
                BY <3>1, <3>2
            <4> QED BY <3>1, <3>2, <3>4, <4>1, <4>2, SlotFacts DEF SlotInv
        <3> QED BY <3>1, <3>2, <3>3, <3>5, <3>6 DEF WorkerStates
    <2>3. CASE KillDynamicThread
        <3> DEFINE x == First(RunningDynamic)
        <3>1. x \in Slots /\ x \in DynamicSlots
            BY <1>4, <2>3, SlotFacts DEF KillDynamicThread, RunningDynamic
        <3>2. /\ isRunning' = [isRunning EXCEPT ![x] = FALSE] /\ victim' = x
              /\ UNCHANGED <<worker, dynamicWorkerCount>>
            BY <2>3, Zenon DEF KillDynamicThread
        <3> HIDE DEF x
        <3>3. FlagsOK'
            BY <1>3, <3>1, <3>2, Zenon DEF FlagsOK
        <3>4. manager = "slept" /\ manager' = "notify" /\ victim = NoSlot
            BY <2>3 DEF KillDynamicThread, SlotInv
        <3>5. SlotInv'
            <4>1. \A v \in Slots \ {x} : isRunning'[v] = isRunning[v]
                BY <3>1, <3>2, Zenon DEF FlagsOK
            <4> QED BY <3>1, <3>2, <3>4, <4>1, SlotFacts, SlotAssumption DEF SlotInv
        <3> QED BY <3>1, <3>2, <3>3, <3>5
    <2>4. CASE KillNotify
        <3>1. worker' = NotifyAll /\ UNCHANGED <<isRunning, victim, dynamicWorkerCount>>
            BY <2>4, Zenon DEF KillNotify
        <3>2. FlagsOK'
            BY <1>3, <3>1, Zenon DEF FlagsOK
        <3>3. SlotInv'
            BY <2>4, <3>1, NotifyFacts, SlotFacts DEF SlotInv, KillNotify
        <3> QED BY <3>1, <3>2, <3>3, NotifyFacts
    <2>5. CASE KillJoin
        <3>1. /\ worker[victim] = "exited" /\ worker' = [worker EXCEPT ![victim] = "none"]
              /\ dynamicWorkerCount' = dynamicWorkerCount - 1 /\ victim' = NoSlot
              /\ UNCHANGED isRunning
            BY <2>5, Zenon DEF KillJoin
        <3>2. FlagsOK'
            BY <1>3, <3>1, Zenon DEF FlagsOK
        <3>3. victim \in DynamicSlots /\ victim \in Slots /\ manager' = "loop"
            BY <2>5, SlotFacts DEF KillJoin, SlotInv
        <3>4. SlotInv'
            BY <3>1, <3>3, SlotFacts, SlotAssumption DEF SlotInv
        <3> QED BY <3>1, <3>2, <3>3, <3>4 DEF WorkerStates
    <2> QED BY <2>1, <2>2, <2>3, <2>4, <2>5 DEF ManagerStep
<1> QED BY <1>1, <1>2, <1>3, <1>5, ControlStep DEF TypeOK

\* close().
LEMMA ClosePoolInv ==
    ASSUME PoolInv, CloseBegin \/ CloseDrain \/ CloseJoinManager \/ CloseNotify \/ CloseJoinWorkers
    PROVE  PoolInv'
<1> USE DEF PoolInv
<1>1. UNCHANGED <<isStart, closeStrategy, vacantThreadsCount, isRunning, holding, manager, victim,
                  dynamicWorkerCount, caller, result, finished, late, spurious, queueTask, discarded>>
    BY Zenon DEF CloseBegin, CloseDrain, CloseJoinManager, CloseNotify, CloseJoinWorkers,
                 UnchangedByCloser, managerVars
<1>2. /\ closer' \in CloserStates
      /\ \/ worker' = worker \/ worker' = NotifyAll
         \/ /\ \A w \in Slots : worker[w] \in {"none", "exited"}
            /\ worker' = [w \in Slots |-> "none"]
    BY DEF CloseBegin, CloseDrain, CloseJoinManager, CloseNotify, CloseJoinWorkers, CloserStates
<1>3. FlagsOK'
    <2>1. /\ runState' \in {runState, FALSE} /\ stopCommitState' \in {stopCommitState, TRUE}
          /\ isTerminated' \in {isTerminated, TRUE}
        BY Zenon DEF CloseBegin, CloseDrain, CloseJoinManager, CloseNotify, CloseJoinWorkers
    <2> QED BY <1>1, <2>1, Zenon DEF TypeOK, FlagsOK
<1>4. /\ worker' \in [Slots -> WorkerStates]
      /\ \A v \in Slots : worker'[v] = "working" <=> worker[v] = "working"
      /\ ~isStart => \A v \in Slots : worker'[v] = "none"
    BY <1>2, NotifyFacts DEF TypeOK, WorkerInv, WorkerStates
<1>5. SlotInv'
    BY <1>1, <1>2, NotifyFacts, SlotFacts DEF SlotInv
<1> QED BY <1>1, <1>2, <1>3, <1>4, <1>5, ControlStep DEF TypeOK, WorkerInv

LEMMA CloseTakePoolInv ==
    ASSUME PoolInv, CloseTake
    PROVE  PoolInv'
<1> USE DEF PoolInv
<1>1. /\ UNCHANGED <<isStart, closeStrategy, vacantThreadsCount, isRunning, holding, manager, victim,
                     dynamicWorkerCount, caller, result, finished, late, spurious,
                     runState, stopCommitState, isTerminated, worker>>
      /\ discarded' = discarded \cup Queued /\ queueTask' = <<>>
      /\ closer' = "notify"
    BY Zenon DEF CloseTake, UnchangedByCloser, managerVars, Queued
<1>2. Queued \subseteq Tasks /\ Queued' = {} /\ Held' = Held /\ Busy' = Busy /\ Accepted' = Accepted
    BY <1>1 DEF TypeOK, Queued, ElementsOf, Held, Busy, Accepted
<1>3. TypeOK'
    <2>1. FlagsOK'
        BY <1>1, Zenon DEF TypeOK, FlagsOK
    <2> QED BY <1>1, <1>2, <2>1 DEF TypeOK, CloserStates
<1>4. TaskInOnePlace'
    <2>1. Accepted' = Queued' \cup Held' \cup finished' \cup discarded'
        BY <1>1, <1>2 DEF TaskInOnePlace
    <2>2. /\ Queued' \cap Held' = {} /\ (Queued' \cup Held') \cap (finished' \cup discarded') = {}
          /\ finished' \cap discarded' = {}
        BY <1>1, <1>2 DEF TaskInOnePlace
    <2>3. /\ \A i, j \in 1 .. Len(queueTask') : queueTask'[i] = queueTask'[j] => i = j
          /\ \A u, v \in Busy' : holding'[u] = holding'[v] => u = v
        BY <1>1, <1>2 DEF TaskInOnePlace
    <2> QED BY <2>1, <2>2, <2>3 DEF TaskInOnePlace
<1>5. QueueBounded' /\ FreshInv' /\ WorkerInv'
    BY <1>1, PoolAssumption DEF QueueBounded, FreshInv, WorkerInv
<1>6. SlotInv'
    BY <1>1 DEF SlotInv
<1> QED BY <1>3, <1>4, <1>5, <1>6

LEMMA NextPoolInv == PoolInv /\ [Next]_vars => PoolInv'
<1> SUFFICES ASSUME PoolInv, [Next]_vars PROVE PoolInv'
    OBVIOUS
<1>1. CASE UNCHANGED vars
    <2>1. UNCHANGED <<isStart, runState, stopCommitState, isTerminated, closeStrategy,
                      vacantThreadsCount, queueTask, isRunning, worker, holding, manager, victim,
                      dynamicWorkerCount, caller, result, closer, finished, discarded, late, spurious>>
        BY <1>1, Zenon DEF vars, poolVars, workerVars, managerVars, taskVars
    <2>2. FlagsOK' /\ SlotInv'
        BY <2>1, Zenon DEF PoolInv, TypeOK, FlagsOK, SlotInv
    <2> QED BY <2>1, <2>2, ControlStep DEF PoolInv, TypeOK, WorkerInv
<1>2. ASSUME NEW c \in Callers, CommitEnter(c) \/ CommitStep(c) PROVE PoolInv'
    BY <1>2, CommitEnterPoolInv, CommitPoolInv
<1>3. ASSUME NEW w \in Slots, WorkerStep(w) \/ SpuriousWakeup(w) PROVE PoolInv'
    BY <1>3, TakeTaskPoolInv, FinishTaskPoolInv, WorkerControlPoolInv DEF WorkerStep
<1>4. CASE ManagerStep
    BY <1>4, ManagerPoolInv
<1>5. CASE CloseBegin \/ CloseStep
    BY <1>5, ClosePoolInv, CloseTakePoolInv DEF CloseStep
<1> QED BY <1>1, <1>2, <1>3, <1>4, <1>5 DEF Next, Done

\* The invariant holds in every reachable state of the pool.
THEOREM Invariance == Spec => []PoolInv
<1> QED BY InitPoolInv, NextPoolInv, PTL DEF Spec

\* Type correctness of the pool.
THEOREM TypeCorrect == Spec => []TypeOK
<1>1. PoolInv => TypeOK
    BY DEF PoolInv
<1> QED BY <1>1, Invariance, PTL

\* The queue never holds more than queueMaxSize tasks: the free places are
\* computed under the same lock under which the tasks are pushed.
THEOREM QueueBoundedHolds == Spec => []QueueBounded
<1>1. PoolInv => QueueBounded
    BY DEF PoolInv
<1> QED BY <1>1, Invariance, PTL

\* No accepted task is lost, duplicated, or run by two workers.
THEOREM TaskInOnePlaceHolds == Spec => []TaskInOnePlace
<1>1. PoolInv => TaskInOnePlace
    BY DEF PoolInv
<1> QED BY <1>1, Invariance, PTL
-----------------------------------------------------------------------------
(* The counters *)

\* The threads in the dynamic slots.
Dynamic == {w \in DynamicSlots : worker[w] # "none"}

\* The steps that change neither who is working nor which slots are used.
LEMMA SameThreads ==
    ASSUME \A w \in Slots : worker'[w] = "working" <=> worker[w] = "working",
           \A w \in DynamicSlots : worker'[w] = "none" <=> worker[w] = "none"
    PROVE  Busy' = Busy /\ Dynamic' = Dynamic
BY DEF Busy, Dynamic

LEMMA ThreadSetsFinite == IsFiniteSet(Busy) /\ IsFiniteSet(Dynamic)
<1>1. Busy \subseteq Slots /\ Dynamic \subseteq Slots
    BY SlotFacts DEF Busy, Dynamic
<1> QED BY <1>1, SlotFacts, FS_Subset

LEMMA NotifyKeepsThreads ==
    ASSUME TypeOK
    PROVE  /\ \A w \in Slots : NotifyAll[w] = "none" <=> worker[w] = "none"
           /\ \A f \in NotifyOne : \A w \in Slots : f[w] = "none" <=> worker[w] = "none"
BY DEF TypeOK, WorkerStates, NotifyAll, NotifyOne

\* A started thread gets a slot that had none, a joined one frees its slot.
LEMMA SpawnJoinFacts ==
    ASSUME PoolInv, AddDynamicThread \/ KillJoin
    PROVE  /\ Busy' = Busy
           /\ \/ Dynamic' = Dynamic /\ dynamicWorkerCount' = dynamicWorkerCount
              \/ \E x \in DynamicSlots : /\ x \notin Dynamic /\ Dynamic' = Dynamic \cup {x}
                                         /\ dynamicWorkerCount' = dynamicWorkerCount + 1
              \/ \E x \in DynamicSlots : /\ x \in Dynamic /\ Dynamic' = Dynamic \ {x}
                                         /\ dynamicWorkerCount' = dynamicWorkerCount - 1
<1> USE DEF PoolInv, TypeOK
<1>1. CASE AddDynamicThread
    <2> DEFINE x == First(VacantDynamic)
    <2>1. x \in VacantDynamic
        BY <1>1, FirstIsMember, SlotFacts DEF AddDynamicThread, VacantDynamic
    <2>2. victim = NoSlot
        BY <1>1 DEF AddDynamicThread, SlotInv
    <2>3. x \in DynamicSlots /\ x \in Slots /\ worker[x] = "none"
        BY <2>1, <2>2, SlotFacts, SlotAssumption DEF VacantDynamic, SlotInv
    <2>4. \/ worker' = [worker EXCEPT ![x] = "check"] /\ dynamicWorkerCount' = dynamicWorkerCount + 1
          \/ worker' = worker /\ dynamicWorkerCount' = dynamicWorkerCount
        BY <1>1, Zenon DEF AddDynamicThread
    <2> HIDE DEF x
    <2>5. CASE worker' = worker /\ dynamicWorkerCount' = dynamicWorkerCount
        BY <2>5 DEF Busy, Dynamic
    <2>6. CASE worker' = [worker EXCEPT ![x] = "check"] /\ dynamicWorkerCount' = dynamicWorkerCount + 1
        <3>1. Busy' = Busy /\ x \notin Dynamic /\ Dynamic' = Dynamic \cup {x}
            BY <2>3, <2>6, SlotFacts DEF Busy, Dynamic
        <3> QED BY <2>3, <2>6, <3>1
    <2> QED BY <2>4, <2>5, <2>6
<1>2. CASE KillJoin
    <2>1. victim \in DynamicSlots /\ victim \in Slots
        BY <1>2, SlotFacts DEF KillJoin, SlotInv
    <2>2. Busy' = Busy /\ victim \in Dynamic /\ Dynamic' = Dynamic \ {victim}
        BY <1>2, <2>1, SlotFacts DEF KillJoin, Busy, Dynamic
    <2> QED BY <1>2, <2>1, <2>2 DEF KillJoin
<1> QED BY <1>1, <1>2

\* The steps of which SameThreads holds, and which leave the counters alone.
QuietStep ==
    \/ \E c \in Callers : CommitStep(c)
    \/ \E w \in Slots : Return(w) \/ PredicateFalse(w) \/ Sleep(w) \/ SpuriousWakeup(w)
    \/ ManagerLoop \/ KillDynamicThread \/ ManagerIdle \/ KillNotify
    \/ CloseBegin \/ CloseDrain \/ CloseJoinManager \/ CloseTake \/ CloseNotify
    \/ UNCHANGED vars

LEMMA QuietStepFacts ==
    ASSUME PoolInv, QuietStep
    PROVE  /\ Busy' = Busy /\ Dynamic' = Dynamic
           /\ UNCHANGED <<isStart, isTerminated, vacantThreadsCount, dynamicWorkerCount>>
<1>1. /\ \A w \in Slots : worker'[w] = "working" <=> worker[w] = "working"
      /\ \A w \in Slots : worker'[w] = "none" <=> worker[w] = "none"
    <2>1. TypeOK
        BY DEF PoolInv
    <2>2. ASSUME NEW c \in Callers, CommitStep(c) PROVE worker' = worker \/ worker' = NotifyAll \/ worker' \in NotifyOne
        BY <2>2 DEF CommitStep, CommitExecutor, CommitExecutors
    <2>3. ASSUME NEW w \in Slots, Return(w) \/ PredicateFalse(w) \/ Sleep(w) \/ SpuriousWakeup(w)
          PROVE  /\ worker[w] \in {"check", "blocking", "waiting"}
                 /\ \E s \in {"exited", "blocking", "waiting", "check"} : worker' = [worker EXCEPT ![w] = s]
        BY <2>3 DEF Return, PredicateFalse, Sleep, SpuriousWakeup
    <2>4. CASE ManagerLoop \/ KillDynamicThread \/ ManagerIdle \/ CloseBegin \/ CloseDrain
               \/ CloseJoinManager \/ CloseTake \/ UNCHANGED vars
        BY <2>4 DEF ManagerLoop, KillDynamicThread, ManagerIdle, CloseBegin, CloseDrain,
                    CloseJoinManager, CloseTake, vars, workerVars
    <2>5. CASE KillNotify \/ CloseNotify
        <3>1. worker' = NotifyAll
            BY <2>5 DEF KillNotify, CloseNotify
        <3> QED BY <2>1, <3>1, NotifyFacts, NotifyKeepsThreads
    <2>6. ASSUME worker' = worker \/ worker' = NotifyAll \/ worker' \in NotifyOne
          PROVE  /\ \A w \in Slots : worker'[w] = "working" <=> worker[w] = "working"
                 /\ \A w \in Slots : worker'[w] = "none" <=> worker[w] = "none"
        BY <2>1, <2>6, NotifyFacts, NotifyKeepsThreads
    <2>7. ASSUME NEW w \in Slots, Return(w) \/ PredicateFalse(w) \/ Sleep(w) \/ SpuriousWakeup(w)
          PROVE  /\ \A v \in Slots : worker'[v] = "working" <=> worker[v] = "working"
                 /\ \A v \in Slots : worker'[v] = "none" <=> worker[v] = "none"
        BY <2>1, <2>3, <2>7 DEF TypeOK
    <2> QED BY <2>2, <2>4, <2>5, <2>6, <2>7 DEF QuietStep
<1>2. Busy' = Busy /\ Dynamic' = Dynamic
    BY <1>1, SameThreads, SlotFacts
<1>3. UNCHANGED <<isStart, isTerminated, vacantThreadsCount, dynamicWorkerCount>>
    BY Zenon DEF QuietStep, CommitStep, CommitExecutor, CommitExecutors, Enqueue, Return,
        PredicateFalse, Sleep, SpuriousWakeup, ManagerLoop, KillDynamicThread, ManagerIdle,
        KillNotify, CloseBegin, CloseDrain, CloseJoinManager, CloseTake, CloseNotify,
        UnchangedByManager, UnchangedByCloser, poolVars, managerVars, vars
<1> QED BY <1>2, <1>3

\* The steps the counters have to follow.
LEMMA NextSplit ==
    ASSUME [Next]_vars
    PROVE  \/ QuietStep
           \/ \E c \in Callers : CommitEnter(c)
           \/ \E w \in Slots : TakeTask(w) \/ FinishTask(w)
           \/ AddDynamicThread \/ KillJoin \/ CloseJoinWorkers
BY Zenon DEF Next, QuietStep, WorkerStep, ManagerStep, CloseStep, Done

LEMMA VacantStep == PoolInv /\ VacantAccounting /\ [Next]_vars => VacantAccounting'
<1> SUFFICES ASSUME PoolInv, VacantAccounting, [Next]_vars, isStart'
             PROVE  vacantThreadsCount' = Cores - Cardinality(Busy')
    BY DEF VacantAccounting
<1> USE DEF VacantAccounting, PoolInv, TypeOK
<1>0. Cores \in Nat /\ IsFiniteSet(Busy) /\ Cardinality(Busy) \in Nat
    BY PoolAssumption, ThreadSetsFinite, FS_CardinalityType
<1>1. CASE QuietStep
    BY <1>1, QuietStepFacts
<1>2. ASSUME NEW c \in Callers, CommitEnter(c)
      PROVE  vacantThreadsCount' = Cores - Cardinality(Busy')
    <2>1. CASE isStart
        <3>1. worker' = worker /\ vacantThreadsCount' = vacantThreadsCount
            BY <1>2, <2>1 DEF CommitEnter
        <3> QED BY <2>1, <3>1 DEF Busy
    <2>2. CASE ~isStart
        <3>1. StartPool
            BY <1>2, <2>2 DEF CommitEnter
        <3>2. Busy' = {} /\ vacantThreadsCount' = Cores
            BY <3>1 DEF StartPool, Busy
        <3> QED BY <1>0, <3>2, FS_EmptySet
    <2> QED BY <2>1, <2>2
<1>3. ASSUME NEW w \in Slots, TakeTask(w)
      PROVE  vacantThreadsCount' = Cores - Cardinality(Busy')
    <2>1. Busy' = Busy \cup {w} /\ w \notin Busy /\ vacantThreadsCount' = vacantThreadsCount - 1
          /\ isStart' = isStart
        BY <1>3 DEF TakeTask, Busy, poolVars
    <2>2. Cardinality(Busy') = Cardinality(Busy) + 1
        BY <1>0, <2>1, FS_AddElement
    <2> QED BY <1>0, <2>1, <2>2
<1>4. ASSUME NEW w \in Slots, FinishTask(w)
      PROVE  vacantThreadsCount' = Cores - Cardinality(Busy')
    <2>1. Busy' = Busy \ {w} /\ w \in Busy /\ vacantThreadsCount' = vacantThreadsCount + 1
          /\ isStart' = isStart
        BY <1>4 DEF FinishTask, Busy, poolVars
    <2>2. Cardinality(Busy') = Cardinality(Busy) - 1
        BY <1>0, <2>1, FS_RemoveElement
    <2> QED BY <1>0, <2>1, <2>2
<1>5. CASE AddDynamicThread \/ KillJoin \/ CloseJoinWorkers
    <2>1. vacantThreadsCount' = vacantThreadsCount /\ isStart' = isStart
        BY <1>5, Zenon DEF AddDynamicThread, KillJoin, CloseJoinWorkers, UnchangedByManager, UnchangedByCloser, poolVars
    <2>2. Busy' = Busy
        <3>1. CASE AddDynamicThread \/ KillJoin
            BY <3>1, SpawnJoinFacts
        <3>2. CASE CloseJoinWorkers
            BY <3>2 DEF CloseJoinWorkers, Busy
        <3> QED BY <1>5, <3>1, <3>2
    <2> QED BY <2>1, <2>2
<1> QED BY <1>1, <1>2, <1>3, <1>4, <1>5, NextSplit

\* What vacantThreadsCount counts, for any number of core and dynamic threads.
THEOREM VacantAccountingHolds == Spec => []VacantAccounting
<1>1. Init => VacantAccounting
    BY DEF Init, VacantAccounting
<1> QED BY <1>1, VacantStep, Invariance, PTL DEF Spec

LEMMA DynamicStep == PoolInv /\ DynamicAccounting /\ [Next]_vars => DynamicAccounting'
<1> SUFFICES ASSUME PoolInv, DynamicAccounting, [Next]_vars, ~isTerminated'
             PROVE  dynamicWorkerCount' = Cardinality(Dynamic')
    BY DEF DynamicAccounting, Dynamic
<1> USE DEF PoolInv, TypeOK
<1>0. IsFiniteSet(Dynamic) /\ Cardinality(Dynamic) \in Nat
    BY ThreadSetsFinite, FS_CardinalityType
<1>1. ASSUME UNCHANGED isTerminated PROVE dynamicWorkerCount = Cardinality(Dynamic)
    BY <1>1 DEF DynamicAccounting, Dynamic
<1>2. CASE QuietStep
    BY <1>1, <1>2, QuietStepFacts
<1>3. ASSUME NEW c \in Callers, CommitEnter(c)
      PROVE  dynamicWorkerCount' = Cardinality(Dynamic')
    <2>1. UNCHANGED <<isTerminated, dynamicWorkerCount>>
        BY <1>3, Zenon DEF CommitEnter
    <2>2. CASE isStart
        <3>1. Dynamic' = Dynamic
            BY <1>3, <2>2 DEF CommitEnter, Dynamic
        <3> QED BY <1>1, <2>1, <3>1
    <2>3. CASE ~isStart
        <3>1. DynamicSlots \cap CoreSlots = {}
            BY PoolAssumption DEF DynamicSlots, CoreSlots
        <3>2. StartPool
            BY <1>3, <2>3 DEF CommitEnter
        <3>3. Dynamic' = {} /\ Dynamic = {}
            BY <2>3, <3>1, <3>2, SlotFacts DEF StartPool, Dynamic, WorkerInv
        <3> QED BY <1>1, <2>1, <3>3
    <2> QED BY <2>2, <2>3
<1>4. ASSUME NEW w \in Slots, TakeTask(w) \/ FinishTask(w)
      PROVE  dynamicWorkerCount' = Cardinality(Dynamic')
    <2>1. UNCHANGED <<isTerminated, dynamicWorkerCount>>
        BY <1>4, Zenon DEF TakeTask, FinishTask, poolVars, managerVars
    <2>2. Dynamic' = Dynamic
        BY <1>4, SlotFacts DEF TakeTask, FinishTask, Dynamic
    <2> QED BY <1>1, <2>1, <2>2
<1>5. CASE AddDynamicThread \/ KillJoin
    <2>1. dynamicWorkerCount = Cardinality(Dynamic)
        BY <1>1, <1>5, Zenon DEF AddDynamicThread, KillJoin, UnchangedByManager, poolVars
    <2>2. ASSUME NEW x \in DynamicSlots, x \notin Dynamic
          PROVE  Cardinality(Dynamic \cup {x}) = Cardinality(Dynamic) + 1
        BY <1>0, <2>2, FS_AddElement
    <2>3. ASSUME NEW x \in DynamicSlots, x \in Dynamic
          PROVE  Cardinality(Dynamic \ {x}) = Cardinality(Dynamic) - 1
        BY <1>0, <2>3, FS_RemoveElement
    <2> QED BY <1>5, <2>1, <2>2, <2>3, SpawnJoinFacts
<1>6. CASE CloseJoinWorkers
    BY <1>6 DEF CloseJoinWorkers
<1> QED BY <1>2, <1>3, <1>4, <1>5, <1>6, NextSplit

\* The manager's count of dynamic threads is right, failed creations included.
THEOREM DynamicAccountingHolds == Spec => []DynamicAccounting
<1>1. Init => DynamicAccounting
    <2> SUFFICES ASSUME Init PROVE DynamicAccounting
        OBVIOUS
    <2>1. {w \in DynamicSlots : worker[w] # "none"} = {} /\ dynamicWorkerCount = 0
        BY SlotFacts DEF Init
    <2> QED BY <2>1, FS_EmptySet DEF DynamicAccounting
<1> QED BY <1>1, DynamicStep, Invariance, PTL DEF Spec
-----------------------------------------------------------------------------
(* close() *)

LEMMA CloseInvStep == PoolInv /\ CloseInv /\ [Next]_vars => CloseInv'
<1> SUFFICES ASSUME PoolInv, CloseInv, [Next]_vars PROVE CloseInv'
    OBVIOUS
<1> USE DEF PoolInv
<1>1. ASSUME UNCHANGED <<closer, stopCommitState, isTerminated, closeStrategy, late>>, Queued' \subseteq Queued
      PROVE  CloseInv'
    BY <1>1, Zenon DEF CloseInv
<1>2. ASSUME UNCHANGED queueTask PROVE Queued' = Queued
    BY <1>2 DEF Queued
<1>3. ASSUME NEW c \in Callers, CommitEnter(c) PROVE CloseInv'
    BY <1>1, <1>2, <1>3, Zenon DEF CommitEnter, taskVars
<1>4. ASSUME NEW c \in Callers, CommitStep(c) PROVE CloseInv'
    <2>1. Enqueue(c) /\ Admitted(c) \in Seq(Tasks)
        BY <1>4, AdmittedFacts DEF CommitStep, CommitExecutor, CommitExecutors
    <2>2. Queued' = Queued \cup ElementsOf(Admitted(c))
        BY <2>1, ConcatFacts DEF Enqueue, Queued, TypeOK
    <2>3. UNCHANGED <<closer, stopCommitState, isTerminated, closeStrategy>>
        BY <2>1, Zenon DEF Enqueue, poolVars
    <2>4. CASE stopCommitState
        <3>1. late' = late \cup ElementsOf(Admitted(c))
            BY <2>1, <2>4, Zenon DEF Enqueue
        <3> QED BY <2>2, <2>3, <2>4, <3>1, Zenon DEF CloseInv
    <2>5. CASE ~stopCommitState
        BY <2>3, <2>5 DEF CloseInv
    <2> QED BY <2>4, <2>5
<1>5. ASSUME NEW w \in Slots, WorkerStep(w) \/ SpuriousWakeup(w) PROVE CloseInv'
    <2>1. UNCHANGED <<closer, stopCommitState, isTerminated, closeStrategy, late>>
        BY <1>5, Zenon DEF WorkerStep, TakeTask, FinishTask, Return, PredicateFalse, Sleep,
                           SpuriousWakeup, poolVars, taskVars
    <2>2. UNCHANGED queueTask \/ (queueTask # <<>> /\ queueTask' = Tail(queueTask))
        BY <1>5, Zenon DEF WorkerStep, TakeTask, FinishTask, Return, PredicateFalse, Sleep, SpuriousWakeup
    <2>3. Queued' \subseteq Queued
        BY <2>2, <1>2, TailFacts DEF Queued, TypeOK
    <2> QED BY <1>1, <2>1, <2>3
<1>6. CASE ManagerStep
    <2>1. UnchangedByManager
        BY <1>6 DEF ManagerStep, ManagerLoop, AddDynamicThread, KillDynamicThread, ManagerIdle,
                    KillNotify, KillJoin
    <2> QED BY <1>1, <1>2, <2>1, Zenon DEF UnchangedByManager, poolVars, taskVars
<1>7. CASE CloseBegin
    BY <1>7 DEF CloseBegin, CloseInv, UnchangedByCloser
<1>8. CASE CloseStep
    <2>1. UNCHANGED <<late, stopCommitState, closeStrategy>> /\ stopCommitState
        BY <1>8 DEF CloseStep, CloseDrain, CloseJoinManager, CloseTake, CloseNotify,
                    CloseJoinWorkers, UnchangedByCloser, CloseInv
    <2>2. CASE CloseDrain \/ CloseTake
        <3>1. Queued' = {}
            BY <2>2 DEF CloseDrain, CloseTake, Queued, ElementsOf
        <3>2. isTerminated' = isTerminated /\ closer' \in {"joinManager", "notify"} /\ closer # "closed"
            BY <2>2 DEF CloseDrain, CloseTake
        <3> QED BY <2>1, <3>1, <3>2 DEF CloseInv
    <2>3. CASE CloseJoinManager \/ CloseNotify \/ CloseJoinWorkers
        <3>1. Queued' = Queued
            BY <1>2, <2>3 DEF CloseJoinManager, CloseNotify, CloseJoinWorkers
        <3>2. \/ closer = "joinManager" /\ closeStrategy = "WaitAllTaskFinish" /\ closer' = "notify" /\ isTerminated' = isTerminated
              \/ closer = "joinManager" /\ closer' = "take" /\ isTerminated' = isTerminated
              \/ closer = "notify" /\ closer' = "joinWorkers" /\ isTerminated' = isTerminated
              \/ closer = "joinWorkers" /\ closer' = "closed"
            BY <2>3 DEF CloseJoinManager, CloseNotify, CloseJoinWorkers
        <3> QED BY <2>1, <3>1, <3>2 DEF CloseInv
    <2> QED BY <1>8, <2>2, <2>3 DEF CloseStep
<1>9. CASE UNCHANGED vars
    BY <1>1, <1>2, <1>9, Zenon DEF vars, poolVars, taskVars
<1> QED BY <1>3, <1>4, <1>5, <1>6, <1>7, <1>8, <1>9 DEF Next, Done

\* Whatever the close strategy, close() leaves behind only the tasks of
\* callers that were past the check of stopCommitState when it was set.
THEOREM OnlyLateTasksLeftHolds == Spec => []OnlyLateTasksLeft
<1>1. Init => CloseInv
    BY DEF Init, CloseInv
<1>2. CloseInv => OnlyLateTasksLeft
    BY DEF CloseInv, OnlyLateTasksLeft
<1> QED BY <1>1, <1>2, CloseInvStep, Invariance, PTL DEF Spec

LEMMA StopInvStep == PoolInv /\ CloseInv /\ StopInv /\ [Next]_vars => StopInv'
<1> SUFFICES ASSUME PoolInv, CloseInv, StopInv, [Next]_vars, CloseAfterStart
             PROVE  /\ closer' # "open" => isStart'
                    /\ closer' \in {"take", "notify", "joinWorkers", "closed"} => manager' \in {"none", "exited"}
                    /\ closer' = "closed" => \A w \in Slots : worker'[w] = "none"
    BY DEF StopInv
<1> USE DEF PoolInv, StopInv
<1>1. ASSUME NEW c \in Callers, CommitEnter(c)
      PROVE  /\ UNCHANGED closer /\ isStart'
             /\ closer # "open" => UNCHANGED <<manager, worker>>
    <2>1. UNCHANGED closer /\ isStart' = TRUE /\ (isStart => UNCHANGED <<manager, worker>>)
        BY <1>1, Zenon DEF CommitEnter, StartPool, TypeOK, FlagsOK
    <2> QED BY <2>1
<1>2. ASSUME NEW c \in Callers, CommitStep(c)
      PROVE  /\ UNCHANGED <<closer, manager, isStart>>
             /\ \A w \in Slots : worker[w] = "none" => worker'[w] = "none"
    <2>1. UNCHANGED <<closer, manager, isStart>>
        BY <1>2, Zenon DEF CommitStep, CommitExecutor, CommitExecutors, Enqueue, poolVars, managerVars
    <2>2. worker' = worker \/ worker' = NotifyAll \/ worker' \in NotifyOne
        BY <1>2 DEF CommitStep, CommitExecutor, CommitExecutors
    <2> QED BY <2>1, <2>2, NotifyKeepsThreads
<1>3. ASSUME NEW w \in Slots, WorkerStep(w) \/ SpuriousWakeup(w)
      PROVE  /\ UNCHANGED <<closer, manager, isStart>>
             /\ worker[w] # "none"
    <2>1. UNCHANGED <<closer, manager, isStart>>
        BY <1>3, Zenon DEF WorkerStep, TakeTask, FinishTask, Return, PredicateFalse, Sleep,
                           SpuriousWakeup, poolVars, managerVars
    <2> QED BY <1>3, <2>1 DEF WorkerStep, TakeTask, FinishTask, Return, PredicateFalse, Sleep, SpuriousWakeup
<1>4. CASE ManagerStep
    <2>1. UNCHANGED <<closer, isStart>> /\ manager \notin {"none", "exited"}
        BY <1>4, Zenon DEF ManagerStep, ManagerLoop, AddDynamicThread, KillDynamicThread, ManagerIdle,
                    KillNotify, KillJoin, UnchangedByManager, poolVars
    <2> QED BY <2>1
<1>5. CASE CloseBegin
    BY <1>5 DEF CloseBegin, UnchangedByCloser
<1>6. CASE CloseStep
    <2>1. UNCHANGED <<isStart, manager>> /\ closer # "open"
        BY <1>6, Zenon DEF CloseStep, CloseDrain, CloseJoinManager, CloseTake, CloseNotify,
                    CloseJoinWorkers, UnchangedByCloser, managerVars
    <2>2. \/ closer' = "joinManager"
          \/ closer' \in {"notify", "take"} /\ manager \in {"none", "exited"}
          \/ closer \in {"take", "notify"} /\ closer' \in {"notify", "joinWorkers"}
          \/ /\ closer = "joinWorkers" /\ closer' = "closed"
             /\ \A w \in Slots : worker'[w] = "none"
        BY <1>6 DEF CloseStep, CloseDrain, CloseJoinManager, CloseTake, CloseNotify, CloseJoinWorkers
    <2> QED BY <2>1, <2>2
<1>7. CASE UNCHANGED vars
    <2>1. UNCHANGED <<closer, isStart, manager, worker>>
        BY <1>7, Zenon DEF vars, poolVars, workerVars, managerVars
    <2> QED BY <2>1
<1> QED BY <1>1, <1>2, <1>3, <1>4, <1>5, <1>6, <1>7 DEF Next, Done

\* Once close() has returned no thread of the pool is left or can appear, if
\* the pool had started before it was closed.
THEOREM TerminatedMeansStoppedHolds == CloseAfterStart /\ Spec => []TerminatedMeansStopped
<1>1. Init => CloseInv /\ StopInv
    BY DEF Init, CloseInv, StopInv
<1>2. CloseAfterStart /\ CloseInv /\ StopInv => TerminatedMeansStopped
    BY DEF CloseInv, StopInv, TerminatedMeansStopped
<1> SUFFICES ASSUME CloseAfterStart PROVE Spec => []TerminatedMeansStopped
    OBVIOUS
<1>3. CloseInv /\ StopInv => TerminatedMeansStopped
    BY <1>2
<1> QED BY <1>1, <1>3, CloseInvStep, StopInvStep, Invariance, PTL DEF Spec
=============================================================================
