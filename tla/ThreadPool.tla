----------------------------- MODULE ThreadPool -----------------------------
(***************************************************************************)
(* The task pool of include/thread_pool/pool.cpp (class ThreadPool).       *)
(*                                                                         *)
(* Core workers, dynamic workers started and killed by a manager thread,   *)
(* callers that commit tasks, and one thread that closes the pool.  All of *)
(* them share the queue `queueTask`, guarded by the mutex `queueMute`, and *)
(* the condition variable `condition`.                                     *)
(*                                                                         *)
(* A critical section is one step, except where a worker has evaluated the *)
(* predicate of condition.wait to FALSE and has not been put to sleep yet: *)
(* it still owns the mutex, but a notification sent in that window by code *)
(* that does not take the mutex finds nobody to wake.  The state           *)
(* "blocking" is that window.                                              *)
(***************************************************************************)
EXTENDS Integers, Sequences, FiniteSets

CONSTANTS
    Tasks,            \* the executors; each is committed by one caller
    Callers,          \* the threads that commit
    Batch,            \* Batch[c]: the sequence of tasks caller c commits
    Cores,            \* cores
    MaxThreadCount,   \* upper bound of core and dynamic workers together
    QueueMaxSize,     \* capacity of queueTask
    Flexible,         \* ThreadPoolType::Flexible (TRUE) or Fixed (FALSE)
    CloseStrategies,  \* the ThreadPoolCloseStrategy values the pool may be built with
    CloseAfterStart,  \* the client calls close only once the pool has started
    SpawnMayFail,     \* creating a dynamic std::thread may throw
    MaxSpurious,      \* bound: spurious wakeups of the condition variable
    NoTask, NoSlot    \* null values

Strategies == {"DiscardAllTasks", "WaitAllTaskFinish", "ReturnTaskAndClose"}

ASSUME PoolAssumption ==
    /\ Cores \in Nat \ {0}
    /\ MaxThreadCount \in Nat /\ Cores <= MaxThreadCount
    /\ QueueMaxSize \in Nat
    /\ MaxSpurious \in Nat
    /\ Flexible \in BOOLEAN /\ CloseAfterStart \in BOOLEAN /\ SpawnMayFail \in BOOLEAN
    /\ CloseStrategies \subseteq Strategies
    /\ Batch \in [Callers -> Seq(Tasks)]
    /\ NoTask \notin Tasks

\* A task is committed by one caller, once: the code makes a fresh executor
\* (make_executor) for every commit.
ASSUME BatchAssumption ==
    \A c, d \in Callers : \A i \in 1 .. Len(Batch[c]), j \in 1 .. Len(Batch[d]) :
        Batch[c][i] = Batch[d][j] => c = d /\ i = j

CoreSlots == 1 .. Cores
DynamicSlots == IF Flexible THEN Cores + 1 .. MaxThreadCount ELSE {}
Slots == CoreSlots \cup DynamicSlots     \* the vector `workers`

ASSUME SlotAssumption == NoSlot \notin Slots

VARIABLES
    isStart,             \* init() has run
    runState,
    stopCommitState,
    isTerminated,
    closeStrategy,       \* set by the constructor
    vacantThreadsCount,
    dynamicWorkerCount,
    queueTask,
    isRunning,           \* isRunning[w]: flag of slot w
    worker,              \* worker[w]: control state of the thread in slot w
    holding,             \* holding[w]: the executorPtr of that thread
    manager,             \* control state of the manager thread
    victim,              \* slot the manager is killing
    caller,              \* control state of each caller
    result,              \* result[t]: the CommitResult of task t
    closer,              \* control state of the closing thread
    finished,            \* tasks whose finishState is set by a worker
    discarded,           \* tasks close() took out of the queue (discardState)
    late,                \* history: tasks enqueued after stopCommitState was set
    spurious             \* history: spurious wakeups so far

poolVars    == <<isStart, runState, stopCommitState, isTerminated, closeStrategy>>
workerVars  == <<isRunning, worker, holding>>
managerVars == <<manager, victim, dynamicWorkerCount>>
taskVars    == <<finished, discarded, late>>
vars == <<poolVars, vacantThreadsCount, queueTask, workerVars, managerVars,
          caller, result, closer, taskVars, spurious>>

WorkerStates  == {"none", "check", "blocking", "waiting", "working", "exited"}
ManagerStates == {"none", "loop", "slept", "notify", "join", "exited"}
CloserStates  == {"open", "drain", "joinManager", "take", "notify", "joinWorkers", "closed"}
Results       == {"none", "NoRefuse", "ThreadPoolHasStoppedRunning", "TaskQueueFulled"}

ElementsOf(s) == {s[i] : i \in 1 .. Len(s)}

\* queueMute is free: only a worker about to sleep owns it between two steps.
MutexFree == \A w \in Slots : worker[w] # "blocking"

NotifyAll == [w \in Slots |-> IF worker[w] = "waiting" THEN "check" ELSE worker[w]]

\* The states condition.notify_one() may leave the workers in.
NotifyOne == IF \E w \in Slots : worker[w] = "waiting"
             THEN {[worker EXCEPT ![w] = "check"] : w \in {v \in Slots : worker[v] = "waiting"}}
             ELSE {worker}

Init ==
    /\ isStart = FALSE /\ runState = FALSE
    /\ stopCommitState = FALSE /\ isTerminated = FALSE
    /\ closeStrategy \in CloseStrategies
    /\ vacantThreadsCount = 0 /\ dynamicWorkerCount = 0
    /\ queueTask = <<>>
    /\ isRunning = [w \in Slots |-> FALSE]
    /\ worker = [w \in Slots |-> "none"]
    /\ holding = [w \in Slots |-> NoTask]
    /\ manager = "none" /\ victim = NoSlot
    /\ caller = [c \in Callers |-> "idle"]
    /\ result = [t \in Tasks |-> "none"]
    /\ closer = "open"
    /\ finished = {} /\ discarded = {} /\ late = {}
    /\ spurious = 0

-----------------------------------------------------------------------------
(* Callers *)

\* init(), run by the first commit through std::call_once.
StartPool ==
    /\ isStart' = TRUE
    /\ runState' = TRUE
    /\ isRunning' = [w \in Slots |-> w \in CoreSlots]
    /\ worker' = [w \in Slots |-> IF w \in CoreSlots THEN "check" ELSE "none"]
    /\ vacantThreadsCount' = Cores
    /\ manager' = IF Flexible /\ Cores < MaxThreadCount THEN "loop" ELSE "none"

\* A caller enters commit_executor(s): it initialises the pool if nobody did,
\* then reads stopCommitState without holding the mutex.
CommitEnter(c) ==
    /\ caller[c] = "idle"
    /\ \/ isStart /\ UNCHANGED <<isStart, runState, isRunning, worker, vacantThreadsCount, manager>>
       \/ ~isStart /\ StartPool
    /\ \/ /\ stopCommitState
          /\ caller' = [caller EXCEPT ![c] = "done"]
          /\ result' = [t \in Tasks |-> IF t \in ElementsOf(Batch[c])
                                        THEN "ThreadPoolHasStoppedRunning" ELSE result[t]]
       \/ /\ ~stopCommitState
          /\ caller' = [caller EXCEPT ![c] = "entered"]
          /\ UNCHANGED result
    /\ UNCHANGED <<stopCommitState, isTerminated, closeStrategy, dynamicWorkerCount, victim,
                   queueTask, holding, closer, taskVars, spurious>>

\* Mutant of Admitted: one place too many.
AdmittedOneTooMany(c) ==
    LET leftSlot == QueueMaxSize - Len(queueTask) + 1
    IN  SubSeq(Batch[c], 1, IF leftSlot < Len(Batch[c]) THEN leftSlot ELSE Len(Batch[c]))

\* The first of the caller's tasks, as many as there are free places.
Admitted(c) ==
    LET leftSlot == QueueMaxSize - Len(queueTask)
    IN  SubSeq(Batch[c], 1, IF leftSlot < Len(Batch[c]) THEN leftSlot ELSE Len(Batch[c]))

Enqueue(c) ==
    /\ caller[c] = "entered"
    /\ MutexFree
    /\ queueTask' = queueTask \o Admitted(c)
    /\ result' = [t \in Tasks |-> IF t \in ElementsOf(Admitted(c)) THEN "NoRefuse"
                                  ELSE IF t \in ElementsOf(Batch[c]) THEN "TaskQueueFulled"
                                  ELSE result[t]]
    /\ late' = IF stopCommitState THEN late \cup ElementsOf(Admitted(c)) ELSE late
    /\ caller' = [caller EXCEPT ![c] = "done"]
    /\ UNCHANGED <<poolVars, vacantThreadsCount, isRunning, holding, managerVars,
                   closer, finished, discarded, spurious>>

\* commit_executor: one task, and one worker notified if it was admitted.
CommitExecutor(c) ==
    /\ Len(Batch[c]) = 1
    /\ Enqueue(c)
    /\ worker' \in (IF Admitted(c) = <<>> THEN {worker} ELSE NotifyOne)

\* Mutant of CommitExecutors: the notification is forgotten.
CommitExecutorsSilent(c) ==
    /\ Len(Batch[c]) # 1
    /\ Enqueue(c)
    /\ UNCHANGED worker

\* commit_executors: a batch, and every worker notified.
CommitExecutors(c) ==
    /\ Len(Batch[c]) # 1
    /\ Enqueue(c)
    /\ worker' = NotifyAll

-----------------------------------------------------------------------------
(* Workers *)

\* The worker has been told to stop: the pool's flag, or its own slot's flag
\* when it is a dynamic one.
ToldToStop(w) == ~runState \/ (w \in DynamicSlots /\ ~isRunning[w])

\* Mutant of TakeTask: the front of the queue is copied but not popped.
TakeTaskNoPop(w) ==
    /\ worker[w] = "check" /\ MutexFree
    /\ ~ToldToStop(w)
    /\ queueTask # <<>>
    /\ holding' = [holding EXCEPT ![w] = Head(queueTask)]
    /\ vacantThreadsCount' = vacantThreadsCount - 1
    /\ worker' = [worker EXCEPT ![w] = "working"]
    /\ UNCHANGED <<poolVars, queueTask, isRunning, managerVars, caller, result, closer, taskVars, spurious>>

\* The predicate holds because of a task, which the worker takes.
TakeTask(w) ==
    /\ worker[w] = "check" /\ MutexFree
    /\ ~ToldToStop(w)
    /\ queueTask # <<>>
    /\ holding' = [holding EXCEPT ![w] = Head(queueTask)]
    /\ queueTask' = Tail(queueTask)
    /\ vacantThreadsCount' = vacantThreadsCount - 1
    /\ worker' = [worker EXCEPT ![w] = "working"]
    /\ UNCHANGED <<poolVars, isRunning, managerVars, caller, result, closer, taskVars, spurious>>

\* The predicate holds because the thread has to stop: it returns.
Return(w) ==
    /\ worker[w] = "check" /\ MutexFree
    /\ ToldToStop(w)
    /\ worker' = [worker EXCEPT ![w] = "exited"]
    /\ UNCHANGED <<poolVars, vacantThreadsCount, queueTask, isRunning, holding,
                   managerVars, caller, result, closer, taskVars, spurious>>

\* The predicate is FALSE; the worker still owns the mutex.
PredicateFalse(w) ==
    /\ worker[w] = "check" /\ MutexFree
    /\ ~ToldToStop(w)
    /\ queueTask = <<>>
    /\ worker' = [worker EXCEPT ![w] = "blocking"]
    /\ UNCHANGED <<poolVars, vacantThreadsCount, queueTask, isRunning, holding,
                   managerVars, caller, result, closer, taskVars, spurious>>

\* condition.wait releases the mutex and joins the waiters in one step.
Sleep(w) ==
    /\ worker[w] = "blocking"
    /\ worker' = [worker EXCEPT ![w] = "waiting"]
    /\ UNCHANGED <<poolVars, vacantThreadsCount, queueTask, isRunning, holding,
                   managerVars, caller, result, closer, taskVars, spurious>>

\* Mutant of FinishTask: a worker without a task may finish.
FinishTaskUnguarded(w) ==
    /\ worker[w] \in {"working", "check"}
    /\ finished' = finished \cup {holding[w]}
    /\ holding' = [holding EXCEPT ![w] = NoTask]
    /\ vacantThreadsCount' = vacantThreadsCount + 1
    /\ worker' = [worker EXCEPT ![w] = "check"]
    /\ UNCHANGED <<poolVars, queueTask, isRunning, managerVars, caller, result,
                   closer, discarded, late, spurious>>

\* Mutant of FinishTask: the worker is not counted as vacant again.
FinishTaskStaysBusy(w) ==
    /\ worker[w] = "working"
    /\ finished' = finished \cup {holding[w]}
    /\ holding' = [holding EXCEPT ![w] = NoTask]
    /\ worker' = [worker EXCEPT ![w] = "check"]
    /\ UNCHANGED <<poolVars, vacantThreadsCount, queueTask, isRunning, managerVars,
                   caller, result, closer, discarded, late, spurious>>

\* The task has run, normally or with an exception the worker swallows.
FinishTask(w) ==
    /\ worker[w] = "working"
    /\ finished' = finished \cup {holding[w]}
    /\ holding' = [holding EXCEPT ![w] = NoTask]
    /\ vacantThreadsCount' = vacantThreadsCount + 1
    /\ worker' = [worker EXCEPT ![w] = "check"]
    /\ UNCHANGED <<poolVars, queueTask, isRunning, managerVars, caller, result,
                   closer, discarded, late, spurious>>

\* A waiter may wake without a notification.
SpuriousWakeup(w) ==
    /\ worker[w] = "waiting"
    /\ spurious < MaxSpurious
    /\ spurious' = spurious + 1
    /\ worker' = [worker EXCEPT ![w] = "check"]
    /\ UNCHANGED <<poolVars, vacantThreadsCount, queueTask, isRunning, holding,
                   managerVars, caller, result, closer, taskVars>>

-----------------------------------------------------------------------------
(* Manager thread *)

UnchangedByManager ==
    UNCHANGED <<poolVars, vacantThreadsCount, queueTask, holding, caller, result,
                closer, taskVars, spurious>>

\* The test of the while loop, then the sleep.
ManagerLoop ==
    /\ manager = "loop"
    /\ manager' = IF stopCommitState THEN "exited" ELSE "slept"
    /\ UNCHANGED <<worker, isRunning, victim, dynamicWorkerCount>>
    /\ UnchangedByManager

\* The first slot of a set, in the order of the for loops.
First(S) == CHOOSE w \in S : \A v \in S : w <= v

VacantDynamic == {w \in DynamicSlots : ~isRunning[w]}
RunningDynamic == {w \in DynamicSlots : isRunning[w]}

WantsKill == vacantThreadsCount > 2 /\ dynamicWorkerCount > 0
WantsAdd  == vacantThreadsCount <= 1 /\ dynamicWorkerCount < MaxThreadCount - Cores

\* addDynamicThread().  The manager's read of vacantThreadsCount and what it does about
\* it are one step; the rest of what it looks at only the manager writes.
AddDynamicThread ==
    /\ manager = "slept" /\ WantsAdd
    /\ VacantDynamic # {}
    /\ LET w == First(VacantDynamic)
       IN  /\ isRunning' = [isRunning EXCEPT ![w] = TRUE]
           /\ \/ /\ worker' = [worker EXCEPT ![w] = "check"]
                 /\ dynamicWorkerCount' = dynamicWorkerCount + 1
              \/ /\ SpawnMayFail      \* std::thread threw: only the flag is set
                 /\ UNCHANGED <<worker, dynamicWorkerCount>>
    /\ manager' = "loop"
    /\ UNCHANGED victim
    /\ UnchangedByManager

\* killDynamicThread(): the flag is cleared without holding the mutex.
KillDynamicThread ==
    /\ manager = "slept" /\ WantsKill
    /\ RunningDynamic # {}
    /\ victim' = First(RunningDynamic)
    /\ isRunning' = [isRunning EXCEPT ![First(RunningDynamic)] = FALSE]
    /\ manager' = "notify"
    /\ UNCHANGED <<worker, dynamicWorkerCount>>
    /\ UnchangedByManager

\* Nothing to do in this round.
ManagerIdle ==
    /\ manager = "slept"
    /\ ~(WantsAdd /\ VacantDynamic # {}) /\ ~(WantsKill /\ RunningDynamic # {})
    /\ manager' = "loop"
    /\ UNCHANGED <<worker, isRunning, victim, dynamicWorkerCount>>
    /\ UnchangedByManager

KillNotify ==
    /\ manager = "notify"
    /\ worker' = NotifyAll
    /\ manager' = "join"
    /\ UNCHANGED <<isRunning, victim, dynamicWorkerCount>>
    /\ UnchangedByManager

\* Mutant of KillJoin: the count of dynamic workers is not decremented.
KillJoinKeepsCount ==
    /\ manager = "join"
    /\ worker[victim] = "exited"
    /\ worker' = [worker EXCEPT ![victim] = "none"]
    /\ victim' = NoSlot
    /\ manager' = "loop"
    /\ UNCHANGED <<isRunning, dynamicWorkerCount>>
    /\ UnchangedByManager

\* The join.  A slot whose thread could not be created has no workman to join:
\* the manager does not get past this point.
KillJoin ==
    /\ manager = "join"
    /\ worker[victim] = "exited"
    /\ worker' = [worker EXCEPT ![victim] = "none"]
    /\ dynamicWorkerCount' = dynamicWorkerCount - 1
    /\ victim' = NoSlot
    /\ manager' = "loop"
    /\ UNCHANGED isRunning
    /\ UnchangedByManager

-----------------------------------------------------------------------------
(* The thread that calls close() *)

UnchangedByCloser ==
    UNCHANGED <<isStart, closeStrategy, vacantThreadsCount, isRunning, holding, managerVars,
                caller, result, finished, late, spurious>>

\* Mutant of CloseBegin: the pool keeps accepting commits.
CloseBeginAccepting ==
    /\ closer = "open"
    /\ CloseAfterStart => isStart
    /\ closer' = IF closeStrategy = "WaitAllTaskFinish" THEN "drain" ELSE "joinManager"
    /\ UNCHANGED <<runState, stopCommitState, isTerminated, worker, queueTask, discarded>>
    /\ UnchangedByCloser

CloseBegin ==
    /\ closer = "open"
    /\ CloseAfterStart => isStart
    /\ stopCommitState' = TRUE
    /\ closer' = IF closeStrategy = "WaitAllTaskFinish" THEN "drain" ELSE "joinManager"
    /\ UNCHANGED <<runState, isTerminated, worker, queueTask, discarded>>
    /\ UnchangedByCloser

\* WaitAllTaskFinish polls, under the mutex, until it sees the queue empty.
CloseDrain ==
    /\ closer = "drain"
    /\ MutexFree
    /\ queueTask = <<>>
    /\ closer' = "joinManager"
    /\ UNCHANGED <<runState, stopCommitState, isTerminated, worker, queueTask, discarded>>
    /\ UnchangedByCloser

\* Joins the manager thread, if there is one, and clears runState.
CloseJoinManager ==
    /\ closer = "joinManager"
    /\ manager \in {"none", "exited"}
    /\ runState' = FALSE
    /\ closer' = IF closeStrategy = "WaitAllTaskFinish" THEN "notify" ELSE "take"
    /\ UNCHANGED <<stopCommitState, isTerminated, worker, queueTask, discarded>>
    /\ UnchangedByCloser

\* DiscardAllTasks and ReturnTaskAndClose empty the queue under the mutex.
CloseTake ==
    /\ closer = "take"
    /\ MutexFree
    /\ discarded' = discarded \cup ElementsOf(queueTask)
    /\ queueTask' = <<>>
    /\ closer' = "notify"
    /\ UNCHANGED <<runState, stopCommitState, isTerminated, worker>>
    /\ UnchangedByCloser

\* Mutant of CloseNotify: only one worker is woken.
CloseNotifyOne ==
    /\ closer = "notify"
    /\ worker' \in NotifyOne
    /\ closer' = "joinWorkers"
    /\ UNCHANGED <<runState, stopCommitState, isTerminated, queueTask, discarded>>
    /\ UnchangedByCloser

CloseNotify ==
    /\ closer = "notify"
    /\ worker' = NotifyAll
    /\ closer' = "joinWorkers"
    /\ UNCHANGED <<runState, stopCommitState, isTerminated, queueTask, discarded>>
    /\ UnchangedByCloser

\* Mutant of CloseJoinWorkers: only the core workers are joined.
CloseJoinCores ==
    /\ closer = "joinWorkers"
    /\ \A w \in CoreSlots : worker[w] \in {"none", "exited"}
    /\ worker' = [w \in Slots |-> IF w \in CoreSlots THEN "none" ELSE worker[w]]
    /\ isTerminated' = TRUE
    /\ closer' = "closed"
    /\ UNCHANGED <<runState, stopCommitState, queueTask, discarded>>
    /\ UnchangedByCloser

CloseJoinWorkers ==
    /\ closer = "joinWorkers"
    /\ \A w \in Slots : worker[w] \in {"none", "exited"}
    /\ worker' = [w \in Slots |-> "none"]
    /\ isTerminated' = TRUE
    /\ closer' = "closed"
    /\ UNCHANGED <<runState, stopCommitState, queueTask, discarded>>
    /\ UnchangedByCloser

-----------------------------------------------------------------------------

WorkerStep(w) == \/ TakeTask(w) \/ Return(w) \/ PredicateFalse(w)
                 \/ Sleep(w) \/ FinishTask(w)
CommitStep(c) == CommitExecutor(c) \/ CommitExecutors(c)
ManagerStep   == \/ ManagerLoop \/ AddDynamicThread \/ KillDynamicThread
                 \/ ManagerIdle \/ KillNotify \/ KillJoin
CloseStep     == \/ CloseDrain \/ CloseJoinManager \/ CloseTake
                 \/ CloseNotify \/ CloseJoinWorkers

\* The pool has been closed and nothing is left to run: the program may end.
Done == closer = "closed" /\ UNCHANGED vars

Next ==
    \/ \E c \in Callers : CommitEnter(c) \/ CommitStep(c)
    \/ \E w \in Slots : WorkerStep(w) \/ SpuriousWakeup(w)
    \/ ManagerStep
    \/ CloseBegin
    \/ CloseStep
    \/ Done

Spec == Init /\ [][Next]_vars

\* Every started thread is scheduled, tasks end, and a caller that entered a
\* commit leaves it.  Nobody is obliged to commit or to close.
FairSpec ==
    /\ Spec
    /\ \A w \in Slots : WF_vars(WorkerStep(w))
    /\ \A c \in Callers : WF_vars(CommitStep(c))
    /\ WF_vars(ManagerStep)
    /\ WF_vars(CloseStep)
-----------------------------------------------------------------------------
(* Properties *)

FlagsOK ==
    /\ isStart \in BOOLEAN /\ runState \in BOOLEAN
    /\ stopCommitState \in BOOLEAN /\ isTerminated \in BOOLEAN
    /\ isRunning \in [Slots -> BOOLEAN]

TypeOK ==
    /\ FlagsOK
    /\ closeStrategy \in Strategies
    /\ vacantThreadsCount \in Int /\ dynamicWorkerCount \in Int
    /\ queueTask \in Seq(Tasks)
    /\ worker \in [Slots -> WorkerStates]
    /\ holding \in [Slots -> Tasks \cup {NoTask}]
    /\ manager \in ManagerStates
    /\ victim \in DynamicSlots \cup {NoSlot}
    /\ caller \in [Callers -> {"idle", "entered", "done"}]
    /\ result \in [Tasks -> Results]
    /\ closer \in CloserStates
    /\ finished \in SUBSET Tasks /\ discarded \in SUBSET Tasks /\ late \in SUBSET Tasks
    /\ spurious \in 0 .. MaxSpurious

Accepted == {t \in Tasks : result[t] = "NoRefuse"}
Queued   == ElementsOf(queueTask)
Held     == {holding[w] : w \in {v \in Slots : worker[v] = "working"}}
Busy     == {w \in Slots : worker[w] = "working"}

\* The queue never exceeds the capacity the pool was built with, whatever the
\* batches and the interleaving of callers (commit_executor, commit_executors).
QueueBounded == Len(queueTask) <= QueueMaxSize

\* Conservation of tasks: a task whose commit succeeded is in exactly one place
\* - once in the queue, in the hands of one worker, finished, or taken back by
\* close() - and a refused task is nowhere.  So no task is lost inside the
\* pool and none is executed twice.
TaskInOnePlace ==
    /\ Accepted = Queued \cup Held \cup finished \cup discarded
    /\ Queued \cap Held = {} /\ (Queued \cup Held) \cap (finished \cup discarded) = {}
    /\ finished \cap discarded = {}
    /\ \A i, j \in 1 .. Len(queueTask) : queueTask[i] = queueTask[j] => i = j
    /\ \A v, w \in Busy : holding[v] = holding[w] => v = w

\* What vacantThreadsCount really counts: the core threads minus all busy
\* threads, dynamic ones included (fetch_sub and fetch_add in coreRun and
\* dynamicRun, no change in addDynamicThread and killDynamicThread).
VacantAccounting == isStart => vacantThreadsCount = Cores - Cardinality(Busy)

\* dynamicWorkerCount is the number of dynamic slots that hold a thread, also
\* when creating one fails (addDynamicThread, killDynamicThread).
DynamicAccounting ==
    ~isTerminated =>
        dynamicWorkerCount = Cardinality({w \in DynamicSlots : worker[w] # "none"})

\* After close() the only tasks left behind in the queue are those of callers
\* that had read stopCommitState before close() set it and enqueued after.
OnlyLateTasksLeft == isTerminated => Queued \subseteq late

\* After close() has returned, no thread of the pool is left.
TerminatedMeansStopped == isTerminated => \A w \in Slots : worker[w] = "none"

\* close() returns.
CloseTerminates == stopCommitState ~> isTerminated

\* An accepted task is executed or taken back by close(), unless it slipped in
\* after the pool stopped accepting.
AcceptedSettles ==
    \A t \in Tasks : (result[t] = "NoRefuse") ~> (t \in finished \cup discarded \cup late)
-----------------------------------------------------------------------------
(* The inductive invariant behind the theorems of ThreadPoolProofs *)

\* The tasks of a caller that has not finished its commit are new to the pool.
FreshInv ==
    \A c \in Callers : caller[c] # "done" =>
        \A i \in 1 .. Len(Batch[c]) : result[Batch[c][i]] = "none"

\* A working thread holds a task, and no thread exists before init().
WorkerInv ==
    /\ \A w \in Slots : worker[w] = "working" => holding[w] \in Tasks
    /\ ~isStart => manager = "none" /\ \A w \in Slots : worker[w] = "none"

\* A dynamic slot that is not marked as running has no thread, except the one
\* the manager is killing; the manager has a victim only while it kills.
SlotInv ==
    /\ victim # NoSlot <=> manager \in {"notify", "join"}
    /\ \A w \in DynamicSlots : ~isRunning[w] /\ w # victim => worker[w] = "none"

PoolInv == TypeOK /\ QueueBounded /\ TaskInOnePlace /\ FreshInv /\ WorkerInv /\ SlotInv

\* The closing thread and the queue: once the queue has been seen empty or
\* has been emptied, only late tasks enter it.
CloseInv ==
    /\ closer # "open" => stopCommitState
    /\ isTerminated => closer = "closed"
    /\ \/ closer \in {"notify", "joinWorkers", "closed"}
       \/ closer = "joinManager" /\ closeStrategy = "WaitAllTaskFinish"
       => Queued \subseteq late

\* Once the manager is joined nobody starts a thread, if the pool is closed
\* only after it has started.
StopInv ==
    CloseAfterStart =>
        /\ closer # "open" => isStart
        /\ closer \in {"take", "notify", "joinWorkers", "closed"} => manager \in {"none", "exited"}
        /\ closer = "closed" => \A w \in Slots : worker[w] = "none"
=============================================================================
