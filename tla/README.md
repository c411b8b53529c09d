# A TLA+ verification project for muse-chain

muse-chain is a C++ blockchain node. Its own code is under `include/`: an RPC
framework over UDP (protocol "SR2P"), a thread pool and timers it runs on, and a
chain state (accounts, blocks, a Merkle Patricia trie over LevelDB). This
directory holds TLA+ models of that code, the TLC configurations that check
them on small instances, and TLAPS proofs of theorems about them for every value
of the constants. `PROJECT.json` lists the components, the runs, the mutants
that show each property can fail, the hazards each property is aimed at, and
the source lines every definition stands for.

Run a configuration with `tlc -workers 2 -config MCThreadPool_fixed.cfg
MCThreadPool`, a proof with `tlapm ThreadPoolProofs.tla`.

## 1. Inventory

### Execution

| Component | State it keeps | Operations | Hard behaviour |
|---|---|---|---|
| ThreadPool (`thread_pool/pool.cpp`) | task queue under `queueMute`, worker slots, `runState`, `stopCommitState`, two thread counters | lazy `init`, `commit_executor(s)`, worker loops, manager thread, `close` with three strategies | `runState` and `stopCommitState` are atomics written without the mutex, so notifications can be lost and commits can slip past a closing pool |
| ConcurrentThreadPool (`thread_pool/concurrent_pool.cpp`) | lock-free queue, thread map | the same, growing on demand | only its tests use it |
| Executor tokens (`executor_token.h`) | state and result of one task | wait, discard | |
| TimerTree (`timer/timer_tree.*`) | ordered set of tasks | add, remove, run due | a task adds or removes others while the tree is walked |
| TimerWheel (`timer/timer_wheel.*`) | five levels of buckets, a ticking thread | setTimeout, setInterval, clear, tick | cascade arithmetic; a periodic task sets itself again under the wheel's mutex |

### RPC

| Component | State it keeps | Operations | Hard behaviour |
|---|---|---|---|
| Protocol header (`rpc/protocol`) | none | encode, decode, `getSendCount` | |
| Invoker (`rpc/client/invoker.cpp`) | acknowledged prefix of the request, tries left, received pieces | one blocking `request`: phase 1 sends in windows, phase 2 waits for the response | loss, duplication, reordering, timeouts racing late answers |
| Transmitter (`rpc/client/transmitter.cpp`) | one event per message in flight, a receiving thread, a timer thread | `send`, receive loop, timeouts, callbacks through the pool | commits to the pool while it owns `timer_mtx` |
| TransmitterLinkReactor | queue of answers handed from a reactor to a Transmitter | accept, loop | leaves the loop without popping |
| Reactor, ReactorPool | listening socket, map of known clients, queues of the sub-reactors | accept, dispatch, stop | two threads own parts of a connection's state |
| SubReactor (`rpc/server/sub_reactor.cpp`) | connection slots, requests, responses, timers | deal with new connections, epoll loop, trigger, send response, expire request and response, clear silent connections | packets on two paths, state deleted by timers while duplicates are under way, pool threads holding pointers into slots |
| Registries, middleware, client stubs | bound functions, service order | dispatch, in, out | |

### Chain

| Component | State it keeps | Operations | Hard behaviour |
|---|---|---|---|
| Account connector (`db/connector_account.cpp`) | pools of waiting transactions and affairs, account trie, asset filter, lists of pending commits and rollbacks | check, package body, package trie root, insert, roll back, commit | long multi-step routines that undo by hand on each error path |
| Block connector (`db/connector_block.cpp`) | block cache, top of chain | package header, save | several writes per block, crash in between |
| Merkle Patricia trie, Patricia trie, Merkle tree, Bloom filter | nodes, bits | insert, erase, find, root, proof | lazily loaded nodes; a filter that can only grow |
| Application (`application/application.cpp`) | stored chain state | genesis, start, inject affairs, sign | genesis in several writes |
| Serializer, cryptography, P2P router, consensus, utilities | none, or a file's content | | |

Interaction. A Client stub serialises a call and hands it to an Invoker (or a
Transmitter), which cuts it into pieces. The Reactor receives the first packet
of a client and queues it for a SubReactor, which gives the client a connected
socket, collects the pieces in a Request and, when it is complete, commits
`triggerTask` to the ThreadPool. The task runs the bound procedure through the
registry and the middleware, then posts a timer to the sub-reactor's TimerTree,
whose function stores the Response and sends its first piece. The chain follows
`docs/workflow/create_block_flow.md`: inject affairs, package the body, the
header, the trie root, sign, commit to LevelDB, save the block.

What makes each part correct:

- *Pool*: the queue keeps its bound; a task a commit accepted is in exactly one
  place until it is finished or discarded; the manager's counters mean what its
  decisions take them for; `close` returns, and afterwards no worker runs.
- *RPC*: the client waits for an answer only when the server has the whole
  request; a stored request is executed once; an acknowledgement never covers a
  piece the other side does not hold; success means an execution and its
  complete response; every call ends.
- *Connections*: a slot belongs to one client, the count of active connections
  is right, what epoll watches is open and in its slot, no descriptor is lost.
- *Transmitter*: the call-back runs once, is told of a success only with the whole
  response, and the message is then deleted.
- *Timers*: a task runs once, not before its time; a removed one never runs.
- *Trie*: memory and disk are functions of the accounts, not of the way there.
- *Chain*: a packaged block passes its own check, nobody spends more than he
  has, a nonce is used once, rolling a block back restores the state before it,
  and what is on disk after a crash is a prefix of what was committed.

## 2. Plan

In order of importance, each with the abstract specification worth stating:

1. `ThreadPool` with `ThreadPoolProofs` (done).
2. `RpcNetwork`, `Invoker`, `MessageServer`, composed as `RpcExchange`, which
   implements the abstract `RpcCall`; `RpcExchangeProofs` (done).
3. The chain: `Accounts` (accounts and receipts, pure), `Ledger` (check, insert,
   roll back), `BlockPackager` (`package_next_block_body` step by step over the two
   queues), `BlockStore` (commits, the order of the writes, crash and restart),
   composed as `Chain`, which implements the abstract `DurableChain`; `ChainProofs`
   and `BalanceProofs` (done).
4. `Connections`: the main reactor's table and connection queues, the sub-reactors'
   slots, the clearing of silent connections and the pool thread that still holds
   a slot (done).
5. `TimerWheel`: the bucket arithmetic and the cascade against the delay (done).
6. `Transmitter` with its link reactor, composed with `MessageServer` as
   `TransmitterExchange`, which implements the same `RpcCall` as the blocking client
   (done).
7. `MerklePatriciaTrie` against the map of its accounts, in memory and on disk (done).

The proofs follow the same order: `ThreadPoolProofs`, `RpcExchangeProofs`,
`ChainProofs` over `LedgerProofs`, `ConnectionsProofs`, `TransmitterExchangeProofs`,
`TimerWheelProofs` and `BalanceProofs` over `ChainProofs` (done).

Left: theorems about `MerklePatriciaTrie` (that every node on a walk is a node of the
trie of the accounts comes first), blocks of other nodes (`insert_block` with `check`)
and the Merkle roots of a body.

Every module keeps its parameters as CONSTANTS with named assumptions, one
action per operation and no RECURSIVE operator where a theorem is planned.

## 3. Modules and their code

### ThreadPool

`include/thread_pool/pool.cpp`. A critical section on `queueMute` is one step. The
one place where that would hide an interleaving is `condition.wait`: a worker
that has evaluated its predicate to false still owns the mutex, but is not yet
among the waiters, and code that notifies without the mutex misses it. The
worker state `blocking` is that window (`PredicateFalse`, then `Sleep`), and
`MutexFree` keeps everyone else out of their critical sections during it.

| Action | Code |
|---|---|
| `CommitEnter` (with `StartPool`), `Enqueue` in `CommitExecutor`, `CommitExecutors` | the two halves of `commit_executor(s)`: call_once(init) and the unlocked read of `stopCommitState`, then the critical section |
| `TakeTask`, `Return`, `PredicateFalse`, `Sleep`, `FinishTask`, `SpuriousWakeup` | `coreRun`, `dynamicRun`, `std::condition_variable` |
| `ManagerLoop`, `AddDynamicThread`, `KillDynamicThread`, `KillNotify`, `KillJoin`, `ManagerIdle` | `managerThreadTask`, `addDynamicThread`, `killDynamicThread` |
| `CloseBegin`, `CloseDrain`, `CloseJoinManager`, `CloseTake`, `CloseNotify`, `CloseJoinWorkers` | `close` with its three strategies |

A task is a model value committed once; its body always returns (an exception is
swallowed by the worker and has the same effect on the pool).

### RpcNetwork, Invoker, MessageServer, RpcExchange, RpcCall

`RpcNetwork` has the packets and the two channels. A channel is a set: packets are
reordered at will, one that is never received is lost, `Lose` removes one for
good, and a receive may leave its packet to be delivered again. `MaxFaults`
bounds losses and duplicates together. Acknowledgements and control packets the
code sends twice collapse in the set, which the duplication covers.

`Invoker` is `Invoker::request`: `SendRound`, `ReceivePhase1`, `ReceiveForeign`,
`Phase1Timeout` and `EndRound` are the first loop (`invoker.cpp` 30-195), `ReceiveNoData`,
`ReceiveResponse` and `Phase2Timeout` the second. A timeout may happen whenever the
client receives, because the network may always be slower than it.

`MessageServer` is what `SubReactor` does with the packets of one message:
`ReceivePiece` and `ReceiveControl` cover the request phase on both paths
(`dealWithNewConnection` and the epoll loop, which answer differently),
`ReceiveResponsePhase` the response phase, `RunTask` and `StoreResponse` the pool
thread and the 5 ms timer it posts, `RearmRequestTimer`, `ExpireRequest`,
`RearmResponseTimer` and `ClearResponse` the two deleting timers. Three details of
the code are kept because the properties can see them: `sendReset` and
`sendHeartbeat` always leave with phase Request; `sendExhausted` carries message id
0; and a copied `Response` has no value in `lastActive` (the model chooses whether the
first timer takes it for old) and shares the buffer of the object it was copied
from.

`RpcExchange` composes the three; `RpcCall` is what a caller may rely on: executed at
most a bounded number of times, ending at most once, with success only after an
execution.

### Accounts, Ledger, BlockPackager, BlockStore, Chain, DurableChain

The order of the calls is that of `docs/workflow/create_block_flow.md`, the only
place that puts the connectors together; `interface_db` guards them with mutexes, so
the node is one thread, and `step` says where it is. What can come at any point is
the end of the process.

| Module | Code | Notes |
|---|---|---|
| `Accounts` | `account.cpp`, `receipt.cpp` | pure; amounts and nonces wrap at `Wrap` (2^64); the list of nonces is kept sorted (`Sorted`), as each check sorts it; `get_hash` tells apart the nonce and how often an amount occurs, because the code hashes the amount where it means the asset |
| `Ledger` | `connector_account.cpp` 303-736, 851-879, 952-972 | `check_block_body` and the application of a block are folds over its items; a rollback operation is a record executed in the order it was written; `PackageRoot` has the three outcomes of `package_next_block_MPTR` |
| `BlockPackager` | `connector_account.cpp` 76-301, 996-1023 | one iteration of an inner loop is one step: `DropExpired`, `DropNullOP`, `PostponeAppend`, `PackAppend`, `PackEstablish`, `EndOfPass`, `DropAffair`, `PackAffair`, `EndOfAffairs`, then `TryPackage` for the dry run |
| `BlockStore` | `connector_block.cpp`, `connector_account.cpp` 738-849, 912-950, genesis in `application.cpp` | one action per LevelDB write; `Restart` reads everything back from the disk |
| `Chain` | the flow, `interface_db.cpp` | `Submit`, `PackageHeader`, `transaction_pool_waiting_count`, which reads the time and erases what has expired |

Abstractions. The trie is the map from addresses to accounts, its root what the
account hashes can tell apart. A Bloom filter is a set: false positives are left
out. A block's hash is the serial number of its packaging (the header contains
the time, and not the trie root). A restart that finds a trie other than that of
the stored accounts ends in the state `damaged`: later operations of the code throw
or work on mixed data, and the model does not follow them. `UpdateConnector` is an
action of its own, because no code in the repository calls `update_connector`; when
it is not taken, the second block of a process has a stale header and is refused.

`DurableChain` is what the stored chain promises: it grows by one block at a time and
each block names its predecessor.

### Connections

`include/rpc/server/reactor.cpp` and the part of `sub_reactor.cpp` that deals with
connections. Descriptors are numbers the kernel hands out again, lowest first; the
code keeps the numbers in slots, queue entries and the table `con_queue`, and the
model keeps apart what the number means to them and which socket is behind it.

| Action | Code |
|---|---|
| `RunTask`, `NoDatagram`, `ForwardKnown`, `AcceptNew`, `NoDescriptor`, `ConnectFails` | the loop of the main reactor: one due timer, then one datagram; `acceptConnection` |
| `Start`, `EpollWait`, `EndTimers`, `EndNew`, `EndEvents` | the stages of a sub-reactor's loop |
| `CheckDeleteSocket`, `SendResponse` | the timers: close a silent connection, answer from the slot a finished task was given |
| `TakeSlot`, `AddFails`, `Refuse`, `UseSlot`, `ThrowData` | the five ways through an iteration of `dealWithNewConnection`, with `findConnectionsEmptyPlace` and `clearTimeoutConnections` inside the first three |
| `EventErr`, `EventIn`, `EventOut` | the epoll events; their pointers were read before the timers and the new connections changed the slots |
| `StopMain`, `StopWake`, `StopSub`, `JoinSub` | `Reactor::stop`, `SubReactor::stop` |
| `ClientSend`, `SocketError` | the clients and the kernel |

Which silent connections `clearTimeoutConnections` finds is a choice (`C`), because the
120 seconds of silence are not counted. What a packet means to the request it
belongs to is `MessageServer`'s subject: here it completes a request, which starts a
task, or it does not.

### Transmitter, TransmitterExchange

`include/rpc/client/transmitter.cpp` and `include/rpc/server/transmitter_link_reactor.cpp`,
whose loops differ in where packets come from and in how many timers a turn runs;
`linked` chooses. `LoopTest`, `Doze`, `SendMessages`, `JoinAsync` and `EndTimers` are the loop;
`ReceiveACK`, `ReceiveReset`, `ReceiveHeartbeat`, `ReceiveEarly`, `ReceiveResponse` and
`ReceiveUnknown` the packets; `TimeoutEvent`, `ResponseTimeoutEvent` and `DeleteMessage` the
timers; `DecodeResponse`, `RunCallback` and `PostDelete` are `trigger` in a pool thread (or in
`std::async` when the pool refuses, whose future the loop then waits for): it reads
`isSuccess` before it decodes, the wrapper of the call-back (`transmitter_event.hpp`)
reads it again, and the loop may write it in between, so these are two steps;
`EraseActive` is the
main reactor's timer. The value of `last_active` is a time that timers compare with the
one they were set with: the timers that are still valid are counted, and a packet
invalidates all of them or, when it comes in the same millisecond, none.

The link reactor's queue of packets (`newData`) is not kept apart from the channel: a
packet that was accepted while the message existed and is looked at after its deletion
is the second way into `spinning` (`ReceiveUnknown`).

`TransmitterExchange` composes it with the network and the server of `RpcExchange`, the
server's deleting timers included. Losses and the reused buffer are left out of its
`Next`: they are `RpcExchange`'s subject and would multiply its states. `MaxInFlight` bounds
the packets in flight; `sendto` may drop any packet, so the bound is a network that
drops what it cannot hold, and the server waits (`NetworkCarries`).

### TimerWheel

`include/timer/timer_wheel.cpp`: one task, the thread and a caller. `SetTask` is
`setTimerWheelTask` (the bucket is computed before its mutex is taken, hence `PushTask`),
`ClearTask` the two clears, `Cascade`, `Execute` and `Advance` a turn of the thread, `Pass` a
millisecond. Sizes of the levels are parameters; the masks and shifts are written as
the quotients and remainders they compute, including the two that do not fit their
level (section 7).

### MerklePatriciaTrie

`include/db/merkle_patricia_trie.hpp` with its change store and its use in
`connector_account.cpp`. A node is named by the digits that lead to it, as the code's keys
do. `Walk` is the descent all operations share; `InsertLeaf`, `InsertSplit`, `Update`
(`search_and_mark` and the caller's change), `Search`, `EraseUnderRoot`, `EraseMerging`,
`EraseAmongMany` and `GetHash` are the operations; `Package`, `Commit`, `ClearChanges` and
`Restart` what the connector does with the change store. Nodes are loaded from the
disk when a walk or a hash reaches them. A hash is the set of what it was computed
from. `Trie(f)` is the reference: the compressed trie of a map of accounts, defined
without any operation.

## 4. Runs

| Run | Instance | Result |
|---|---|---|
| `pool_fixed` | 2 callers with a batch of two and a single task, 2 core workers, queue of 2, DiscardAllTasks, one spurious wakeup | one place per task, only late commits left behind, and under fairness `close` returns and accepted tasks settle |
| `pool_flexible` | 3 core workers and a dynamic one whose creation may fail, 4 tasks, all three strategies | the two counters and a stopped pool after `close`; no deadlock check, because the manager may really wait for ever (section 7) |
| `pool_wait_hang` | 1 core worker, WaitAllTaskFinish | **violated**: `close` does not return |
| `rpc_safety` | request of 2 and response of 2 pieces, two deletions by the server's timers, one stray packet on the listening socket, a pool that may refuse | executions, acknowledgements, success, and the refinement of `RpcCall` |
| `rpc_live` | request of 4 pieces, 2 tries, one fault, a pool that may refuse | phase 2 only after delivery; every call ends, unless the pool has refused the request (`Refused`) |
| `rpc_reset` | request of 2 pieces, one expiry | **violated**: the call never ends |
| `chain` | 2 addresses, 2 assets, supply of 4, seven transactions and two affairs to choose three submissions from, bodies of at most 2 transactions, 3 packagings, 1 crash | overspending, nonces, balances, supply, replay, completeness of a commit, the stored filter, and the refinement of `DurableChain` |
| `chain_atomic` | the same without a crash | **violated**: a refused block changes an account |
| `connections` | 3 clients, 1 sub-reactor with 2 slots, 2 descriptors, 3 packets, one socket error, two failing calls, one task | the count covers the slots, no descriptor is lost but for the two leaks of section 7, no route is, every connection has a socket of its own, what epoll watches is open and in its slot |
| `transmitter` | request of 1 and response of 2 pieces, one try, one deletion by the server's timers, a pool that may refuse, 2 packets in flight, Transmitter and link reactor | the call-back runs once and hears of a success only with the whole response; the refinement of `RpcCall`; a triggered message is deleted |
| `wheel` | levels of 4, 2, 2, 2 and 2 buckets, ticks of 2 ms, six delays and two periods, the thread up to 1 ms late | a task of the first two levels is at most two ticks early and one late, beyond the thread's own delay; setting a periodic task again never waits for a mutex the thread owns; every task runs, a periodic one again |
| `trie` | 4 keys of three digits with shared prefixes of one and of two, 2 contents, 3 changes between commits | the trie in memory and the trie on disk are those of the accounts |

In `connections` deadlock is not checked because a sub-reactor may really block in
`recvfrom` (section 7), and in `transmitter` because its loop may stop for good; those
states are exempted in the properties by name (`dangling`, and the stages `ended`, `joinTimer` and
`spinning`), not left out.

In the chain runs deadlock is not checked: a node whose rollback or restart has
failed stops. Two properties (`BalancesAreHistory`, `SupplyConserved`) are
stated while the node is `Sound`: no `total_rollback` and no `insert_block` has thrown and
no crash fell between the accounts and the state. Outside of it they are false,
and section 7 says how. `NoReplay` needs only that no insertion has thrown.
`SupplyConserved` is also stated for `WellFormedInputs` (section 6), which `MCChain` assumes
so that the run does not check it emptily.

`CallReturns` has one exemption, `Refused`: the pool has refused the request, which stays
marked as triggered, so nothing will ever execute it. The server answers with
heartbeats, each of which renews the client's tries, and the call does not end as long
as they arrive. With two tries a silence is followed by a retry, and a heartbeat
by more of them.

Bounds. Two callers, two workers and a queue smaller than the number of tasks
are the least with which a commit is refused, a worker sleeps while another
works and a notification can go to the wrong one. Three core workers are
needed for `vacantThreadsCount > 2`, without which the manager never kills. Two
pieces are the least with an acknowledged proper prefix. Windows larger than one
take four pieces, as in `rpc_live`, which was also run with three tries (the default of
the code), and with three tries, a stray packet and a response of two pieces for a request
of two. One expiry already puts a second request with the same id behind an
executed one. On the chain three submissions are an asset and two transfers that
it cannot both pay, or the same transfer twice; a third packaging follows a
rollback and a refused block; one crash reaches every pair of writes. A nonce of 2^64 - 1
takes five submissions (section 7); the invariants were also run on five inputs with
which it comes about, and the theorem about `FreshNonces` covers it. Three clients for two slots make one wait or
be refused, and two descriptors make the kernel hand a closed number to another
client; `connections` was also run with 4 packets, and with 2 sub-reactors of one slot
each. A response of two pieces is the least the client acknowledges in part. The
levels of the wheel keep the order of the real sizes (256, 64, ...), and with 4, 4, 4,
2, 2 the run also passes. Four keys of the trie give a leaf under the root, a split, a
merge and a node with three children; it was also run with five keys and with four
changes. The theorems
remove the bounds for the safety properties they are about.

Fairness. Workers, callers, the manager and the closing thread are threads that
run whenever they are not blocked: weak fairness of each one's steps, where the
mutex is fair enough that a thread that keeps asking for it gets it, hence strong
fairness where a step needs the mutex. In the exchange the client is a running
thread whose receives have a timeout, the pool runs its tasks and the reactor its
short timers; of the network the runs ask only that new pieces of the request and
acknowledgements of the response reach the server in the end if they are sent again and
again. Packets to the client, and its questions and heartbeats, may be lost for ever. The deleting timers get no fairness: they may or may
not come before the call ends. In `transmitter` the loop takes its steps and comes to
the end of its packets (its receives have a timeout); the timer that deletes a
message gets strong fairness, because it is due in every turn from then on while
other timers may run first; the pool runs its tasks. In `wheel` time passes, the
thread runs and a caller gets the bucket's mutex.

## 5. Findings

Three places where the code does not do what its comments
say, each shown by a run:

- `pool.cpp:371`. `close` with WaitAllTaskFinish clears `runState` and notifies without
  the mutex; a worker in its predicate window sleeps for ever and `close` joins it.
- `invoker.cpp:132`. When the server has forgotten a request it answers StateReset;
  the client keeps its acknowledged prefix and never sends those pieces again.
- `connector_account.cpp:491`. A transfer that fails while a block is applied is undone
  twice: once on the spot, once by the rollback operations whose removal stands
  after the throw. The sender's nonce falls by one and the amount is credited (in the
  trace of the run that amount is 0, and the nonce shows it).

## 6. Proofs

`ThreadPoolProofs` proves for every number of tasks, callers, workers and queue
places, from `PoolAssumption`, `BatchAssumption` and `SlotAssumption`, that the
invariants of the two pool runs hold, and that the queue keeps its bound: `TypeOK`,
`QueueBounded`, `TaskInOnePlace`,
`VacantAccounting`, `DynamicAccounting`, `OnlyLateTasksLeft` and
`TerminatedMeansStopped`, the last three parts under `CloseAfterStart` (a pool closed
before its first commit starts again; see section 7). None of them is inductive.
The strengthening in `ThreadPool` has six parts: `FreshInv` (a task no caller has
committed is nowhere), `WorkerInv` (a worker holds a task exactly while it works),
`SlotInv` (which slots can have threads, and that flags agree with them but for the
slot being killed), `PoolInv` (what is true before the start), `CloseInv` (what each
stage of `close` has established) and `StopInv` (a stopped worker stays stopped).
`Invariance` proves them together, one step per action and under it one per
part the action can disturb.

`RpcExchangeProofs` proves, for every number of pieces, faults, tries and expiries,
`TypeOK`, `WaitsOnlyAfterDelivery`, `OneExecutionPerRequest`, `ResponseAckSound`,
`SuccessIsReal` and `Refinement` (`Spec => ImplementsCall`). The argument is an
induction on `IInv`: `PacketInv` limits what is in flight, `DeliveryInv` says that no
acknowledgement, in flight or accepted, promises a piece the server never stored,
`ResponseInv` says the same of the response, and `ExecutionInv` pays each execution
with a trigger flag that is set or was deleted by the timer.

The proofs of both clients rest on two lemmas about the network, stated in the proof
module of each: `getAckNumber` returns the first missing piece (`AckNumber`), and
receiving adds nothing to what is in flight (`ReceiveFacts`).

`ConnectionsProofs` proves, for any number of clients, sub-reactors, slots,
descriptors, packets, errors and failures, from `ConnectionsAssumption`, all six
invariants of its run: `TypeOK`, `CountCoversSlots`, `NoDescriptorLeak`, `NoStaleRoute`,
`OwnConnections` and `WatchedConnections`. `IInv` adds to them what the code
relies on without saying so: only an open socket has something to report
(`KernelInv`), a slot that epoll points to has an address (`AddressInv`), a round of
`dealWithNewConnection` looks no further than the queue (`RoundInv`), nobody stops before
the main reactor (`StopInv`), an open descriptor has its number in a slot or in a queue
entry unless its `connect` failed (`NamesLast`), and the slots of a joined sub-reactor
hold closed numbers (`JoinedInv`). The heart is
`Owned`: as long as no descriptor was closed under its holder, no two holders, slots or
queue entries, have the same number, each one's socket and route are its client's, and
no erase of that route is pending. The footprint lemmas say which actions touch which
of these variables, so that the cases are few.

`TransmitterExchangeProofs` proves `TypeOK`, `CallbackSound` and `Refinement`
(`Spec => ImplementsCall`) for every number of pieces, retries and timers. `IInv` is
`TypeOK` with `PacketInv` (what can be in flight), `ExecutionInv` (an execution is paid for
by the trigger flag or by an expired request, and every trace of a response by an
execution) and `CallbackInv` (the trigger flag lets the call-back start once, the
message goes after it, and what claims success holds the whole response, at either of
the two times it is read). The refinement allows one execution more than the requests
the server's timer has deleted.

`TimerWheelProofs` proves `NoSelfLock` and `OnTime` for every size of the wheel, tick and
set of delays, from `WheelAssumption`. `OnTime` compares a time with masks and shifts of a
counter, so most of the work is arithmetic on quotients and remainders. The
invariant is `Slack`: what is left of the delay beyond the ticks until the task's bucket
comes up stays within a tick and the thread's delay, through the first level
(`InFirst`), the second (`InSecond`) and the cascade between them.

`ChainProofs` proves about `Chain`, for every set of inputs, every limit and any number
of blocks, rollbacks and crashes, the refinement and six of the eight invariants of
the run `chain`; `BalanceProofs` proves the other two. Each rests on the ones before it:

- `ChainIsDurable` (`Spec => ImplementsDurable`) on `ChainInv`, because the refinement alone
  does not know which block is about to be written: between blocks the connector
  stands at the stored top (`QuietAgrees`), an inserted block is the next one
  (`WritingAhead`), the pending commit knows the top a rollback returns to
  (`CommitKnowsTop`), a block is on disk before its state (`BlockFirst`) and none below
  is missing (`StateStored`).
- `ChainTypeOK` on `DataInv`: the types of everything in memory and on disk, where the
  iterator may stand, and what is queued for writing at each step.
- `CommitIsComplete` on `RootInv`: disk and memory have the same root, or will have it
  when the queued commit is written over the disk.
- `StoredFilterComplete` on `FilterInv`: the filter in memory knows the stored chain and
  the block in hand, and the one about to be stored is that filter.
- `NoncesAreFresh` on `NonceInv`: a body refuses and takes back items in ways that
  leave foreign nonces in the receipts (section 7), so a receipt does not list the
  nonces of its transactions. What holds is weaker and enough: for every
  transaction taken, the sorted list has no room left for its nonce (`Uses`). The nonces
  start after the account's, or from 0 after 2^64 - 1 (`BaseOf`).
- `BodiesAreFunded` (`NoOverspend`) on `SpendInv`: the entry of an asset in a receipt
  adds up, modulo 2^64, what the body spends, and its cover is the balance and
  what the body establishes.
- `NoTransferTwice` (`NoReplay`) on `ReplayInv` and `StoppedInv`: the accounts on disk have passed the
  nonce of every transfer of the stored chain, those in memory also that of the
  block being written. It needs that the root tells nonces apart, that applying
  a block lowers no nonce, and `NonceRoom`: no nonce of an account or a
  transaction comes, with a block's affairs, to 2^64 - 1, where the code
  starts again from 0 and the property is false. It covers a crash between any two
  writes and the two ends of section 3 (`failed`, `damaged`), not an insertion that has
  thrown. TLC has checked `ReplayInv` and
  `NonceRoom` on the instance of the run `chain`.

`BalanceProofs` proves `BalancesAreHistory` and `SupplyConserved`, for every set of inputs
in which each transfer pays out what it takes (`WellFormedInputs`; `SupplyConserved` states
it itself), and on the way `RollbackIsExact`.

- The hypothesis is needed, and the code does not ensure it. `check_block_body` compares the outputs of a transfer with
  its amount modulo 2^64, and only for a sender that has an account; a sender that
  establishes an asset and transfers it in the same block may pay out more than it
  takes, and TLC finds the supply exceeded when such a transfer is among the inputs.
  `MCChain` has it as an ASSUME, so TLC evaluates it for the inputs of the runs.
- A supply is a sum over all addresses, so `Accounts` assumes them finite
  (`FiniteAssumption`: hashes and names have a bounded length).
- Neither property is inductive. `BalanceInv` says in addition, while no insertion has
  thrown and no crash has torn a block's writes apart, that the accounts on disk have
  the history of the stored chain (`DiskBalanced`), which is what a restart goes back
  to; that the queued commit, written over them, gives the balances in memory
  (`CommitBalanced`); that an asset the filter does not know has no supply
  (`SupplyOK`), without which an asset could be established on top of an old one;
  and what executing the queued rollback would give (`RollbackBalanced`). TLC has
  checked `BalanceInv` on the instance of the run `chain`.
- Forward (`AppendMoves`, `EstablishMoves`): a transfer moves its amount and no credit
  wraps, because the supply bounds each balance; the sum over the addresses is
  taken apart one address at a time (`SubsetInduction`).
- Backward (`UndoBalance`, `UndoesNext`): the operations that undo a block are executed in
  the order in which it was applied, not in reverse, and `DELETE_ACCOUNT` and
  `UPDATE_DELETE_ASSET` throw balances away. But they take only accounts that are new
  in the block and assets the filter did not know before it; every other balance
  comes back, modulo 2^64 (`Even`). An asset the filter did not know had no supply. The
  root, which `total_rollback` compares, tells how often an amount occurs in an account
  and not of which asset; as the known assets agree, counting leaves nothing of an
  unknown one (`RootBalances`).

`LedgerProofs` has what they need about the application of a block. It is a fold over
the block's items, so these lemmas are inductions over data. The library's induction
theorems take an operator, which the provers cannot instantiate; here the
induction is stated with a set (`Induction`, from `WFMin` and
`NatLessThanWellFounded`), and each fold is unfolded once into the function of its
intermediate values (`TransactionsUnfold`, `AffairsUnfold`, `UndoUnfold`, `CreditUnfold`).

Only model-checked:

- liveness, which the prover does not have under fairness: `CloseTerminates`,
  `AcceptedSettles`, `CallReturns`, `TriggerSettles`, `RunsAgain`, and the runs that expect a
  violation;
- `Canonical` and `DiskFaithful` of `MerklePatriciaTrie`. Their inductive invariant speaks of
  the nodes that are not loaded too, of the change store as a difference between two
  tries, and of hashes that are a recursive function of the whole subtree; that is an
  induction over the depth of the trie which has not been attempted.

## 7. Seen while modelling

Behaviours of the code, that no run of its own reports. The models have them unless
it is said that they do not.

Pool, RPC and chain:

- The manager's kill has the same window as `close`: it clears the slot's flag and
  notifies without the mutex, then joins. A lost notification stops the manager,
  and `close`, which joins the manager. No liveness of a flexible pool is claimed.
- A commit that read `stopCommitState` before `close` set it is accepted after the
  queue was drained, reports success and never runs. `OnlyLateTasksLeft` says that
  these are the only accepted tasks left behind.
- `close` before the first commit, then a commit: `init` runs and the terminated pool
  has threads again. `CloseAfterStart` excludes it from the runs and the theorems.
- A dynamic thread whose creation throws leaves its slot marked as running; when the
  manager picks that slot to kill, there is nothing to join.
- `vacantThreadsCount` counts idle core workers minus busy dynamic ones.
- A request deleted by its timer and then repeated by a late duplicate is executed
  again: at-most-once needs the expiry to be longer than a packet's life.
- A refused commit leaves the request marked as triggered; the client is answered
  with heartbeats, which renew its tries for ever, and learns nothing of the refusal
  except, once, from a packet with message id 0, which it skips. `CallReturns` exempts
  this case as `Refused`.
- `package_next_block_body` need not return: a refused affair, and a refused transfer of
  an asset that is new to its sender's receipt, do not advance the iterator.
- A transfer refused for its amount leaves its nonce in the receipt when the asset
  was already there; `std::remove` of a refused affair's nonce also removes an
  accepted one that is equal; `pop_back` removes the largest nonce, which need not
  be the one just added. Such a receipt refuses later items that would be legal;
  `FreshNonces` and `NoOverspend` say that it never accepts an illegal transaction. An
  affair with a used nonce it may accept, after that `std::remove`.
- The amounts a receipt adds up wrap at 2^64 without a check, so `NoOverspend` is about
  the wrapped sum: transfers that together exceed 2^64 pass the packaging, and fail
  when the block is applied. `check_block_body` compares the outputs of a transfer with
  its amount, wrapped too, and only for a sender that already has an account; a
  transfer that pays out more than it takes is possible there (section 6).
- A nonce wraps from 2^64 - 1 to 0, and old transfers become acceptable again. It need
  not count up to there: establishing an asset leaves the nonce of an existing account
  alone and undoing it lowers it (`connector_account.cpp:708`), so a block that throws
  after an account with nonce 0 has established an asset leaves 2^64 - 1, and the
  account's next transaction has to have nonce 0.
- `total_rollback` compares the root only: accounts with the same nonces and amounts
  of other assets have the same root, so `CommitComplete` compares roots too.
- A PureData affair uses up a nonce when it is packaged and not when the block is
  checked, so a database affair behind it makes the block fail its own check.
- The items of a block that the header or the check refuses are lost: they have
  left the queues.
- Establishing an asset does not raise the nonce of an existing account, and a
  transfer sets it to the transaction's nonce plus one, so that every second nonce
  is skipped between blocks. Undoing a transfer lowers the nonce by one, so
  `total_rollback` of a block with a transfer throws on the root hash, unless the
  sender's account is new in the block or something else in it lowers the nonce too
  when it is undone, as an asset established by an existing account does.
- After repeated refused blocks (`connector_account.cpp:491`) a nonce can fall below that
  of a packaged transfer, which can then be packaged again.
- A crash between the accounts and the state leaves accounts of a block that is
  not in the chain; the filter does not know their assets, so an asset can be
  established a second time. A crash between the trie and the accounts leaves a
  trie that names accounts the disk does not have.
- A crash between the genesis state and the genesis block leaves a chain without
  block 0, and the next start finds a state and does not write it.
- `block`'s copy and move constructors leave out the signature, so the block that
  `input_block_cache` queues and the disk receives is unsigned.
- `check_transaction` requires a nonce at or below the account's instead of above it,
  and an asset that already exists to establish one; nothing calls it.
- The stored response shares memory that is given back when the local one is
  destroyed (`sub_reactor.cpp:673`); `RpcExchange!ResponseIntact` is false.
- A full body ends a pass, not the packaging; each further pass adds a transaction
  beyond the limit, and the header refuses the block (`connector_account.cpp:248`);
  `Chain!BlockLimit` is false.
- `total_rollback` restores the filter of the block it removes
  (`connector_account.cpp:967`); `Chain!FilterMatchesAccounts` is false.

Connections:

- An entry that is refused for want of a slot, or whose EPOLL_CTL_ADD fails, has its
  descriptor closed and is not popped, nor is a packet whose slot is gone ("Throw
  data"): it stays at the head, and everything behind it waits. Its number may by
  then belong to another client. A refused client's route stays in `con_queue`.
- EPOLLERR closes the descriptor and leaves the number in the slot, so that it is
  closed again later, with the connection and the route of whoever has it then.
  `dangling` marks these cases.
- A route that is not erased yet, or erased too late, sends a client's packet to the
  slot of another; a slot reused while a task of its former client still runs
  answers the wrong client; `Connections!AnswersReachTheirClient` is false.
- A slot that is closed and given away in the turn in which epoll reported it is
  read although nothing has arrived: the socket blocks, and so does the loop
  (`sub_reactor.cpp:98`).
- EPOLLOUT disarms the switch after `dealWithNewConnection` has run, so an entry queued in
  between waits for the next event; `stop` wakes the loop before it clears `runState`.
- A failing `connect` leaks its descriptor, which then takes packets nobody reads; an
  entry still queued when `stop` joins its sub-reactor is never looked at again and leaks
  its descriptor too, since `stop` closes those of the slots only (`sub_reactor.cpp:684`).
  `NoDescriptorLeak` names both and says that there is no third.
- Each use of a slot by a new client starts another `checkDeleteSocket` timer.
- Not in the model: a stop while a sub-reactor is starting, the destructor, which
  repeats `stop`, and a `bind` that fails (`reactor.cpp:156`): the code logs it and goes
  on to `connect`, so that the connection would answer from another port; none of the
  variables here depends on the port. `MaxFailures` bounds the system calls that fail,
  the EPOLL_CTL_ADD for want of memory included.

Transmitter:

- When the pool refuses inside a timer, the loop waits for a future whose function
  waits for `timer_mtx`, which the loop owns: it stops for good.
- The link reactor does not pop a packet of a message it no longer has, and looks at
  it for ever with `queue_mtx` held, which stops the main reactor too.
- `send` notifies without `condition_mtx`: a loop about to sleep misses it.
- Response data that arrives in phase 1 only switches the phase; no timer is set, and
  if nothing else arrives the message is never triggered. A heartbeat of the server
  ends the chain of response timers in the same way. StateReset in the response
  phase sends the first window and no more.
- A timer of the request that comes after success sets `isSuccess` to false before the
  call-back reads it.
- `trigger` after a timeout finds `isSuccess` false and does not decode; when the last piece
  arrives before the wrapper of the call-back looks (`transmitter_event.hpp:38`), success is
  told with data the middleware has not seen. `TransmitterExchange!SuccessIsDecoded` is
  false.
- Not in the model: races on `messages` and on the timer tree of `GlobalEntry`, the resent
  windows of a window larger than one, and answers the server never sends.

Timer wheel:

- The third level's bucket is computed with the second's shift, those of the fourth
  and fifth are always 0: long delays run early or late, and never get lost.
- The cascade from the third to the second and from the second to the first level
  clips a delay at one tick too few.
- A task set while the thread works on a tick may come a whole turn late, and so may
  a period of exactly one turn of the first level.
- Not in the model: a call-back in the wheel's thread that sets a delay below the tick,
  which waits for the mutex the thread owns; the cascade's writes into lower buckets
  without their mutex; the sleep after 2^32 ticks.

Trie:

- An erase that leaves two or more brothers does not record the parent again; the
  comment at `merkle_patricia_trie.hpp:450` says that deleting is enough. When the
  parent is already in the change store, which takes a block that throws after it
  has inserted an account, the commit writes a parent that lists a deleted child, and
  a process started later throws when it gets there. `outdated` and `dirty` follow these
  nodes; `DiskFaithful` exempts their list of children, and `Restart` is not taken from
  such a disk.
- The hash of a node is the sum of its children's, whatever their order; the hash of
  an account takes the amount twice and the asset not at all. The root is stored
  under the key of 64 zeros, which is also the zero address (not in the model).
- The hash stored with a leaf may be an old one; nobody reads it.

## 8. Not modelled

Part by part in `PROJECT.json`. Left for later: section 2. Left out for good:

- LevelDB writes that fail. In the models a write succeeds, or the process ends before
  it. In the code `total_commit_to_leveldb` has taken an entry from its queue before it
  writes it and returns false when that fails (`connector_account.cpp:919-922`, 931-933,
  939-941); the flow of `docs/workflow/create_block_flow.md:92` ignores the result and
  writes the block and the state all the same, so that the chain gets ahead of its
  accounts, trie or filter. A failing write of a block or a state throws
  (`connector_block.cpp:142`, 163) and leaves the block at the head of `block_queue`;
- a core thread that cannot be created (`pool.cpp:94-102`), and the instant between the
  manager's read of the vacancy counter (`pool.cpp:205`) and its decision;
- a stored filter that is not found: the constructor then leaves the root hash without a
  value (`connector_account.cpp:795`), which cannot happen as long as
  `StoredFilterKnowsAssets` holds;
- the pure data formats (serializer, protocol header fields other than those the
  exchange uses, JSON) and the plain trees (Patricia trie, Trie, Merkle tree), whose
  behaviour is what a recursive function computes and which the chain does not use
  or uses for a root only;
- `ConcurrentThreadPool` and the executor tokens (only their tests use them), `ReactorPool`
  (no code of its own beyond creating threads), registries, middleware and client
  stubs (tables filled before the start and only read afterwards);
- cryptography, logging, command line and singletons (calls into libraries, or no
  state), the P2P router and consensus (stubs without behaviour);
- the vendored libraries under `dependency/` (catch2, spdlog, LevelDB, concurrentqueue,
  inicpp): most of the repository's lines, and none of its own logic. LevelDB appears in
  the models as what the code uses it for: atomic batches that survive a crash.
