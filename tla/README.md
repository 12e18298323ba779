# A verification project for NetGrid

NetGrid is a game-server kernel in C++: a single main thread runs the logic modules, and a
few helper threads execute tasks, move bytes, accept sockets and write logs.  Nearly
everything that is hard to test in it lies between the main thread and a helper thread
(lock-free or half-locked lists and rings), or between the main thread and itself (callbacks
that call back into the kernel).  That is what this project models.

Source paths below are relative to `src/Project/`.

## 1. The system

### Components, their state, operations and interaction

| component | state | operations | talks to |
|---|---|---|---|
| **Async queue** `Kernel/Async`, `Public/TList.h` | per thread six chains (`_readyExec`, `_complete`, each main/swap/work), two mutexes; per task `next`, `_valid`, `_executed`, `_successed` | `StartAsync`, `StopAsync`, `Loop`, `ThreadProc` | called by logic and by `Kernel::Loop`; calls the handler's `OnExecute` (worker) and `OnSuccess`/`OnFailed`/`OnRelease` (main) |
| **Timers** `Kernel/Timer` | `_jiffies`, root and node slots, the fields of `TimerBase` | `StartTimer`, `KillTimer`, `Process`, `Cascade`, `AddTimer`, `Exec`, `End` | callbacks `OnStart`, `OnTime`, `OnTerminate`, from which clients start and kill timers |
| **Ring queue** `Public/CircularQueue.h` | slots, wrapping counters `_front`, `_tail` | `Push`, `TryPush`, `Pop`, `Size` | between main thread and epoll thread, main thread and listener thread |
| **TCP connections, epoll engine** `Kernel/Net` | connection and driver per session, send and receive buffer, `_ctlAddDrivers`, `_readyDelDriver`, two event queues, sockets | `Send`, `Close`, `Process`, `Run`, `BindEpoll`, `UnBindEpoll`, `OnEvent`, `RemoveConnection` | sessions (`OnEstablish`, `OnRecv`, `OnTerminate`, `OnRelease`), the listener, the network |
| **Listener** `Kernel/Net/NetListenerMgr` | maps of listening and connecting sockets, the thread's socket table, two event queues | `CreateNetListener`, `CreateNetConnecter`, `Process`, `Run` | hands sockets to `NetService` |
| **Logger** `Kernel/Log` | three lists (threadA, swap, threadB) for each of: nodes to write, nodes to free, nodes of other threads | `AsyncLog`, `ThreadLog`, `Process`, `ThreadRun`, `Destroy` | every thread |
| **Byte buffer** `Public/CircularBuffer.h` | bytes, two signed counters | `Write`, `Read`, `GetCanReadBuff`, `GetCanWriteBuff` | TCP connections |
| **Frames** `Kernel/Frame` | list of frames | `AddFrame`, `DelFrame`, `Process` | callbacks |
| **Harbor** `logic/Logic/Harbor` | sessions by node, delayed-open and reconnect timers | connect, handshake, open, close, reconnect | TCP connections, timers, Cluster |
| **Cluster** `logic/Framework/Cluster` | the master's map of open nodes with the addresses they gave | `OnOpen`, `OnClose`, orders to connect (`OnRecvClusterAdhocMsg`) | Harbor on every node |
| **Login queue** `logic/Framework/LoginControl` | waiting accounts, rate | enter, leave, force, pass | timers |
| **Match-making** `logic/Logic/Search` | the people of a channel with value, window and number asked for; an `_update` flag | enter, leave, expand the windows, search | timers; a callback with the sets found |
| **Object tables** `logic/Framework/ObjectMgr` | rows, an index by key, a copy of its place in each row | `AddRowByKey`, `DelRow`, `SwapRow`, `FindRowByKey`, `DEL_TABLE_ROW` | the logic modules |
| **Mysql manager** `logic/Core/MysqlMgr` | connections, their last results | `PushMysqlHandler`, `ExecSqlInAsyncThread`, with retry | async queue, the database |
| **Http manager** `logic/Logic/HttpMgr` | curl handles, the request of each handler | `Get`, `Post`, `Stop` | async queue, the network |
| **Pools** `Public/TDynPool.h`, `Public/TIndexPool.h`, `Public/THeap.h` | blocks and free chunks as intrusive lists; free indices as a heap in an array | `Create`, `Recover` | tasks, timers, sessions, clients |

`PROJECT.json` lists all components, also those that are not modelled, with the reason.

### What is hard

* *Half-locked lists.*  `MergeListByLock` reads the shared chain before it takes the lock, and
  a popped node keeps the link it had in another thread's chain.
* *Lock-free rings* whose counters wrap, with two push operations that publish in opposite orders.
* *Two threads with a bounded queue in each direction*, each waiting for room in it.
* *Descriptors are reused* by the system while events that name them are still queued, and
  drivers are deleted while the other thread may have events that point to them.
* *Reentrance*: a timer is killed in its own callback, or killed and restarted in another's
  `OnTerminate`.
* *Boundaries* of the wheel's levels, of counters and of bounded tables.
* *Shutdown* while data is on its way.
* *A resource shared by a rule*: connections and curl handles have no lock, only arithmetic on ids
  that must never give one to two workers.
* *Copies of state*: a place in a row, a pointer to a request, a flag that says whether anything
  has changed.
* *Two processes*: either may crash, close or be cut off between any two steps of a handshake,
  while the other one's timers still refer to its session.

### What makes each component correct

* Async: tasks are executed and completed once and in order, none is lost, none is touched after
  its release, every task is completed in the end.
* Timers: called in exactly the jiffy they are due, as often as asked, never after `OnTerminate`;
  a `TimerBase` is in a list exactly while it can be called, and recycled only when nobody has it.
* Ring queue: first in, first out, nothing overwritten, counters right across the wrap.
* Connections: destroyed once, only after both threads are done with them; each session gets one
  `OnTerminate`; an event only ever reaches the connection it was meant for; a close ends in
  destruction.
* Logger: both streams written in order and completely, nodes freed once and after being written.
* Byte buffer: no unread byte overwritten, bytes read in the order they were written.
* Listener: every session hears of its own socket, once, and whatever happens to it.
* Harbor: no pointer to a deleted session, the registry agrees with the sessions and with what the
  listeners know, a client goes on trying until it is told not to, a handshake on a live connection
  comes to its end.
* Cluster: after any crashes, reconnections and lost links, two open nodes have been told of each
  other, and in the end each of them is told.
* Login queue: first come, first served; never more than the server has room for; nobody waits for
  ever.
* Match-making: everybody in a set accepts everybody else's value; a set is as large as its members
  ask for; nobody is in two matches of a search; a search that is skipped would have found
  nothing, as far as nobody left or was matched before.
* Object tables: the index has exactly the rows that exist, and a row knows its place.
* Mysql and Http: a caller never gets the answer to somebody else's question, statements of one id in
  their order, and every caller is told.
* Pools: no chunk or index is given out twice, nothing in use lies in freed memory, nothing is lost.

## 2. Modules

| module | models | actions and code |
|---|---|---|
| `AsyncThread` | one `AsyncThread` | `StartAsync`, `StopAsync`; `Loop` as `LoopBegin` … `Release`; `ThreadProc` as `WorkPop` … `WorkDone` |
| `TimerWheel` | `TimerMgr`, `TimerBase`, `TimerWheel` | `StartTimer`, `KillTimer`, `EndFinish` (the second half of `End`), `NextJiffy`, `ExecBegin`, `ExecEnd`, `JiffyDone` |
| `TimerService` | nothing: the abstract specification of timers | |
| `CircularQueue` | `CircluarQueue<T>` | `Push`, `PushWrite`, `PushAdvance`; `TryPush`, `TryRoom`, `TryTake`, `TryFill`; `Pop`, `PopRead`, `PopAdvance` |
| `NetEngine` | `TcpConnection`, `NetService`, `NetIOEngine`, `IOEngineEpoll`; of `NetListenerMgr` the hand-over | main thread: `Send`, `Close`, `LoopBegin` … `ReadyDone`, `MainPush`; epoll thread: `FlushData` … `WorkPush`; the network: `Accept`, `PeerClose` |
| `Logger` | `Logger` | main thread: `AsyncLog`, `ProcessWrite` … `ProcessFree`, `Destroy`, `Joined`; log thread: `FetchWrite` … `WriteThreadNode`; any thread: `ThreadLog` |
| `CircularBuffer` | `CircluarBuffer` as `Send`, `OnRead`, `OnSend` and `OnRecv` use it | writer: `WriteBegin` (`Write`), `CanWriteBegin`, `CanWriteEnd` (`GetCanWriteBuff`, `recv`), `Fill`, `Publish`; reader: `ReadBegin`, `CanRead`, `CanReadLength` (`GetCanReadBuff`), `Take`, `Consume` |
| `NetListener` | `NetListenerMgr` | main thread: `CreateNetListener`, `CreateNetConnecter`, `ConnectAtOnce`, `ConnectNoSocket`, `OnAccept`, `OnConnect`, `OnConnectFailed`, `CloseConnection`; thread: `BeginRound`, `ConnectReady`, `ConnectWait`, `AcceptSocket`, `AcceptDone`, `DelSockets` |
| `Harbor` | two nodes' `Harbor`, `HarborSession`, `HarborClientSession`, their timers and `TcpConnection`s; `Cluster` as listener | `ConnectHarbor`, `DisconnectHarbor`, `ReConnectTime`, `OnConnect`, `OnConnectFailed`, `OnAccept`, `OnEstablish`, `OnRecvHarborHandshakeMsg`, `DelayOpen`, `OnTerminate`, `Flush`, `Break` |
| `LoginControl` | `LoginControl` | `OnTime`, `EnterLoginQueue`, `ForcePassLoginQueue`, `UpdateQueueNum` |
| `LoginQueue` | nothing: the abstract specification of the login queue | |
| `Cluster` | `Cluster` on the master and on the nodes, over the `Harbor` sessions between them | nodes: `Start`, `Crash`, `ConnectHarbor`, `OnRecvHandshake`, `OnRecvClusterAdhocMsg`, `OnTerminate`; master: `OnRecvHarborHandshakeMsg`, `OnOpen`, `OnClose`, `MasterCrash`; the network: `Break` |
| `SearchUnit` | one channel of `SearchUnit` | `EnterIndividualSearch`, `LeaveIndividualSearchChannel`, `ValExpand`, `FlushSearch` |
| `MysqlMgr` | `MysqlMgr`, `DBConnection`, `AsyncQueue`'s choice of thread, the hand-over of `AsyncThread` | `PushMysqlHandler`, `StartTask`; worker: `OnExecute`, `Execute` (`InnerExecute`), `Executed` (`HandOver`); main thread: `Loop` |
| `AsyncThreadProofs`, `QueueProofs`, `CircularBufferProofs`, `TimerWheelProofs`, `NetEngineProofs`, `LoggerProofs`, `HarborProofs`, `LogicProofs` | theorems (section 4) | |
| `MCAsync`, `MCTimer`, `MCQueue`, `MCBuffer`, `MCNet`, `MCListener`, `MCLogger`, `MCHarbor`, `MCLogin`, `MCCluster`, `MCSearch`, `MCMysql` | instances for TLC | |

A module of proofs may be about more than one component: `QueueProofs` is about the ring queue and about
the listener, whose two threads meet in one, `LogicProofs` about four services of `logic`.  So that
such components can be extended together, `NetListener`, `LoginControl`, `Cluster` and `SearchUnit` put their
name before `Init`, `Next`, `Spec` and the like.

An operator `Bug_X` is `X` with a plausible mistake; only the mutation checks use it.

### Granularity and abstraction

**AsyncThread** keeps the pointers: `head` and `tail` of each chain and `next` of each task, since
the interesting behaviour comes from links that outlive their chain.  A merge onto a shared chain
is two steps, as the other thread reads head and tail without the lock; a merge onto a private
chain from a shared one is one step under the lock.  `ASSERT` is modelled as in the build with
`NDEBUG`, where it logs and goes on (`Public/LinSys.h:62-71`), and the assertions that failed are
recorded; a build in which it aborts has the same behaviours up to the first failure.  The first
access to a deleted task sets `ub`, and nothing is claimed of what follows.  Each behaviour picks a
`limit`, the number of tasks its client keeps in flight: what holds only for clients with one task
at a time (`limit = 1`) is stated so.  The threads of a queue share nothing, so one is enough.
`Terminate` and `AsyncQueue::Destroy` are never called by the kernel and left out.

**TimerWheel** has sizes as constants (`RootSize`, `NodeSize`, `Levels`; 256, 64 and 4 in the
code) and a list as the set of timers in it; the order within a slot is left open.  `End` is
split at `OnTerminate`, where the client has control, and may be nested.  A repeating timer is
armed for `interval` jiffies after the *next* jiffy, as `Exec` runs when `_jiffies` has been
advanced: its period is `interval + 1`.  `TimerService` says the same.  What a level reaches,
`1 << (TVR_BITS + n * TVN_BITS)`, is the constant function `Span` with the recurrence as assumption
(`SpanAssumption`), because the provers know nothing of powers; `MCSpan` computes it for the run.

**CircularQueue** has one step per access to shared memory, in the order of the compiled code and
of x86-64.  `TryPush` is `_queue[_tail++ & _mask] = t`; compilers evaluate the index first.  The
counters are taken modulo `2^Bits` and wrap in the run.

**NetEngine** treats a connection and its driver as one object, packets as "the send buffer is not
empty", and a thread in `TryPush` as one with an event in its outbox, which blocks it.  The queues
are first-in-first-out: the ring's own race is `CircularQueue`'s subject.  There is one engine,
because `GetExecIOEngine` always returns the first of the four.  `Expire` stands for the passing of
`DELAY_SEND`.  A socket that connects immediately is treated like one accepted.  A session
that closes before its `OnEstablish` is left to `Harbor`, whose sessions do it; an `epoll_wait`
error, after which the thread ends, is left out.

**Logger** numbers the nodes of each stream.  `Process` and `ThreadRun` are cut where a lock is
released.  The early end of the freeing loop depends on the clock and is nondeterministic.

**CircularBuffer** names a byte by the value the write counter had for it, so that the reader can
tell whether it got the right one.  The counters are `s32` and wrap (`Wrap` values; the build relies
on two's complement).  A length is settled in one step, the bytes are copied in another and the
counter is advanced in a third; the other thread may move in between.  `_rcount` and `_wcount` are
plain fields, so a compiler may load them once or twice in a function: where it matters
(`GetCanReadBuff`, lines 65 and 68) both are in the model, chosen at the start (`reload`).  The
default build of `CMakeLists.txt` has no `-O` flag and loads twice.  `RoundupPowerOf2` is translated
as it stands: it returns a negative number for every request (`RoundupIsNegative`, evaluated by
TLC), so only sizes that are powers of two give a buffer (`SizeAssumption`).

**NetListener** knows a socket by its descriptor, as the code does, and keeps beside it what is
really open on it (`owner`); the properties compare the two.  A round of the thread is `BeginRound`
(one event, then `select`), one step per entry of the array, and `DelSockets`.  What `select`
reports is nondeterministic.  `displaced` and `dropped` record the two places where the code loses a
session without a word: `emplace` on a descriptor that is still in `_connectSockMap`, and an array
that is full.  The queues are unbounded here, since waiting in `TryPush` is `NetEngine`'s subject.

**Harbor** has the two ends of one channel.  A node only connects to nodes with a higher key (or to
the master), so one end is always the client, and the maps of an end are one entry each.  All
handlers of a process run in its main thread and call each other before they return (`Close` runs
`OnTerminate` and `OnRelease`), so they are operators on a record of the whole state, which return a
set of states because `_delayOpenTimer` is not initialised: a refused session may find a null
pointer in it or crash.  A connection is a pair of ends with a flag for the handshake in each buffer.
Crashing (a null session in `TcpConnection::OnEstablish`, a wild timer) stops that process; its peer
goes on.  Bookkeeping fields (`refused`, `lost`, `denied`) record that the code has
taken a path that the properties except.  The configured buffer sizes are powers of two, so
`SettingBuffSize` succeeds.

**LoginControl** has tickets up to `MaxTick`: an account that would need a higher one does not enter,
which the reset of the counter makes possible again.  `OnPassQueue`, which is empty in the code, is
the history variable `passed`; `free` and `basis` are history too.  Whether a notification is due is
nondeterministic.

**Cluster** stands on `Harbor` and keeps of a session what the master's `Cluster` can see of it: how
far the handshake is, what is on its way to the node, and whether the link is cut.  A session is one
end of a connection of a node to the master; the connections between nodes, which the orders ask for,
are each node's `clients`.  A node or the master may crash between any two steps, and a restarted one knows
nothing.  The master notices the end of a connection some time after it has happened; until then the
node may be back with another one, which is refused if the first is still registered
(`Harbor.cpp:353`), and the refusal removes the first one.  A node that
handles the master's handshake calls `SettingBuffSize`, which throws away what has arrived behind it:
if it is so late that the master's 100 ms of delay are over, the orders that followed are lost.  The service states of `ClusterInfo` are left out: nothing calls
`UpdateClusterNodeState`.

**SearchUnit** has the list of people, their windows and numbers; `FlushSearch` is one action, since it
runs in one timer callback.  It sorts the list by the beginnings of the windows (`ByBegin`), and each
person has his `Turn`: he gathers others from both sides of his place (`Around`, `Look`, `Visit`) into a box, the
intersection of their windows.  The two loops are recursive functions (`Gather`, `Search`), of the places
looked at and of the turns taken.  Who is matched stays in the list until the loops are over, but has no turn any more (line 153).  `reduce` is a `float` in the code and whole in the model.  Calls back into the channel
from its own callback are left out, and so is team search, whose functions are empty in the source.

**MysqlMgr** has `AsyncThread` below it, and keeps of it what that module shows: a worker begins its jobs,
and the main thread tells them, in the order in which they were started (`ServedInOrder`); what is finished
is handed over right after a job, and only if the worker sees that what it handed over before has been
fetched (`HandOver`); and the `next` of a job that was told may lead the main thread to the following one
wherever that is (`linked`), which is then told of a failure and released without having been executed.
The first use of a released job sets `ub`, and nothing is claimed of what follows.  Which jobs are linked
and when a chain is seen empty is nondeterministic, so `MysqlMgr` allows more than the chains do.  Each
behaviour has workers with any number of jobs at a time or (`serial`) one; only the latter serve everybody.
Executing a statement and storing its result are separate calls on
a connection and separate steps, because another worker could come between them.  The database is
external: a statement may be executed with its answer lost, and `InnerExecute` then sends it again, so
it may be executed twice; and storing the result of one that succeeded may fail, upon which `Init` leaves the
rows empty and `OnSuccess` follows.  `connectionnum` is not 0 (`GetConnectionThreadIdx` divides by it).

## 3. Runs

| run | bounds | shows |
|---|---|---|
| `async` | 3 tasks, up to 2 in flight | `TypeOK`; handlers are entered and completions delivered in order, without gap or repetition (`ServedInOrder`), every unfinished task is held or reachable (`NoTaskLost`), assertions on own chains hold (`OwnChainAssertsHold`); a client with one task at a time is safe (`SerialClientSafe`) and served (`SerialClientServed`) |
| `timer` | 2 timers, root of 4, two levels of 2, 19 jiffies | `NoDanglingTimer`, `FiresWhenDue`, `SilentAfterTerminate`, and the refinement `ImplementsTimerService` |
| `queue` | 4 slots (3 rounded up), counters modulo 8, 2 events | `CountersTell`, `QueuedEventsIntact`, `NoSlotRace` |
| `buffer` | 8 bytes, counters modulo 16 | `UnreadIntact`, `ReadsInOrder` |
| `net` | 2 connections, 2 descriptors, queues of 2 | `NoDeletedDriver`, `UnbindsOnlyItsOwn`, `TerminatedOnce`, `ClosingIsDestroyed` |
| `listener` | 3 connects, 1 incoming connection, 3 descriptors, an array of 2, time-out after 1 round | `AnswersItsOwn`, `EveryConnectAnswered` |
| `logger` | 3 nodes in each stream | `LogsInOrder`, `FreedOnceWritten`, `EverythingWritten` |
| `harbor` | 2 client sessions, 2 connections | `NoDanglingSession`, `RegistryAgrees`, `KeepsTrying`, `HandshakeCompletes` |
| `login` | 3 accounts, 4 tickets, 2 stages, reports of 0, 3, 6 and 9 with limits 3 and 8 | `LimitKept`, `EveryoneServed`, and the refinement `ImplementsLoginQueue` |
| `cluster` | 2 nodes, 3 connections | `MeshPlanned`, `MeshForms` |
| `search` | 4 people, values 1, 4 and 8 in 4 cells, sets of 3 that shrink to 2, both models | `MutuallyAcceptable`, `MatchedOnce`, `LargeEnough`, `CleanMeansNothingToFind` |
| `mysql` | 2 handlers, 1 foreign task, 2 ids, 3 threads, 2 connections; one job or any number at a time on a worker | `ResultIsOwn`, `SameIdInOrder`, `EveryoneIsTold` |

### What the properties except

Some properties hold only with an exception, and the exception is what the code does; where a test, a
comment or an assertion of the repository says otherwise, `PROJECT.json` lists a finding.
Its hazards do not repeat those faults, and one that a property excepts has a note instead of the property.

* `SerialClientSafe` is about one task in flight.  With two, the worker pops task 1, which still points
  to task 2 in `ready.work`, executes it and hands it back; the main thread follows the link and
  completes task 2, unexecuted, and deletes it.
* `QueuedEventsIntact` and `NoSlotRace` leave out the event that `TryPush` has published and not
  written: `Pop` may run between the two effects of `_queue[_tail++ & _mask] = t` and take what the
  slot held before.
* `OwnChainAssertsHold` leaves out the assertion that `MergeListByLock` makes on a shared chain
  before it takes the lock; it fails when the other thread has stored `to.head` and not `to.tail`.
* `SerialClientServed` is about one task in flight.  With two, the second can stay in `complete.work`
  for ever: it is moved only right after a task and only if `complete.swap` is empty then.
* `ClosingIsDestroyed` holds with as many queue entries as connections.  With fewer (`QueueSize = 1`
  shows it) the main thread waits for room in `_threadQueue` and the epoll thread for room in
  `_mainQueue`.  It also leaves out a connection closed with an empty send buffer, which gets no timer
  and waits for its peer.
* `EverythingWritten` leaves out a logger that is being destroyed: `ThreadRun` returns with nodes in
  `threadB`, `swap` and `threadA`.
* `ReadsInOrder` allows bytes from behind the end of the memory if `_wcount` is loaded twice: the
  writer passes the end between the comparison and the subtraction.
* `AnswersItsOwn` holds until a connect gets a descriptor that the thread has closed and the main
  thread has not erased yet; then two sessions share an entry.  `EveryConnectAnswered` leaves out
  that session, and one that found the array full.
* `RegistryAgrees` holds until a node has refused a second session of its peer: the refused one has
  the peer's identity already, so its `OnClose` removes the first one from `s_sessions` and tells
  the listeners that the node is gone.  It says that the listeners know the peer only once the delay
  is over; a peer that closes within these 100 ms is announced by `OnClose` all the same, and `Cluster`
  asserts that it knows it.
* `KeepsTrying` leaves out a session whose connect failed before it returned: it hears `OnError` and
  no `OnRelease`, where its timer would have been started.
* `HandshakeCompletes` leaves out a node that threw its own handshake away: `SettingBuffSize`
  replaces a send buffer that has not been flushed.
* `LimitKept` is about the room of the server.  Just above `limitVal` the rate is
  `(stageNum + 1) / stageNum` times `rateMax`, although `config.xml` calls that the number that may
  pass per second.
* `MeshPlanned` and `MeshForms` leave out a node whose connection was lost without the master having
  noticed, one whose order was thrown away by `SettingBuffSize`, and one that has been
  refused: a node that restarts and connects before the master has noticed the end of its old
  connection, which the refusal unregisters.
* `ResultIsOwn` allows a success without a result: `MysqlResult::Init` does nothing if
  `mysql_store_result` fails (`MysqlBase.cpp:6-7`), and the handler hears `OnSuccess` with no rows.
* `EveryoneIsTold` is about workers with one job at a time.  With two, the second can stay in
  `complete.work` for ever, as for `SerialClientServed`.
* `LargeEnough` leaves out the pair game, whose sides can have one person: a set counts as full with the
  number of one side (`SearchUnit.cpp:177`).  `CleanMeansNothingToFind` says nothing once
  somebody has left or a search has made a match: neither sets `_update`, and people who could be matched
  may remain, for instance those to whom a search that ended early did not come.

A further consequence of reused descriptors can be seen in `NetEngine`: a `SHUT_DWON` event that was
queued before the peer's close was handled may shut down the next connection with the same
descriptor.  It is listed as a hazard.

### Bounds

Three tasks are enough for two to be linked in one chain while a third is in another thread's
hands, which is the shape that every merge and pop distinguishes.  Two timers make nested ends
possible; the delays cover the past, the root, both levels, their borders and a timer beyond the
wheel's reach, and 19 jiffies exceed the 16 the wheel covers, so that every slot is used again.
The ring goes around twice per counter wrap.  Two connections and two descriptors let either be
reused while the other connection has events in every queue.  Three nodes fill the three lists.
Eight bytes give every relation of the two positions and packets that lie in one piece, in two and
at the border; the buffer goes around twice per wrap.  Three descriptors let a connect, an accepted
socket and the listener hold one each or run out, and an array of two is full with all of them.
Two client sessions and two connections are a forced reconnection, or a second session of a known
node, or one session that reconnects; each is over when the connections are used up.  Three
accounts and four tickets let the ticket counter start again with and without a line.
Two nodes are a pair, and three connections are a reconnection of one of them, or of both in turn, or
a return of the master; four connections (317 000 states) show nothing else.  Four people are a
complete set with one left over, or two sides; the windows reach one, two or all four cells.  Three
threads and two connections make an id whose own worker has no connection, two ids that share one, and a
foreign task that meets a handler's; different connections share nothing but the theorem covers them.

Deadlock is checked in `async`, `queue`, `buffer`, `net`, `logger`, `login` and `search`: someone
can always take a step.  The other runs turn it off because something is bounded in them: the clock
(`MaxJiffies`), the sessions that connect once each, the connections that are ever tried, the
statements that are pushed once each.

### Fairness

Weak fairness of each thread's own steps: the main thread runs `Kernel::Loop` and the helper threads
their loops for ever, and mutexes are held for a few instructions.  Client calls, peers and handlers
that throw are never assumed to happen.  `NetEngine` adds strong fairness of `Expire`: `DELAY_SEND`
seconds pass, and the check of them comes round in every loop.  `NetListener`: `Process` is called in
every loop of the kernel and the thread goes on with its rounds.  `Harbor`: a running process
accepts, establishes, receives and flushes, and its delay timers fire; connects, closes, the network
and the peer's survival are left open.  `LoginControl`: its timer was started with `FOREVER`.
`MysqlMgr`: the workers and the main loop go on (what was handed over is fetched and told; what was not is
not), and a connection gives up after
`RECONNECT_TIME_OUT`.  `Cluster`: a running process handles what arrives, its timers fire and it
reconnects; starts, crashes and cuts are left open.

### Mutants

Every property of a passing run has a mutant in `PROJECT.json`: a definition replaced by one with a
dropped guard, a missing reset, an off-by-one or a swapped order, which TLC finds to violate the
property.

## 4. Proofs

`AsyncThreadProofs`, for any number of tasks:

* `AsyncTypeCorrect` and `OwnChainsNeverAssert`.  The invariant `AsyncInv` adds to the type who
  holds a lock when (`LockInv`), that head and tail of a chain are null together except for a
  shared chain that is being filled (`ShapeInv`), and that what a thread has read of a chain still
  holds when it acts on it (`ReadInv`): `TypeOK` alone is not inductive, as `PopHead` follows a head
  that was tested one step before.
* `SerialClientIsSafe`: with one task in flight no released task is touched and no task is
  completed unexecuted unless it was stopped or threw.  The invariant `SerialInv` says where the
  single task is (`SerialPlace`), that nothing else is in any chain (`SerialUnique`), that its next
  pointer is null, and what its flags are once it has been executed (`SerialSettled`).
* `TasksServedInOrder`: a client with any number of tasks in flight has them executed and completed in
  the order it added them.  Tasks are numbered in that order, so the chains on the way of a task,
  taken from its end to its beginning, hold consecutive numbers: `OrderInv` says where each chain
  begins (`FromReadyMain`, ..., `FromCompleteSwap`) and that it ends where the one before it begins
  (`ReadyOrder`, `CompleteOrder`, `LoopOrder`), also while a chain that is being merged is in two places,
  and that no `next` leads anywhere but to the following task (`NextInv`).  It excepts the one chain
  that may have dangling members, `complete.main`, after `ub`.
* `TasksAreNotLost`: what was added and not served is reached from the head of a chain.  `NoTaskLost`
  follows the links with a recursive function, so `Walk` proves what the function collects by the
  least number of steps for which it would be wrong; with `OrderInv` every number between head and
  tail is collected.

`QueueProofs`, for any set of events, any size and any width of the counters:

* `QueueTypeCorrect`, `CountersAlwaysTell`, `QueuedEventsStayIntact`, `PushNeverRaces`: the
  invariant `QueueInv` relates `_tail` to `_front` and the number of queued events modulo `2^Bits`,
  and says what the producer and the consumer know at each step.  The lemmas on remainders
  (`DivisionUnique`, `ModPeriod`, `ModDistinct`, `SlotWrap`) carry the argument that two counters
  less than `Size` apart have different slots, also across a wrap.
* `PushDeliversInOrder`: a producer that only uses `Push` delivers exactly the oldest event, which
  fails with `TryPush`.

`QueueProofs` also, for any sessions, peers, descriptors and size of the array:

* `SessionsHearTheirOwn`: a session is told the outcome of its own connect, however descriptors are
  reused, unless a session was displaced from `_connectSockMap` (a fault that the property excepts,
  section 3).  Until then (`ListenInv`) a descriptor that the thread has, or will have from its queue, is
  a listener or that of the one session which the map has under it and whose connect is not over
  (`ActiveInv`); a session in the map is there once and was told nothing (`MapInv`); an event in the
  queue is so and nobody has two (`EventInv`); what is still to be looked at in a round was not given up
  in it (`RoundInv`).  A descriptor can be reused only after it was closed, and each of these rules
  out that somebody who is told later still has the old one.
* `ArrayKeepsToItsSize`: the array never has more than `LISTEN_SOCKET_SIZE` entries, counting those that
  are to be deleted at the end of the round.

`CircularBufferProofs`, for any size that the constructor accepts and any width of the counters that it
divides:

* `UnreadBytesIntact`, `BytesReadInOrder` (and `TypeCorrect`).  The invariant `BufferInv` adds to the two
  properties what each thread has settled on and what stays true of it while the other one moves: the
  writer still has its room and its unpublished bytes follow the published ones (`WriterInv`), the
  reader's packet and length are still there, in one piece unless the counter was loaded twice
  (`ReaderInv`).  Neither property is inductive without these, since every length is computed in one
  step and used in a later one.  The arithmetic is in `Remainder`, `Periodic`, `TwoPeriods`, `Offset`.

`TimerWheelProofs`, for any number of timers, levels, slots and any delays:

* `NoTimerDangles`, `NoCallAfterTerminate` (and `TypeCorrect`): `Reachable` says that a timer is out of
  the pool exactly when a list, `Exec` or a call of `End` in progress has it, `ExecHolds` and `EndHolds`
  what the flags `_canRelease` and `_remove` say about it, `EndsDiffer` that nested calls of `End` are for
  different timers.
* `TimersFireWhenDue`: `PlacedInTime` says that a timer in the root is due before the root comes round
  again, and that one in a level sits in a slot which is cascaded at some multiple of the level's span
  between now and its jiffy (`InRoot`, `InLevel`).  `AddTimerPlaces` shows that `AddTimer` places every
  timer so, `CascadeReaches` that the cascades of a jiffy move down exactly those whose time it is, and
  `JiffyPlaces` that nothing is left behind.
* `WheelImplementsService`: under the refinement mapping of `TimerWheel` every step of the wheel is a step
  of `TimerService` or changes nothing that clients see.
* Facts about all levels (`SpanMultiple`, `SpanGrows`, `LevelExists`) are proved by a least counterexample:
  `Least` (a set of naturals that is not empty has a least element) follows from the library's
  theorems on well-founded relations that have no operator parameter.

`NetEngineProofs`, for any connections, descriptors and queue size:

* `DriversAlive`, `UnbindReachesItsOwn`, `SessionsTerminatedOnce` (and `TypeCorrect`).  The invariant `IInv`
  relates the two queues, with the event that waits in `TryPush` appended, to the life of each
  connection: a `BIND` on its way to the epoll thread means that the connection is open, not established
  and not yet bound (`ThreadEventsFit`); no `UNBIND` stands behind a `BIND` of the same descriptor
  (`ThreadEventsOrder`); the main thread is told of a connection's `BIND`, then of its `UNBIND`, then of
  nothing (`MainEventsFit`, `MainEventsOrder`).  The reuse of descriptors makes the order necessary:
  a descriptor alone does not say whose event it is.

`LoggerProofs`, for any number of nodes:

* `NodesStayInOrder`, `FreedExactlyWhatWasWritten` (and `TypeCorrect`).  The two properties are inductive
  together with the types.  The lemmas are about four lists in a row: moving a head to the end of the
  list before it, or swapping neighbours of which one is empty, leaves the whole as it is (`MoveHead`,
  `SwapEmpty`), and freeing a prefix leaves the rest (`FreePrefix`).

`HarborProofs`, for any number of client sessions and connections:

* `NothingDangles`, `RegistryIsRight`, `TriesForEver` (and `TypeCorrect`).  Handlers call each other and
  return states, so the invariant `Good` is one of such a state: for each end whose process runs (`EndOK`;
  nothing is said of one that has crashed), a connection has a session exactly while it is pending or open,
  no other connection has that session, and it is alive and has no reconnect timer (`LinkOK`); a session
  with a connection is the one that the connection has, only such a session has an identity, and only one
  with an identity has an armed delay timer (`SessOK`); the maps hold live sessions of their own end
  (`NodeOK`).  The three properties follow from these links: a session in `s_sessions` or with an armed
  timer has an identity, so a connection, whose session is alive.  None of the three is inductive alone;
  that a session with a reconnect timer has no connection, for instance, is what keeps
  `OnHarborClientSessionRelease` and a reconnect from meeting.
* `Released`, `Opened`, `Tried`, `Identified` and `Mild` show for the ways in which an end can change that
  `EndOK` is kept; `DetachGood`, `CloseGood` and `CreateGood` put handlers together from them, the
  `...Returns` lemmas say what a handler leaves in each field, and the `...Keeps` lemmas are one for each action.
  The theorems are about `Spec`, which `FairSpec` of the run implies.

`LogicProofs`, for any number of jobs, workers and connections:

* `EveryResultIsOwn`, `ExecutedInOrder` (and `TypeCorrect`), for any number of jobs in flight, up to the first
  use of a released one.  `WaitInv` says that a job waits in one place
  and was not executed yet; `RunInv` that a worker executes on the connection of its own number only, and
  that while it is about to fetch a result that connection holds the answer to its own statement;
  `OwnInv` that a job which counts as successful has its own result or none;
  `OrderInv` that of two handlers for one connection the one pushed later waits behind the other.
  `ThreadIdx` is the arithmetic behind it: `GetConnectionThreadIdx` gives the number of a worker, and
  the remainder that `StartAsync` takes does not change it.

`LogicProofs` also, for any accounts and any configuration of the login queue:

* `LimitIsKept`: `RateInv` bounds the rate of this second, and what was let in since the last `OnTime`, by
  the room that `OnTime` found, less what was let in too many before (`Cap`).  `StageRateBound` and
  `NewRateBound` are its arithmetic: no stage gives a rate beyond the room.
* `LoginMapsAgree`: `s_waitAccount` and `s_tickIndex` are inverse to each other, and `s_nextTick` is beyond
  all tickets.
* `LoginIsAQueue`: `LoginControl` implements `LoginQueue`.  The mapping makes a sequence of the tickets in
  their order (`LineOf`).  `SortedConcat` and `LineConcat` say that if all members of `D` are below all members
  of `E`, the line of both is the line of `D` followed by that of `E`; the ticket that is added is the
  highest, those that `OnTime` serves are the lowest (`ServedFirst`), and a forced pass splits the line at
  its ticket.  `OnTime` maps to a step that serves as many, which needs `RateInv` and that nobody waits
  while there is room (`ShareInv`).

`LogicProofs` also, for any number of nodes and of sessions:

* `MeshIsPlanned`: of two nodes that the master knows the lower one has its client session to the
  higher one, or a message to make it is on the way to it.  `MeshInv` adds what the master has on
  record: under a node's key there is a session of that node with its identity (`EnteredInv`), it is the
  only one unless another was refused (`OneInv`), it is open if Cluster knows the node (`KnownInv`), and the
  node's own connection is one of its own (`ConnectionInv`).  A crash of a node or of the master removes
  nodes from `known`, and a node that comes back is known only when it is open again, at which
  moment it is told of all others and all others of it (`AdhocFacts`, `SendFacts`, `OpenMesh`).
* `NobodyConnectsDown`: no node is told to connect to itself or to a lower channel.  It needs that every
  message on a connection is above the node whose connection it is (`WireOK`).

`LogicProofs` also, for any people, values and configuration of a match-making channel:

* `MatchesAreAcceptable`, `MatchesAreApart`, `MatchesAreLargeEnough`.  A good set (`Gathered`) is one whose box
  lies in the window of everybody in it and holds everybody's value, and whose number is at least what
  each asks for; `InsertFits` says that a box which somebody joins is still such a box for all, `LookGathers`
  that a look keeps a set good and adds at most the one at a place that was not looked at before
  (`AroundIsNew`: of two places on the zigzag none is the same), and `GatheredMatches` that what is cut from a good
  set is a match of people who were in none.  `TurnFinds` and `SearchFinds` put the matches together.
* `CleanHasNothing`, as long as nobody has left or was matched since `_update` was last set.
  The invariant has to relate a search that is not made to one that was: what a search finds
  depends only on what people ask for (`SameSearch`), `ValExpand` leaves that alone unless it sets `_update`
  (`ExpandAsks`), and a list that is sorted stays as it is when it is sorted again (`ByBeginFacts`, since the
  sort is stable).
* A recursive function is unfolded from its definition: a function with that equation exists for every
  length, by a least counterexample (`UpTo`, `GatheringExists`, `SearchExists`), so the one that `Gather` chooses has
  it (`GatherDef`).  An invariant of its values is again an argument of that kind.

Where the proofs changed the model: `LimitKept` did not hold before the first `OnTime` if `LimitVal` is 0, a
case TLC's instance does not have, and the history variable `basis` now says that there was none;
`LoginControl` orders its tickets by a definition the provers can unfold instead of a library operator;
`Adhoc` of Cluster goes through the known nodes in any order, as `Adhoc` in the code walks an `unordered_map`, and
no order is needed for the theorem; match-making
computed with folds and a sort of the library, which the provers cannot unfold; Cluster assumes that its null session is not a session.

Assumptions: `N` natural, `MaxInFlight` positive, `NULL` not a task; the rounded size is positive,
at least what was asked for, and divides `2^Bits` at least twice (which holds for sizes below
`2^31` in the code); `Garbage` is not an event.  The buffer's size is positive and divides the number of
counter values at least twice.  The wheel has at least one level and at least two slots in each, and
`Span` is the product of their sizes; delays are integers, `FOREVER` is negative.  A queue of the network
engine has at least one place.  `threadcount` is positive and `connectionnum` not 0; ids are natural
(the code converts them to `u64`).  Client sessions are not links.  Null values are not among the things they stand beside.

The listener's, Cluster's and the login queue's limits and names are any that their modules assume
(`NamesAssumption`, `SizesAssumption`, `LimitAssumption`, `BoundsAssumption`, `NodesAssumption`, `BoundAssumption`,
`NullAssumption`): natural numbers, at least one stage whose width is not 0, finitely many nodes, null values
that are not sessions.  A match-making channel has `num` from 2 to 127, as `RegisterSearchChannel` and its `s8`
say, `numMin` not above it, and values in the range of the configuration (`SearchAssumption`).  No fairness is used: the theorems are about
the specifications without it, which those of the runs imply.

Only model-checked: the liveness properties (`SerialClientServed`, `ClosingIsDestroyed`, `EverythingWritten`,
`EveryConnectAnswered`, `HandshakeCompletes`, `EveryoneServed`, `MeshForms`,
`EveryoneIsTold`), which are out of the prover's reach.
The inductive invariants above have been checked by
TLC, as invariants of the same instances, before they were proved.  `TypeOK` of most modules is stated for
the proofs and left out of the configurations, where the other properties say more.

## 5. Plan

1. Done: the core (ring queue, async threads, timers, connections, logger) and the first theorems.
2. Done: listener, byte buffer, Harbor, Cluster, login queue with its abstract specification,
   match-making, Mysql manager.
3. Done: the theorems on the byte buffer, timers with their refinement, connections, logger, Mysql and
   Harbor.
4. Done: the order of the async threads, the listener, the login queue with its refinement, Cluster,
   match-making.

## 6. Not modelled

* The Windows engine, platform code, vendored libraries and generated code.
* Spatial search: floating-point geometry.
* Pools, heap, skip list and other containers: sequential and without callbacks.
* Object tables: sequential.  Two faults that a test reaches: `SwapRow` gives each
  row the place it had before, and a key that has not four bytes reads as 0 when its row is deleted.
* The Http manager: a client of the async queue like the Mysql manager.  Its handles are shared safely
  if `threadcount` divides 4.
* Frames: a loop over a list.  Nothing in the repository registers a frame.
* Master and Slave are unfinished in the source: the handlers that would change state are empty.
* Event engine: sequential maps of callbacks; its locks cannot be made, as `CreateEventLock` inserts
  only a lock that exists already.
* Gate: a thin client of the components modelled here, whose handlers only log.
* Texts: SQL statements, URLs, the layout of attributes, configuration files.
* Modules that are empty or demonstrations.

Most lines of the repository are headers and sources of third-party libraries (protobuf, behaviac,
mysql, tinyxml2, Lua bindings) that the program includes and does not own; they are the larger part of
what no module covers.

`PROJECT.json` gives the reason for each component.
