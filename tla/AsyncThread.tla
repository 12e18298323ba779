---------------------------- MODULE AsyncThread ----------------------------
(***************************************************************************)
(* One worker of an AsyncQueue (Kernel/Async) and the main thread that     *)
(* feeds and drains it.  A task travels along six singly linked chains:    *)
(* ready.main -> ready.swap -> ready.work, is executed by the worker, and  *)
(* comes back along complete.work -> complete.swap -> complete.main.  Main *)
(* chains belong to the main thread, work chains to the worker, swap       *)
(* chains are shared and filled under a mutex, but their head and tail are *)
(* also read without it.                                                   *)
(*                                                                         *)
(* The model keeps the pointers: `next' is a field of the task object,     *)
(* written by PushTail and MergeListByLock and never reset by PopHead.     *)
(* Workers of one queue share nothing but the main thread, so one worker   *)
(* is enough.  The ASSERT macro logs and goes on (the NDEBUG build);       *)
(* `asserts' records which ones fired.  A build in which ASSERT aborts has *)
(* the behaviours of this one, cut at the first that fires.  `ub' is set   *)
(* by the first access to a released task and nothing is claimed after it. *)
(***************************************************************************)
EXTENDS Naturals, Sequences

CONSTANTS
  N,            \* bound on the StartAsync calls of a behaviour
  NULL,         \* the null pointer
  MaxInFlight   \* bound on started, uncompleted tasks; each behaviour picks a limit

ASSUME NAssumption == N \in Nat
ASSUME MaxInFlightAssumption == MaxInFlight \in Nat \ {0}

\* A task is an IAsyncHandler with the AsyncBase made for it, named by the place of its
\* StartAsync call: a handler is started once, since nothing clears its base.
Tasks == 1 .. N

ASSUME NullAssumption == NULL \notin Tasks

VARIABLES
  head, tail,   \* AsyncBaseLinkChain of every chain
  next,         \* AsyncBase::next
  valid, executed, successed,    \* AsyncBase::_valid, _executed, _successed
  freed,        \* the tasks Release() has deleted
  lock,         \* holder of _readyExec.lock and _complete.lock
  pcMain, pcWork,
  item,         \* `base' of AsyncThread::Loop
  base,         \* `base' of AsyncThread::ThreadProc
  asserts,      \* sites of the ASSERTs that have fired
  ub,           \* a released task has been accessed
  limit,        \* how many tasks the client keeps in flight (never changes)
  \* what the client observed, in order
  added,        \* number of StartAsync calls
  begun,        \* tasks whose handler's OnExecute was entered
  completed,    \* tasks whose OnSuccess or OnFailed was called
  threw,        \* tasks whose OnExecute did not return
  outcome       \* which completion callback a task got

chainVars  == <<head, tail, next>>
flagVars   == <<valid, executed, successed>>
clientVars == <<added, begun, completed, threw, outcome>>
vars == <<chainVars, flagVars, freed, lock, pcMain, pcWork, item, base,
          asserts, ub, limit, clientVars>>

ReadyMain    == "ready.main"
ReadySwap    == "ready.swap"
ReadyWork    == "ready.work"
CompleteMain == "complete.main"
CompleteSwap == "complete.swap"
CompleteWork == "complete.work"
Chains == {ReadyMain, ReadySwap, ReadyWork, CompleteMain, CompleteSwap, CompleteWork}

Locks == {"ready", "complete"}
Pointer == Tasks \cup {NULL}

AssertSites == {"PushTail", "OwnFromTail", "SwapFromTail"}
Outcomes == {"none", "success", "failed", "unexecuted"}

MainPCs == {"user", "readyFill", "readyDone", "swapHead", "swapTail", "swapLock",
            "pop", "complete", "callback"}
WorkPCs == {"pop", "swapHead", "swapTail", "swapLock", "execute", "running",
            "push", "check", "fill", "done"}

Init ==
  /\ head = [c \in Chains |-> NULL]
  /\ tail = [c \in Chains |-> NULL]
  /\ next = [t \in Tasks |-> NULL]
  /\ valid = [t \in Tasks |-> TRUE]
  /\ executed = [t \in Tasks |-> FALSE]
  /\ successed = [t \in Tasks |-> FALSE]
  /\ freed = {}
  /\ lock = [l \in Locks |-> "none"]
  /\ pcMain = "user"
  /\ pcWork = "pop"
  /\ item = NULL
  /\ base = NULL
  /\ asserts = {}
  /\ ub = FALSE
  /\ limit \in 1 .. MaxInFlight
  /\ added = 0
  /\ begun = <<>>
  /\ completed = <<>>
  /\ threw = {}
  /\ outcome = [t \in Tasks |-> "none"]

(***************************************************************************)
(* The list templates of Public/TList.h, on chain c.  An operator named    *)
(* Bug_X is X with a plausible mistake; only the mutation checks use it.   *)
(***************************************************************************)
Bug_PushTail(c, t) ==
  /\ asserts' = asserts
  /\ head' = [head EXCEPT ![c] = t]
  /\ tail' = IF head[c] = NULL THEN [tail EXCEPT ![c] = t] ELSE tail
  /\ next' = [next EXCEPT ![t] = head[c]]

PushTail(c, t) ==
  /\ asserts' = IF (head[c] = NULL) = (tail[c] = NULL)
                THEN asserts ELSE asserts \cup {"PushTail"}
  /\ head' = IF head[c] = NULL THEN [head EXCEPT ![c] = t] ELSE head
  /\ tail' = [tail EXCEPT ![c] = t]
  /\ next' = IF head[c] = NULL THEN next ELSE [next EXCEPT ![tail[c]] = t]

\* The popped node keeps its next pointer: nothing resets it.
PopHead(c) ==
  LET second == next[head[c]]
  IN  /\ head' = [head EXCEPT ![c] = second]
      /\ tail' = IF second = NULL THEN [tail EXCEPT ![c] = NULL] ELSE tail
      /\ UNCHANGED next

Bug_MergeFill(to, from) ==
  /\ head' = [head EXCEPT ![to] = head[from]]
  /\ UNCHANGED <<tail, next>>

\* MergeListByLock in two steps, when another thread reads `to' without the lock:
\* the store to to.head (or to the last node), then the store to to.tail.
MergeFill(to, from) ==
  /\ head' = IF head[to] = NULL THEN [head EXCEPT ![to] = head[from]] ELSE head
  /\ next' = IF head[to] = NULL THEN next
             ELSE [next EXCEPT ![tail[to]] = head[from]]
  /\ UNCHANGED tail

Bug_MergeDone(to, from) ==
  /\ tail' = [tail EXCEPT ![to] = tail[from]]
  /\ head' = [head EXCEPT ![from] = NULL]
  /\ UNCHANGED next

MergeDone(to, from) ==
  /\ tail' = [tail EXCEPT ![to] = tail[from], ![from] = NULL]
  /\ head' = [head EXCEPT ![from] = NULL]
  /\ UNCHANGED next

\* MergeListByLock in one step, when `to' is private and `from' is only written
\* under the lock.
Merge(to, from) ==
  /\ head' = [head EXCEPT ![to] = IF head[to] = NULL THEN head[from] ELSE @,
                          ![from] = NULL]
  /\ tail' = [tail EXCEPT ![to] = tail[from], ![from] = NULL]
  /\ next' = IF head[to] = NULL THEN next
             ELSE [next EXCEPT ![tail[to]] = head[from]]

\* An access to these tasks: undefined once one of them has been released.
Touch(ts) == ub' = (ts \cap freed # {})

\* The node a push or merge onto chain c writes to.
LastOf(c) == IF head[c] = NULL THEN {} ELSE {tail[c]}

(***************************************************************************)
(* Main thread: client calls.  They come from the rest of the main loop or *)
(* from within a completion callback.                                      *)
(***************************************************************************)
InClient == pcMain \in {"user", "callback"}

Started == 1 .. added
Done == {completed[i] : i \in DOMAIN completed}

\* AsyncQueue::StartAsync and AsyncThread::Add.
StartAsync ==
  /\ ~ub /\ InClient
  /\ added < N
  /\ added < Len(completed) + limit
  /\ PushTail(ReadyMain, added + 1)
  /\ Touch(LastOf(ReadyMain))
  /\ added' = added + 1
  /\ UNCHANGED <<flagVars, freed, lock, pcMain, pcWork, item, base, limit,
                 begun, completed, threw, outcome>>

\* AsyncQueue::StopAsync.  A client may use a handler until its OnRelease.
StopAsync(t) ==
  /\ ~ub /\ InClient
  /\ t \in Started \ Done
  /\ valid[t]
  /\ valid' = [valid EXCEPT ![t] = FALSE]
  /\ Touch({t})
  /\ UNCHANGED <<chainVars, executed, successed, freed, lock, pcMain, pcWork, item,
                 base, asserts, limit, added, begun, completed, threw, outcome>>

(***************************************************************************)
(* Main thread: AsyncThread::Loop.                                         *)
(***************************************************************************)
\* Loop begins: MergeListByLock(ready.swap, ready.main) looks at its own chain.
LoopBegin ==
  /\ ~ub /\ pcMain = "user"
  /\ pcMain' = IF head[ReadyMain] = NULL THEN "swapHead" ELSE "readyFill"
  /\ asserts' = IF head[ReadyMain] # NULL /\ tail[ReadyMain] = NULL
                THEN asserts \cup {"OwnFromTail"} ELSE asserts
  /\ UNCHANGED <<chainVars, flagVars, freed, lock, pcWork, item, base, ub, limit,
                 clientVars>>

ReadyFill ==
  /\ ~ub /\ pcMain = "readyFill"
  /\ lock["ready"] = "none"
  /\ lock' = [lock EXCEPT !["ready"] = "main"]
  /\ MergeFill(ReadySwap, ReadyMain)
  /\ Touch(LastOf(ReadySwap))
  /\ pcMain' = "readyDone"
  /\ UNCHANGED <<flagVars, freed, pcWork, item, base, asserts, limit, clientVars>>

ReadyDone ==
  /\ ~ub /\ pcMain = "readyDone"
  /\ MergeDone(ReadySwap, ReadyMain)
  /\ lock' = [lock EXCEPT !["ready"] = "none"]
  /\ pcMain' = "swapHead"
  /\ UNCHANGED <<flagVars, freed, pcWork, item, base, asserts, ub, limit, clientVars>>

\* MergeListByLock(complete.main, complete.swap): the two reads before the lock.
MainSwapHead ==
  /\ ~ub /\ pcMain = "swapHead"
  /\ pcMain' = IF head[CompleteSwap] = NULL THEN "pop" ELSE "swapTail"
  /\ UNCHANGED <<chainVars, flagVars, freed, lock, pcWork, item, base, asserts, ub,
                 limit, clientVars>>

MainSwapTail ==
  /\ ~ub /\ pcMain = "swapTail"
  /\ asserts' = IF tail[CompleteSwap] = NULL
                THEN asserts \cup {"SwapFromTail"} ELSE asserts
  /\ pcMain' = "swapLock"
  /\ UNCHANGED <<chainVars, flagVars, freed, lock, pcWork, item, base, ub, limit,
                 clientVars>>

MainSwapLock ==
  /\ ~ub /\ pcMain = "swapLock"
  /\ lock["complete"] = "none"
  /\ Merge(CompleteMain, CompleteSwap)
  /\ Touch(LastOf(CompleteMain))
  /\ pcMain' = "pop"
  /\ UNCHANGED <<flagVars, freed, lock, pcWork, item, base, asserts, limit, clientVars>>

Bug_MainPop ==
  /\ ~ub /\ pcMain = "pop"
  /\ \/ /\ head[CompleteMain] = NULL
        /\ pcMain' = "user"
        /\ UNCHANGED <<chainVars, item, ub>>
     \/ /\ head[CompleteMain] # NULL
        /\ item' = next[head[CompleteMain]]
        /\ PopHead(CompleteMain)
        /\ Touch({head[CompleteMain]})
        /\ pcMain' = "complete"
  /\ UNCHANGED <<flagVars, freed, lock, pcWork, base, asserts, limit, clientVars>>

\* PopHead(complete.main); with an empty chain Loop returns.
MainPop ==
  /\ ~ub /\ pcMain = "pop"
  /\ \/ /\ head[CompleteMain] = NULL
        /\ pcMain' = "user"
        /\ UNCHANGED <<chainVars, item, ub>>
     \/ /\ head[CompleteMain] # NULL
        /\ item' = head[CompleteMain]
        /\ PopHead(CompleteMain)
        /\ Touch({head[CompleteMain]})
        /\ pcMain' = "complete"
  /\ UNCHANGED <<flagVars, freed, lock, pcWork, base, asserts, limit, clientVars>>

\* AsyncBase::OnComplete picks the callback, in which the client has control.
OnComplete ==
  /\ ~ub /\ pcMain = "complete"
  /\ completed' = Append(completed, item)
  /\ outcome' = [outcome EXCEPT ![item] =
                   IF successed[item] THEN "success"
                   ELSE IF executed[item] THEN "failed" ELSE "unexecuted"]
  /\ Touch({item})
  /\ pcMain' = "callback"
  /\ UNCHANGED <<chainVars, flagVars, freed, lock, pcWork, item, base, asserts, limit,
                 added, begun, threw>>

\* OnComplete returns, AsyncBase::Release deletes the task, and the time check either
\* ends Loop here or lets it go on.
Release ==
  /\ ~ub /\ pcMain = "callback"
  /\ freed' = freed \cup {item}
  /\ item' = NULL
  /\ pcMain' \in {"pop", "user"}
  /\ UNCHANGED <<chainVars, flagVars, lock, pcWork, base, asserts, ub, limit, clientVars>>

(***************************************************************************)
(* Worker: AsyncThread::ThreadProc.                                        *)
(***************************************************************************)
\* PopHead(ready.work); an empty chain sends the worker to ready.swap.
WorkPop ==
  /\ ~ub /\ pcWork = "pop"
  /\ \/ /\ head[ReadyWork] = NULL
        /\ pcWork' = "swapHead"
        /\ UNCHANGED <<chainVars, base, ub>>
     \/ /\ head[ReadyWork] # NULL
        /\ base' = head[ReadyWork]
        /\ PopHead(ReadyWork)
        /\ Touch({head[ReadyWork]})
        /\ pcWork' = "execute"
  /\ UNCHANGED <<flagVars, freed, lock, pcMain, item, asserts, limit, clientVars>>

\* MergeListByLock(ready.work, ready.swap): nothing there means MSLEEP(1) and a
\* new round.
WorkSwapHead ==
  /\ ~ub /\ pcWork = "swapHead"
  /\ pcWork' = IF head[ReadySwap] = NULL THEN "pop" ELSE "swapTail"
  /\ UNCHANGED <<chainVars, flagVars, freed, lock, pcMain, item, base, asserts, ub,
                 limit, clientVars>>

WorkSwapTail ==
  /\ ~ub /\ pcWork = "swapTail"
  /\ asserts' = IF tail[ReadySwap] = NULL
                THEN asserts \cup {"SwapFromTail"} ELSE asserts
  /\ pcWork' = "swapLock"
  /\ UNCHANGED <<chainVars, flagVars, freed, lock, pcMain, item, base, ub, limit,
                 clientVars>>

WorkSwapLock ==
  /\ ~ub /\ pcWork = "swapLock"
  /\ lock["ready"] = "none"
  /\ Merge(ReadyWork, ReadySwap)
  /\ Touch(LastOf(ReadyWork))
  /\ pcWork' = "pop"
  /\ UNCHANGED <<flagVars, freed, lock, pcMain, item, base, asserts, limit, clientVars>>

\* AsyncBase::OnExecute reads _valid: a stopped task skips its handler.
OnExecute ==
  /\ ~ub /\ pcWork = "execute"
  /\ \/ /\ valid[base]
        /\ pcWork' = "running"
        /\ begun' = Append(begun, base)
     \/ /\ ~valid[base]
        /\ pcWork' = "push"
        /\ UNCHANGED begun
  /\ Touch({base})
  /\ UNCHANGED <<chainVars, flagVars, freed, lock, pcMain, item, base, asserts, limit,
                 added, completed, threw, outcome>>

Bug_ExecuteEnd ==
  /\ ~ub /\ pcWork = "running"
  /\ \E ok \in BOOLEAN : successed' = [successed EXCEPT ![base] = ok]
  /\ Touch({base})
  /\ pcWork' = "push"
  /\ UNCHANGED <<chainVars, valid, executed, freed, lock, pcMain, item, base, asserts,
                 limit, added, begun, completed, threw, outcome>>

\* The handler returns true or false, or TRY_END catches what it threw.
ExecuteEnd ==
  /\ ~ub /\ pcWork = "running"
  /\ \/ /\ \E ok \in BOOLEAN : successed' = [successed EXCEPT ![base] = ok]
        /\ executed' = [executed EXCEPT ![base] = TRUE]
        /\ UNCHANGED threw
     \/ /\ threw' = threw \cup {base}
        /\ UNCHANGED <<executed, successed>>
  /\ Touch({base})
  /\ pcWork' = "push"
  /\ UNCHANGED <<chainVars, valid, freed, lock, pcMain, item, base, asserts, limit,
                 added, begun, completed, outcome>>

WorkPush ==
  /\ ~ub /\ pcWork = "push"
  /\ PushTail(CompleteWork, base)
  /\ Touch(LastOf(CompleteWork))
  /\ base' = NULL
  /\ pcWork' = "check"
  /\ UNCHANGED <<flagVars, freed, lock, pcMain, item, limit, clientVars>>

Bug_WorkCheck ==
  /\ ~ub /\ pcWork = "check"
  /\ pcWork' = IF head[CompleteSwap] # NULL THEN "fill" ELSE "pop"
  /\ UNCHANGED <<chainVars, flagVars, freed, lock, pcMain, item, base, asserts, ub,
                 limit, clientVars>>

\* complete.swap is refilled only when it is seen empty, without the lock.
WorkCheck ==
  /\ ~ub /\ pcWork = "check"
  /\ pcWork' = IF head[CompleteSwap] = NULL THEN "fill" ELSE "pop"
  /\ asserts' = IF head[CompleteSwap] = NULL /\ tail[CompleteWork] = NULL
                THEN asserts \cup {"OwnFromTail"} ELSE asserts
  /\ UNCHANGED <<chainVars, flagVars, freed, lock, pcMain, item, base, ub, limit,
                 clientVars>>

WorkFill ==
  /\ ~ub /\ pcWork = "fill"
  /\ lock["complete"] = "none"
  /\ lock' = [lock EXCEPT !["complete"] = "worker"]
  /\ MergeFill(CompleteSwap, CompleteWork)
  /\ Touch(LastOf(CompleteSwap))
  /\ pcWork' = "done"
  /\ UNCHANGED <<flagVars, freed, pcMain, item, base, asserts, limit, clientVars>>

WorkDone ==
  /\ ~ub /\ pcWork = "done"
  /\ MergeDone(CompleteSwap, CompleteWork)
  /\ lock' = [lock EXCEPT !["complete"] = "none"]
  /\ pcWork' = "pop"
  /\ UNCHANGED <<flagVars, freed, pcMain, item, base, asserts, ub, limit, clientVars>>

(***************************************************************************)
(* Specification.  Both threads loop for ever, so each takes its enabled   *)
(* steps; what the client does is its own choice.                          *)
(***************************************************************************)
\* The process is lost: a released task was accessed.
Halted == ub /\ UNCHANGED vars

Main == \/ LoopBegin \/ ReadyFill \/ ReadyDone \/ MainSwapHead \/ MainSwapTail
        \/ MainSwapLock \/ MainPop \/ OnComplete \/ Release
Worker == \/ WorkPop \/ WorkSwapHead \/ WorkSwapTail \/ WorkSwapLock \/ OnExecute
          \/ ExecuteEnd \/ WorkPush \/ WorkCheck \/ WorkFill \/ WorkDone
Client == StartAsync \/ \E t \in Tasks : StopAsync(t)

Next == Main \/ Worker \/ Client \/ Halted

Spec == Init /\ [][Next]_vars
FairSpec == Spec /\ WF_vars(Main) /\ WF_vars(Worker)

(***************************************************************************)
(* Properties.                                                             *)
(***************************************************************************)
\* Every variable has its type, and a thread has a task in hand exactly while it is
\* working on one.
TypeOK ==
  /\ head \in [Chains -> Pointer]
  /\ tail \in [Chains -> Pointer]
  /\ next \in [Tasks -> Pointer]
  /\ valid \in [Tasks -> BOOLEAN]
  /\ executed \in [Tasks -> BOOLEAN]
  /\ successed \in [Tasks -> BOOLEAN]
  /\ freed \in SUBSET Tasks
  /\ lock \in [Locks -> {"none", "main", "worker"}]
  /\ pcMain \in MainPCs
  /\ pcWork \in WorkPCs
  /\ item \in Pointer
  /\ base \in Pointer
  /\ asserts \in SUBSET AssertSites
  /\ ub \in BOOLEAN
  /\ limit \in 1 .. MaxInFlight
  /\ added \in 0 .. N
  /\ begun \in Seq(Tasks)
  /\ completed \in Seq(Tasks)
  /\ threw \in SUBSET Tasks
  /\ outcome \in [Tasks -> Outcomes]
  /\ (item # NULL) <=> (pcMain \in {"complete", "callback"})
  /\ (base # NULL) <=> (pcWork \in {"execute", "running", "push"})

\* Handlers are executed in the order of their StartAsync calls, each at most once,
\* whatever the two threads interleave (ThreadProc; IMysqlMgr.h relies on it), and the
\* completion callbacks come in that order too, none skipped and none repeated
\* (AsyncThread::Loop).
ServedInOrder ==
  /\ \A i, j \in DOMAIN begun : i < j => begun[i] < begun[j]
  /\ Len(completed) <= added
  /\ \A i \in DOMAIN completed : completed[i] = i

\* The k-th node met when following next from the head of chain c.
Walk(c) ==
  LET node[k \in 0 .. N] ==
        IF k = 0 THEN head[c]
        ELSE IF node[k - 1] = NULL THEN NULL ELSE next[node[k - 1]]
  IN  node

\* A task that was started and has not completed is held by one of the threads or can
\* be reached from the head of a chain: no merge, push or pop drops it.
NoTaskLost ==
  \A t \in Started \ Done :
    \/ t \in {item, base}
    \/ \E c \in Chains : \E k \in 0 .. N : Walk(c)[k] = t

\* The ASSERTs on a chain that the asserting thread owns never fire (PushTail, and
\* MergeListByLock with a private `from'): only the look at the shared chain's tail, taken
\* before the lock, can.
OwnChainAssertsHold == asserts \subseteq {"SwapFromTail"}

\* A client with one task in flight never makes the kernel touch a released task, and
\* its task is reported unexecuted only if it was stopped or its handler threw.
SerialClientSafe ==
  limit = 1 => /\ ~ub
               /\ \A t \in Tasks : outcome[t] = "unexecuted" => ~valid[t] \/ t \in threw

\* A client with one task in flight gets a completion callback for each task it starts
\* (ThreadProc publishes the completion, Loop delivers it).
SerialClientServed == limit = 1 => []<>(Len(completed) = added)
=============================================================================
