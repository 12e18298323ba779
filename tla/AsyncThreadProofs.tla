------------------------- MODULE AsyncThreadProofs -------------------------
(***************************************************************************)
(* Proofs about AsyncThread, for every number of tasks.                    *)
(*                                                                         *)
(* AsyncInv strengthens the type invariant with the shape of the chains: a *)
(* chain's head and tail are null together, except the swap chain that a   *)
(* lock holder is half way through filling.                                *)
(***************************************************************************)
EXTENDS AsyncThread, WellFoundedInduction, TLAPS

EmptyTogether(c) == (head[c] = NULL) <=> (tail[c] = NULL)

\* Each mutex is held exactly between the two stores of the merge it protects.
LockInv ==
  /\ lock["ready"] = IF pcMain = "readyDone" THEN "main" ELSE "none"
  /\ lock["complete"] = IF pcWork = "done" THEN "worker" ELSE "none"

\* Private chains always have their shape, swap chains except while being filled.
ShapeInv ==
  /\ \A c \in {ReadyMain, ReadyWork, CompleteMain, CompleteWork} : EmptyTogether(c)
  /\ pcMain # "readyDone" => EmptyTogether(ReadySwap)
  /\ pcWork # "done" => EmptyTogether(CompleteSwap)

\* What a thread has read about a chain still holds when it acts on it.
ReadInv ==
  /\ pcMain \in {"readyFill", "readyDone"} => head[ReadyMain] # NULL
  /\ pcMain = "readyDone" => head[ReadySwap] # NULL
  /\ pcMain \in {"swapTail", "swapLock"} => head[CompleteSwap] # NULL
  /\ pcWork \in {"check", "fill", "done"} => head[CompleteWork] # NULL
  /\ pcWork = "done" => head[CompleteSwap] # NULL
  /\ pcWork \in {"swapTail", "swapLock"} => head[ReadySwap] # NULL

AsyncInv == TypeOK /\ LockInv /\ ShapeInv /\ ReadInv /\ OwnChainAssertsHold

\* Appending an element of S to a sequence over S gives a sequence over S.
LEMMA AppendType ==
  ASSUME NEW S, NEW s \in Seq(S), NEW e \in S PROVE Append(s, e) \in Seq(S)
  OBVIOUS

\* The initial state satisfies the invariant: all chains are empty.
LEMMA InitAsyncInv == Init => AsyncInv
<1> SUFFICES ASSUME Init PROVE AsyncInv
  OBVIOUS
<1> USE NAssumption, MaxInFlightAssumption, NullAssumption DEF Init
<1>1. TypeOK
  <2>1. /\ head \in [Chains -> Pointer] /\ tail \in [Chains -> Pointer]
        /\ next \in [Tasks -> Pointer] /\ outcome \in [Tasks -> Outcomes]
    BY DEF Pointer, Outcomes
  <2>2. /\ begun \in Seq(Tasks) /\ completed \in Seq(Tasks)
    OBVIOUS
  <2>3. /\ valid \in [Tasks -> BOOLEAN] /\ executed \in [Tasks -> BOOLEAN]
        /\ successed \in [Tasks -> BOOLEAN]
    BY Zenon
  <2>4. /\ lock \in [Locks -> {"none", "main", "worker"}]
        /\ freed \in SUBSET Tasks /\ asserts \in SUBSET AssertSites /\ threw \in SUBSET Tasks
        /\ item \in Pointer /\ base \in Pointer /\ added \in 0 .. N
    BY DEF Pointer
  <2>5. /\ pcMain \in MainPCs /\ pcWork \in WorkPCs
        /\ (item # NULL) <=> (pcMain \in {"complete", "callback"})
        /\ (base # NULL) <=> (pcWork \in {"execute", "running", "push"})
    BY DEF MainPCs, WorkPCs
  <2>6. ub \in BOOLEAN /\ limit \in 1 .. MaxInFlight
    OBVIOUS
  <2>7. QED
    BY <2>1, <2>2, <2>3, <2>4, <2>5, <2>6, Zenon DEF TypeOK
<1>2. LockInv /\ OwnChainAssertsHold
  BY DEF LockInv, OwnChainAssertsHold, Locks
<1>3. ShapeInv /\ ReadInv
  BY DEF ShapeInv, ReadInv, EmptyTogether, Chains, ReadyMain, ReadySwap, ReadyWork,
         CompleteMain, CompleteSwap, CompleteWork
<1>4. QED
  BY <1>1, <1>2, <1>3 DEF AsyncInv

\* Every step of either thread, and of the client, preserves the invariant.
LEMMA NextAsyncInv == AsyncInv /\ [Next]_vars => AsyncInv'
<1> SUFFICES ASSUME AsyncInv, [Next]_vars PROVE AsyncInv'
  OBVIOUS
<1> USE NAssumption, MaxInFlightAssumption, NullAssumption
    DEF AsyncInv, TypeOK, LockInv, ShapeInv, ReadInv, OwnChainAssertsHold, EmptyTogether,
        Chains, Locks, Pointer, MainPCs, WorkPCs, AssertSites, Outcomes, ReadyMain,
        ReadySwap, ReadyWork, CompleteMain, CompleteSwap, CompleteWork,
        chainVars, flagVars, clientVars
<1>1. CASE StartAsync
  <2>1. added + 1 \in Tasks /\ added + 1 # NULL
    BY <1>1 DEF StartAsync, Tasks
  <2>2. added' \in 0 .. N
    BY <1>1 DEF StartAsync
  <2>3. QED
    BY <1>1, <2>1, <2>2 DEF StartAsync, PushTail, Touch
<1>2. CASE \E t \in Tasks : StopAsync(t)
  BY <1>2 DEF StopAsync, Touch
<1>3. CASE LoopBegin
  BY <1>3 DEF LoopBegin
<1>4. CASE ReadyFill
  BY <1>4 DEF ReadyFill, MergeFill, Touch
<1>5. CASE ReadyDone
  BY <1>5 DEF ReadyDone, MergeDone
<1>6. CASE MainSwapHead
  BY <1>6 DEF MainSwapHead
<1>7. CASE MainSwapTail
  BY <1>7 DEF MainSwapTail
<1>8. CASE MainSwapLock
  BY <1>8 DEF MainSwapLock, Merge, Touch
<1>9. CASE MainPop
  <2>1. CASE head[CompleteMain] = NULL
    BY <1>9, <2>1 DEF MainPop
  <2>2. CASE head[CompleteMain] # NULL
    <3>1. head[CompleteMain] \in Tasks /\ next[head[CompleteMain]] \in Pointer
      BY <2>2
    <3>2. head' \in [Chains -> Pointer] /\ tail' \in [Chains -> Pointer]
      BY <1>9, <2>2, <3>1 DEF MainPop, PopHead
    <3>3. ub' \in BOOLEAN
      BY <1>9, <2>2 DEF MainPop, Touch
    <3>4. QED
      BY <1>9, <2>2, <3>1, <3>2, <3>3 DEF MainPop, PopHead
  <2>3. QED
    BY <2>1, <2>2
<1>10. CASE OnComplete
  BY <1>10 DEF OnComplete, Touch
<1>11. CASE Release
  BY <1>11 DEF Release
<1>12. CASE WorkPop
  <2>1. CASE head[ReadyWork] = NULL
    BY <1>12, <2>1 DEF WorkPop
  <2>2. CASE head[ReadyWork] # NULL
    <3>1. head[ReadyWork] \in Tasks /\ next[head[ReadyWork]] \in Pointer
      BY <2>2
    <3>2. head' \in [Chains -> Pointer] /\ tail' \in [Chains -> Pointer]
      BY <1>12, <2>2, <3>1 DEF WorkPop, PopHead
    <3>3. ub' \in BOOLEAN
      BY <1>12, <2>2 DEF WorkPop, Touch
    <3>4. QED
      BY <1>12, <2>2, <3>1, <3>2, <3>3 DEF WorkPop, PopHead
  <2>3. QED
    BY <2>1, <2>2
<1>13. CASE WorkSwapHead
  BY <1>13 DEF WorkSwapHead
<1>14. CASE WorkSwapTail
  BY <1>14 DEF WorkSwapTail
<1>15. CASE WorkSwapLock
  BY <1>15 DEF WorkSwapLock, Merge, Touch
<1>16. CASE OnExecute
  <2>1. CASE valid[base]
    <3>1. base \in Tasks
      BY <1>16 DEF OnExecute
    <3>2. begun' \in Seq(Tasks)
      <4>1. begun' = Append(begun, base)
        BY <1>16, <2>1 DEF OnExecute
      <4>2. begun \in Seq(Tasks)
        OBVIOUS
      <4>3. QED
        BY ONLY <3>1, <4>1, <4>2, AppendType, Zenon
    <3>3. /\ pcWork = "execute" /\ pcWork' = "running" /\ ub' \in BOOLEAN
          /\ UNCHANGED <<chainVars, flagVars, freed, lock, pcMain, item, base, asserts,
                         limit, added, completed, threw, outcome>>
      BY <1>16, <2>1 DEF OnExecute, Touch
    <3>4. QED
      BY <3>2, <3>3
  <2>2. CASE ~valid[base]
    BY <1>16, <2>2 DEF OnExecute, Touch
  <2>3. QED
    BY <2>1, <2>2
<1>17. CASE ExecuteEnd
  <2>1. /\ pcWork = "running" /\ pcWork' = "push" /\ ub' \in BOOLEAN
        /\ UNCHANGED <<chainVars, valid, freed, lock, pcMain, item, base, asserts, limit,
                       added, begun, completed, outcome>>
    BY <1>17 DEF ExecuteEnd, Touch
  <2>2. /\ successed' \in [Tasks -> BOOLEAN] /\ executed' \in [Tasks -> BOOLEAN]
        /\ threw' \in SUBSET Tasks
    <3>1. base \in Tasks
      BY <1>17 DEF ExecuteEnd
    <3>2. CASE threw' = threw \cup {base} /\ UNCHANGED <<executed, successed>>
      BY <3>1, <3>2
    <3>3. CASE /\ \E ok \in BOOLEAN : successed' = [successed EXCEPT ![base] = ok]
               /\ executed' = [executed EXCEPT ![base] = TRUE]
               /\ UNCHANGED threw
      BY <3>1, <3>3
    <3>4. QED
      BY <1>17, <3>2, <3>3 DEF ExecuteEnd
  <2>3. QED
    BY <2>1, <2>2
<1>18. CASE WorkPush
  BY <1>18 DEF WorkPush, PushTail, Touch
<1>19. CASE WorkCheck
  BY <1>19 DEF WorkCheck
<1>20. CASE WorkFill
  BY <1>20 DEF WorkFill, MergeFill, Touch
<1>21. CASE WorkDone
  BY <1>21 DEF WorkDone, MergeDone
<1>22. CASE UNCHANGED vars
  BY <1>22 DEF vars
<1>23. QED
  BY <1>1, <1>2, <1>3, <1>4, <1>5, <1>6, <1>7, <1>8, <1>9, <1>10, <1>11, <1>12, <1>13,
     <1>14, <1>15, <1>16, <1>17, <1>18, <1>19, <1>20, <1>21, <1>22
  DEF Next, Main, Worker, Client, Halted

\* The invariant holds in every reachable state.
LEMMA AsyncInvariant == Spec => []AsyncInv
  BY InitAsyncInv, NextAsyncInv, PTL DEF Spec

\* Type correctness of the hand-off between the main thread and a worker.
THEOREM AsyncTypeCorrect == Spec => []TypeOK
  BY AsyncInvariant, PTL DEF AsyncInv

\* For any number of tasks and any interleaving, no ASSERT of TList.h on a chain owned
\* by the asserting thread fires; the unlocked test of a swap chain is the only one
\* that can.
THEOREM OwnChainsNeverAssert == Spec => []OwnChainAssertsHold
  BY AsyncInvariant, PTL DEF AsyncInv

(***************************************************************************)
(* The client with one task in flight.  The task, numbered `added', is in  *)
(* one place at a time, so no two tasks are ever linked and no next        *)
(* pointer is left behind: that is what makes this client safe.            *)
(***************************************************************************)
\* Completions so far: the first tasks, in order; only they can be released.
SerialCount ==
  /\ Len(completed) <= added
  /\ added <= Len(completed) + 1
  /\ \A i \in 1 .. Len(completed) : completed[i] = i
  /\ \A t \in freed : t <= Len(completed)
  /\ pcMain = "callback" => item <= Len(completed)

\* The task in flight is the only one on any chain or in any hand.
SerialPlace ==
  /\ \A t \in Tasks : next[t] = NULL
  /\ \A c \in Chains : head[c] \in {NULL, added}
  /\ base \in {NULL, added}
  /\ pcMain = "complete" => item = added
  /\ Len(completed) = added =>
       (\A c \in Chains : head[c] = NULL) /\ base = NULL /\ pcMain # "complete"

\* It is in one place, or on the two chains of the merge under way.
SerialUnique ==
  /\ base # NULL => \A c \in Chains : head[c] = NULL
  /\ pcMain = "complete" => base = NULL /\ \A c \in Chains : head[c] = NULL
  /\ \A c, d \in Chains :
       head[c] # NULL /\ head[d] # NULL /\ c # d =>
         \/ pcMain = "readyDone" /\ {c, d} \subseteq {ReadyMain, ReadySwap}
         \/ pcWork = "done" /\ {c, d} \subseteq {CompleteWork, CompleteSwap}

Settled(t) == executed[t] \/ ~valid[t] \/ t \in threw

\* Past the worker, the task was executed, stopped or its handler threw.
SerialSettled ==
  /\ \/ pcWork = "push" \/ pcMain = "complete"
     \/ \E c \in {CompleteWork, CompleteSwap, CompleteMain} : head[c] # NULL
     => Settled(added)
  /\ \A t \in Tasks : outcome[t] = "unexecuted" => ~valid[t] \/ t \in threw

SerialInv ==
  limit = 1 => ~ub /\ SerialCount /\ SerialPlace /\ SerialUnique /\ SerialSettled

\* Initially nothing is started.
LEMMA InitSerialInv == Init => SerialInv
<1> SUFFICES ASSUME Init PROVE SerialInv
  OBVIOUS
<1> USE NAssumption, NullAssumption DEF Init
<1>1. ~ub /\ SerialCount
  BY DEF SerialCount
<1>2. SerialPlace /\ SerialUnique
  BY DEF SerialPlace, SerialUnique, Chains
<1>3. SerialSettled
  BY DEF SerialSettled, Chains, CompleteWork, CompleteSwap, CompleteMain
<1>4. QED
  BY <1>1, <1>2, <1>3 DEF SerialInv

\* Every step keeps the single task in one place.
LEMMA NextSerialInv == AsyncInv /\ SerialInv /\ [Next]_vars => SerialInv'
<1> SUFFICES ASSUME AsyncInv, SerialInv, [Next]_vars, limit' = 1 PROVE SerialInv'
  BY DEF SerialInv
<1>0. limit = 1
  BY DEF Next, vars, Main, Worker, Client, Halted, StartAsync, StopAsync, LoopBegin,
         ReadyFill, ReadyDone, MainSwapHead, MainSwapTail, MainSwapLock, MainPop,
         OnComplete, Release, WorkPop, WorkSwapHead, WorkSwapTail, WorkSwapLock,
         OnExecute, ExecuteEnd, WorkPush, WorkCheck, WorkFill, WorkDone
<1> USE <1>0, NAssumption, NullAssumption
    DEF AsyncInv, TypeOK, LockInv, ReadInv, SerialInv, SerialCount, SerialPlace,
        SerialUnique, SerialSettled, Settled, Chains, Locks, Pointer, ReadyMain,
        ReadySwap, ReadyWork, CompleteMain, CompleteSwap, CompleteWork,
        chainVars, flagVars, clientVars, Tasks
<1>1. CASE StartAsync
  BY <1>1 DEF StartAsync, PushTail, Touch, LastOf
<1>2. CASE \E t \in Tasks : StopAsync(t)
  <2>1. PICK t \in Tasks : StopAsync(t)
    BY <1>2
  <2>2. t \notin freed
    <3>1. t \notin Done
      BY <2>1 DEF StopAsync
    <3>2. \A i \in 1 .. Len(completed) : i \in Done
      <4>1. DOMAIN completed = 1 .. Len(completed)
        OBVIOUS
      <4>2. QED
        BY ONLY <4>1, \A i \in 1 .. Len(completed) : completed[i] = i DEF Done
    <3>3. QED
      BY <3>1, <3>2
  <2>3. /\ ~ub' /\ valid' = [valid EXCEPT ![t] = FALSE]
        /\ UNCHANGED <<chainVars, executed, successed, freed, lock, pcMain, pcWork, item,
                       base, asserts, added, begun, completed, threw, outcome>>
    BY <2>1, <2>2 DEF StopAsync, Touch
  <2>4. SerialCount' /\ SerialPlace' /\ SerialUnique'
    BY <2>3
  <2>5. SerialSettled'
    BY <2>3
  <2>6. QED
    BY <2>3, <2>4, <2>5
<1>3. CASE LoopBegin
  BY <1>3 DEF LoopBegin
<1>4. CASE ReadyFill
  BY <1>4 DEF ReadyFill, MergeFill, Touch, LastOf
<1>5. CASE ReadyDone
  <2>1. /\ head' = [head EXCEPT ![ReadyMain] = NULL] /\ pcMain = "readyDone" /\ pcMain' = "swapHead"
        /\ UNCHANGED <<next, flagVars, freed, pcWork, item, base, ub, clientVars>>
    BY <1>5 DEF ReadyDone, MergeDone
  <2>2. \A c \in Chains \ {ReadyMain, ReadySwap} : head[c] = NULL
    BY <2>1
  <2>3. /\ head'[ReadyMain] = NULL /\ head'[ReadySwap] = head[ReadySwap]
        /\ \A c \in Chains \ {ReadyMain, ReadySwap} : head'[c] = NULL
    BY <2>1, <2>2
  <2>4. ~ub' /\ SerialCount' /\ SerialPlace'
    BY <2>1, <2>3
  <2>5. SerialUnique' /\ SerialSettled'
    BY <2>1, <2>2, <2>3
  <2>6. QED
    BY <2>4, <2>5
<1>6. CASE MainSwapHead
  BY <1>6 DEF MainSwapHead
<1>7. CASE MainSwapTail
  BY <1>7 DEF MainSwapTail
<1>8. CASE MainSwapLock
  BY <1>8 DEF MainSwapLock, Merge, Touch, LastOf
<1>9. CASE MainPop
  <2>1. CASE head[CompleteMain] = NULL
    BY <1>9, <2>1 DEF MainPop
  <2>2. CASE head[CompleteMain] # NULL
    <3>1. head[CompleteMain] = added /\ next[added] = NULL /\ added \notin freed
      BY <2>2
    <3>2. /\ head' = [head EXCEPT ![CompleteMain] = NULL] /\ item' = added /\ ~ub'
          /\ pcMain = "pop" /\ pcMain' = "complete"
          /\ UNCHANGED <<next, flagVars, freed, pcWork, base, clientVars>>
      BY <1>9, <2>2, <3>1 DEF MainPop, PopHead, Touch
    <3>3. base = NULL /\ \A c \in Chains \ {CompleteMain} : head[c] = NULL
      BY <2>2, <3>2
    <3>4. \A c \in Chains : head'[c] = NULL
      BY <3>2, <3>3
    <3>5. SerialCount' /\ SerialPlace'
      BY <2>2, <3>1, <3>2, <3>3, <3>4
    <3>6. SerialUnique' /\ SerialSettled'
      BY <2>2, <3>1, <3>2, <3>3, <3>4
    <3>7. QED
      BY <3>2, <3>5, <3>6
  <2>3. QED
    BY <2>1, <2>2
<1>10. CASE OnComplete
  BY <1>10 DEF OnComplete, Touch
<1>11. CASE Release
  BY <1>11 DEF Release
<1>12. CASE WorkPop
  <2>1. CASE head[ReadyWork] = NULL
    BY <1>12, <2>1 DEF WorkPop
  <2>2. CASE head[ReadyWork] # NULL
    <3>1. head[ReadyWork] = added /\ next[added] = NULL /\ added \notin freed
      BY <2>2
    <3>2. /\ head' = [head EXCEPT ![ReadyWork] = NULL] /\ base' = added /\ ~ub'
          /\ pcWork = "pop" /\ pcWork' = "execute"
          /\ UNCHANGED <<next, flagVars, freed, pcMain, item, clientVars>>
      BY <1>12, <2>2, <3>1 DEF WorkPop, PopHead, Touch
    <3>3. pcMain # "complete" /\ \A c \in Chains \ {ReadyWork} : head[c] = NULL
      BY <2>2, <3>2
    <3>4. \A c \in Chains : head'[c] = NULL
      BY <3>2, <3>3
    <3>5. SerialCount' /\ SerialPlace'
      BY <2>2, <3>1, <3>2, <3>3, <3>4
    <3>6. SerialUnique' /\ SerialSettled'
      BY <2>2, <3>1, <3>2, <3>3, <3>4
    <3>7. QED
      BY <3>2, <3>5, <3>6
  <2>3. QED
    BY <2>1, <2>2
<1>13. CASE WorkSwapHead
  BY <1>13 DEF WorkSwapHead
<1>14. CASE WorkSwapTail
  BY <1>14 DEF WorkSwapTail
<1>15. CASE WorkSwapLock
  BY <1>15 DEF WorkSwapLock, Merge, Touch, LastOf
<1>16. CASE OnExecute
  BY <1>16 DEF OnExecute, Touch
<1>17. CASE ExecuteEnd
  BY <1>17 DEF ExecuteEnd, Touch
<1>18. CASE WorkPush
  BY <1>18 DEF WorkPush, PushTail, Touch, LastOf
<1>19. CASE WorkCheck
  BY <1>19 DEF WorkCheck
<1>20. CASE WorkFill
  BY <1>20 DEF WorkFill, MergeFill, Touch, LastOf
<1>21. CASE WorkDone
  <2>1. /\ head' = [head EXCEPT ![CompleteWork] = NULL] /\ pcWork = "done" /\ pcWork' = "pop"
        /\ UNCHANGED <<next, flagVars, freed, pcMain, item, base, ub, clientVars>>
    BY <1>21 DEF WorkDone, MergeDone
  <2>2. \A c \in Chains \ {CompleteWork, CompleteSwap} : head[c] = NULL
    BY <2>1
  <2>3. /\ head'[CompleteWork] = NULL /\ head'[CompleteSwap] = head[CompleteSwap]
        /\ \A c \in Chains \ {CompleteWork, CompleteSwap} : head'[c] = NULL
    BY <2>1, <2>2
  <2>4. ~ub' /\ SerialCount' /\ SerialPlace'
    BY <2>1, <2>3
  <2>5. SerialUnique' /\ SerialSettled'
    BY <2>1, <2>2, <2>3
  <2>6. QED
    BY <2>4, <2>5
<1>22. CASE UNCHANGED vars
  BY <1>22 DEF vars
<1>23. QED
  BY <1>1, <1>2, <1>3, <1>4, <1>5, <1>6, <1>7, <1>8, <1>9, <1>10, <1>11, <1>12, <1>13,
     <1>14, <1>15, <1>16, <1>17, <1>18, <1>19, <1>20, <1>21, <1>22
  DEF Next, Main, Worker, Client, Halted

\* A client that keeps one task in flight never makes the kernel touch a released task,
\* and is told the truth about what was executed, for any number of tasks.
THEOREM SerialClientIsSafe == Spec => []SerialClientSafe
<1>1. SerialInv => SerialClientSafe
  BY DEF SerialInv, SerialClientSafe, SerialSettled
<1>2. QED
  BY <1>1, AsyncInvariant, InitSerialInv, NextSerialInv, PTL DEF Spec

(***************************************************************************)
(* The order of the tasks.  Along complete.main, complete.swap,            *)
(* complete.work, the worker's hand, ready.work, ready.swap and ready.main *)
(* the tasks stand in the order of their StartAsync calls: each chain      *)
(* ends where the next one begins.  Only complete.main may lose its place: *)
(* a next pointer left in a popped task can lead Loop past its tail, to    *)
(* tasks that the worker still has, but never out of the order.            *)
(***************************************************************************)
\* The first task from a chain on, in that order; added + 1 when there is none.
FromReadyMain == IF head[ReadyMain] # NULL THEN head[ReadyMain] ELSE added + 1
FromReadySwap == IF head[ReadySwap] # NULL THEN head[ReadySwap] ELSE FromReadyMain
FromReadyWork == IF head[ReadyWork] # NULL THEN head[ReadyWork] ELSE FromReadySwap
FromWorker    == IF base # NULL THEN base ELSE FromReadyWork
FromCompleteWork == IF head[CompleteWork] # NULL THEN head[CompleteWork] ELSE FromWorker
FromCompleteSwap ==
  IF head[CompleteSwap] # NULL THEN head[CompleteSwap] ELSE FromCompleteWork

\* Following next from task lo leads through all tasks up to hi.
Linked(lo, hi) == \A t \in Tasks : lo <= t /\ t < hi => next[t] = t + 1

\* Chain c holds the tasks from its head up to the one before `end'.
Holds(c, end) ==
  head[c] # NULL =>
    tail[c] = end - 1 /\ head[c] <= tail[c] /\ Linked(head[c], tail[c])

\* The last task of a ready chain has never been followed by another one.
Ends(c) == head[c] # NULL => next[tail[c]] = NULL

\* next leads to the following task or nowhere, and no pointer leads past the started tasks.
NextInv ==
  /\ \A t \in Tasks : next[t] # NULL => next[t] = t + 1 /\ t + 1 <= added
  /\ \A c \in Chains : head[c] # NULL => head[c] <= added

ReadyOrder ==
  /\ Holds(ReadyMain, added + 1) /\ Ends(ReadyMain)
  /\ pcMain # "readyDone" => Holds(ReadySwap, FromReadyMain) /\ Ends(ReadySwap)
  /\ pcMain = "readyDone" =>
       head[ReadySwap] <= head[ReadyMain] /\ Linked(head[ReadySwap], head[ReadyMain])
  /\ Holds(ReadyWork, FromReadySwap) /\ Ends(ReadyWork)
  /\ base # NULL => base = FromReadyWork - 1

CompleteOrder ==
  /\ Holds(CompleteWork, FromWorker)
  /\ pcWork # "done" => Holds(CompleteSwap, FromCompleteWork)
  /\ pcWork = "fill" => head[CompleteSwap] = NULL
  /\ pcWork = "done" => head[CompleteSwap] = head[CompleteWork]
  /\ head[CompleteMain] # NULL =>
       /\ tail[CompleteMain] = FromCompleteSwap - 1
       /\ Linked(head[CompleteMain], tail[CompleteMain])

\* The number of tasks that Loop has taken off complete.main.
Taken ==
  IF pcMain = "complete" /\ item = Len(completed) + 1 THEN item ELSE Len(completed)

\* Loop takes the tasks in order.  A task it meets again has been released, and touching
\* that one is what sets ub.
LoopOrder ==
  /\ \A i \in 1 .. Len(completed) : completed[i] = i
  /\ Taken <= added
  /\ pcMain = "complete" => item <= Taken /\ (~ub => item = Len(completed) + 1)
  /\ pcMain = "callback" => item = Len(completed)
  /\ freed = 1 .. (IF pcMain = "callback" THEN Len(completed) - 1 ELSE Len(completed))
  /\ IF head[CompleteMain] # NULL THEN head[CompleteMain] <= Taken + 1
                                  ELSE FromCompleteSwap <= Taken + 1

\* Handlers run in order: the worker's hand is past every handler that was entered.
BegunOrder ==
  /\ \A i, j \in 1 .. Len(begun) : i < j => begun[i] < begun[j]
  /\ \A i \in 1 .. Len(begun) : begun[i] < FromReadyWork
  /\ pcWork = "execute" => \A i \in 1 .. Len(begun) : begun[i] < base

OrderInv == NextInv /\ ReadyOrder /\ CompleteOrder /\ LoopOrder /\ BegunOrder

\* Initially no task is started.
LEMMA InitOrderInv == Init => OrderInv
<1> SUFFICES ASSUME Init PROVE OrderInv
  OBVIOUS
<1> USE NAssumption, NullAssumption
    DEF Init, Chains, ReadyMain, ReadySwap, ReadyWork, CompleteMain, CompleteSwap,
        CompleteWork, FromReadyMain, FromReadySwap, FromReadyWork, FromWorker,
        FromCompleteWork, FromCompleteSwap, Holds, Ends
<1>1. NextInv /\ ReadyOrder /\ CompleteOrder
  BY DEF NextInv, ReadyOrder, CompleteOrder
<1>2. LoopOrder /\ BegunOrder
  BY DEF LoopOrder, Taken, BegunOrder
<1>3. QED
  BY <1>1, <1>2 DEF OrderInv

\* An element of a sequence over S is in S.
LEMMA SeqElement ==
  ASSUME NEW S, NEW s \in Seq(S), NEW i \in 1 .. Len(s) PROVE s[i] \in S
  OBVIOUS

\* Appending adds one element behind the others.
LEMMA AppendElements ==
  ASSUME NEW S, NEW s \in Seq(S), NEW e \in S
  PROVE  /\ Len(Append(s, e)) = Len(s) + 1 /\ Append(s, e)[Len(s) + 1] = e
         /\ \A i \in 1 .. Len(s) : Append(s, e)[i] = s[i]
  OBVIOUS

\* The places stand in order.
LEMMA PlacesInOrder ==
  ASSUME AsyncInv, OrderInv
  PROVE  /\ FromReadyMain \in 1 .. added + 1 /\ FromReadySwap \in 1 .. FromReadyMain
         /\ FromReadyWork \in 1 .. FromReadySwap /\ FromWorker \in 0 .. FromReadyWork
         /\ FromCompleteWork \in 0 .. FromWorker
         /\ FromCompleteSwap \in 0 .. FromCompleteWork
<1> USE NAssumption, NullAssumption
    DEF AsyncInv, TypeOK, ReadInv, OrderInv, NextInv, ReadyOrder, CompleteOrder, Holds,
        Chains, Pointer, ReadyMain, ReadySwap, ReadyWork, CompleteMain,
        CompleteSwap, CompleteWork, Tasks
<1>1. FromReadyMain \in 1 .. added + 1
  BY DEF FromReadyMain
<1>2. FromReadySwap \in 1 .. FromReadyMain
  BY <1>1 DEF FromReadySwap, FromReadyMain
<1>3. FromReadyWork \in 1 .. FromReadySwap
  BY <1>1, <1>2 DEF FromReadyWork
<1>4. FromWorker \in 0 .. FromReadyWork
  BY <1>1, <1>2, <1>3 DEF FromWorker
<1>5. FromCompleteWork \in 0 .. FromWorker
  BY <1>1, <1>2, <1>3, <1>4 DEF FromCompleteWork
<1>6. FromCompleteSwap \in 0 .. FromCompleteWork
  BY <1>1, <1>2, <1>3, <1>4, <1>5 DEF FromCompleteSwap, FromCompleteWork
<1>7. QED
  BY ONLY <1>1, <1>2, <1>3, <1>4, <1>5, <1>6

\* Every step keeps the tasks in order.
LEMMA NextOrderInv == AsyncInv /\ OrderInv /\ [Next]_vars => OrderInv'
<1> SUFFICES ASSUME AsyncInv, OrderInv, [Next]_vars PROVE OrderInv'
  OBVIOUS
<1>0. /\ FromReadyMain \in 1 .. added + 1 /\ FromReadySwap \in 1 .. FromReadyMain
      /\ FromReadyWork \in 1 .. FromReadySwap /\ FromWorker \in 0 .. FromReadyWork
      /\ FromCompleteWork \in 0 .. FromWorker
      /\ FromCompleteSwap \in 0 .. FromCompleteWork /\ added \in 0 .. N
  BY PlacesInOrder DEF AsyncInv, TypeOK
<1> USE NAssumption, NullAssumption
    DEF AsyncInv, TypeOK, LockInv, ShapeInv, ReadInv, EmptyTogether,
        OrderInv, NextInv, ReadyOrder, CompleteOrder, LoopOrder, BegunOrder, Taken,
        Linked, Holds, Ends, FromReadyMain, FromReadySwap, FromReadyWork, FromWorker,
        FromCompleteWork, FromCompleteSwap,
        Chains, Locks, Pointer, ReadyMain, ReadySwap, ReadyWork, CompleteMain,
        CompleteSwap, CompleteWork, chainVars, flagVars, clientVars, Tasks
<1>1. CASE StartAsync
  <2>1. /\ added' = added + 1 /\ tail' = [tail EXCEPT ![ReadyMain] = added + 1]
        /\ UNCHANGED <<pcMain, pcWork, base, item, freed, begun, completed>>
        /\ ~ub /\ added < N
    BY <1>1 DEF StartAsync, PushTail
  <2>2. /\ head[ReadyMain] = NULL =>
             head' = [head EXCEPT ![ReadyMain] = added + 1] /\ next' = next
        /\ head[ReadyMain] # NULL =>
             head' = head /\ next' = [next EXCEPT ![added] = added + 1]
    <3>1. head[ReadyMain] # NULL => tail[ReadyMain] = added
      OBVIOUS
    <3>2. QED
      BY <1>1, <3>1 DEF StartAsync, PushTail
  <2>3. /\ \A t \in Tasks : next[t] = t + 1 => next'[t] = t + 1
        /\ \A t \in Tasks : t # added => next'[t] = next[t]
    BY <2>2, SMTT(40)
  <2>4. /\ FromReadyMain' = FromReadyMain /\ FromReadySwap' = FromReadySwap
        /\ FromReadyWork' = FromReadyWork /\ FromWorker' = FromWorker
        /\ FromCompleteWork' = FromCompleteWork /\ FromCompleteSwap' = FromCompleteSwap
    BY <2>1, <2>2, SMTT(40)
  <2>5. NextInv'
    <3>1. CASE head[ReadyMain] = NULL
      BY <2>1, <2>2, <3>1, SMTT(40)
    <3>2. CASE head[ReadyMain] # NULL
      <4>1. \A t \in Tasks : next'[t] # NULL => next'[t] = t + 1 /\ t + 1 <= added'
        <5>1. \A t \in Tasks : next'[t] = IF t = added THEN added + 1 ELSE next[t]
          BY <2>2, <3>2
        <5>2. \A t \in Tasks : next[t] # NULL => next[t] = t + 1 /\ t + 1 <= added
          OBVIOUS
        <5>3. QED
          BY ONLY <1>0, <2>1, <5>1, <5>2, NAssumption DEF Tasks
      <4>2. \A c \in Chains : head'[c] # NULL => head'[c] <= added'
        BY <2>1, <2>2, <3>2, SMTT(40)
      <4>3. QED
        BY ONLY <4>1, <4>2 DEF NextInv
    <3>3. QED
      BY <3>1, <3>2
  <2>6. ReadyOrder'
    <3>1. Holds(ReadyMain, added + 1)' /\ Ends(ReadyMain)'
      BY <2>1, <2>2, <2>3
    <3>2. head[ReadyMain] # NULL => FromReadyMain <= added /\ FromReadySwap <= added
      OBVIOUS
    <3>3. /\ head[ReadyMain] = NULL => next' = next
          /\ pcMain # "readyDone" /\ head[ReadySwap] # NULL =>
               next'[tail[ReadySwap]] = NULL
          /\ head[ReadyWork] # NULL => next'[tail[ReadyWork]] = NULL
      BY <2>2, <2>3, <3>2
    <3>4. /\ pcMain # "readyDone" => Holds(ReadySwap, FromReadyMain)' /\ Ends(ReadySwap)'
          /\ Holds(ReadyWork, FromReadySwap)' /\ Ends(ReadyWork)'
      BY <2>1, <2>2, <2>3, <2>4, <3>3
    <3>5. pcMain = "readyDone" =>
            (head[ReadySwap] <= head[ReadyMain] /\ Linked(head[ReadySwap], head[ReadyMain]))'
      BY <2>1, <2>2, <2>3
    <3>6. QED
      BY <2>1, <2>4, <3>1, <3>4, <3>5
  <2>7. CompleteOrder'
    BY <2>1, <2>2, <2>3, <2>4, ZenonT(40)
  <2>8. LoopOrder' /\ BegunOrder'
    <3>1. head'[CompleteMain] = head[CompleteMain]
      BY <2>2
    <3>2. LoopOrder'
      BY <2>1, <2>4, <3>1
    <3>3. BegunOrder'
      BY <2>1, <2>4
    <3>4. QED
      BY <3>2, <3>3
  <2>9. QED
    BY <2>5, <2>6, <2>7, <2>8 DEF OrderInv
<1>2. CASE LoopBegin
  BY <1>2 DEF LoopBegin
<1>3. CASE ReadyFill
  <2>1. /\ pcMain = "readyFill" /\ pcMain' = "readyDone" /\ head[ReadyMain] # NULL
        /\ tail' = tail
        /\ UNCHANGED <<added, pcWork, base, item, freed, begun, completed>>
    BY <1>3 DEF ReadyFill, MergeFill
  <2>2. /\ head[ReadySwap] = NULL =>
             head' = [head EXCEPT ![ReadySwap] = head[ReadyMain]] /\ next' = next
        /\ head[ReadySwap] # NULL =>
             head' = head /\ next' = [next EXCEPT ![tail[ReadySwap]] = head[ReadyMain]]
    BY <1>3 DEF ReadyFill, MergeFill
  <2>3. /\ \A t \in Tasks : next[t] = t + 1 => next'[t] = t + 1
        /\ \A t \in Tasks : head[ReadySwap] = NULL \/ t # tail[ReadySwap] => next'[t] = next[t]
        /\ head[ReadySwap] # NULL =>
             tail[ReadySwap] \in Tasks /\ tail[ReadySwap] + 1 = head[ReadyMain]
    BY <2>1, <2>2
  <2>4. /\ FromReadyMain' = FromReadyMain /\ FromReadySwap' = FromReadySwap
        /\ FromReadyWork' = FromReadyWork /\ FromWorker' = FromWorker
        /\ FromCompleteWork' = FromCompleteWork /\ FromCompleteSwap' = FromCompleteSwap
    BY <2>1, <2>2
  <2>5. NextInv'
    <3>1. \A c \in Chains : head'[c] # NULL => head'[c] <= added'
      BY <2>1, <2>2, SMTT(40)
    <3>2. \A t \in Tasks : next'[t] # NULL => next'[t] = t + 1 /\ t + 1 <= added'
      BY <2>1, <2>2, <2>3
    <3>3. QED
      BY ONLY <3>1, <3>2 DEF NextInv
  <2>6. ReadyOrder'
    <3>1. Holds(ReadyMain, added + 1)' /\ Ends(ReadyMain)'
      <4>1. /\ head'[ReadyMain] = head[ReadyMain] /\ tail'[ReadyMain] = added
            /\ head[ReadyMain] <= added
        BY <2>1, <2>2
      <4>2. Linked(head[ReadyMain], added)'
        BY <2>1, <2>3, <4>1
      <4>3. next'[added] = NULL
        BY <2>1, <2>3, <4>1
      <4>4. QED
        BY <2>1, <4>1, <4>2, <4>3
    <3>2. (head[ReadySwap] <= head[ReadyMain] /\ Linked(head[ReadySwap], head[ReadyMain]))'
      <4>1. CASE head[ReadySwap] = NULL
        BY <2>1, <2>2, <4>1
      <4>2. CASE head[ReadySwap] # NULL
        <5>1. /\ Linked(head[ReadySwap], tail[ReadySwap])
              /\ head[ReadySwap] <= tail[ReadySwap]
              /\ tail[ReadySwap] + 1 = head[ReadyMain]
          BY <2>1, <2>3, <4>2
        <5>2. next'[tail[ReadySwap]] = tail[ReadySwap] + 1
          BY <2>2, <2>3, <4>2
        <5>3. QED
          BY <2>1, <2>2, <2>3, <4>2, <5>1, <5>2, SMTT(40)
      <4>3. QED
        BY <4>1, <4>2
    <3>3. Holds(ReadyWork, FromReadySwap)' /\ Ends(ReadyWork)'
      BY <2>1, <2>2, <2>3, <2>4
    <3>4. QED
      BY <2>1, <2>4, <3>1, <3>2, <3>3
  <2>7. CompleteOrder'
    BY <2>1, <2>2, <2>3, <2>4, SMTT(40)
  <2>8. LoopOrder' /\ BegunOrder'
    <3>1. head'[CompleteMain] = head[CompleteMain]
      BY <2>2
    <3>2. LoopOrder'
      BY <2>1, <2>4, <3>1
    <3>3. BegunOrder'
      BY <2>1, <2>4
    <3>4. QED
      BY <3>2, <3>3
  <2>9. QED
    BY <2>5, <2>6, <2>7, <2>8 DEF OrderInv
<1>4. CASE ReadyDone
  <2>1. /\ pcMain = "readyDone" /\ pcMain' = "swapHead" /\ head[ReadyMain] # NULL
        /\ head[ReadySwap] # NULL
        /\ UNCHANGED <<next, added, pcWork, base, item, freed, begun, completed>>
        /\ head' = [head EXCEPT ![ReadyMain] = NULL]
        /\ tail' = [tail EXCEPT ![ReadySwap] = tail[ReadyMain], ![ReadyMain] = NULL]
    BY <1>4 DEF ReadyDone, MergeDone
  <2>2. /\ FromReadySwap' = FromReadySwap
        /\ FromReadyWork' = FromReadyWork /\ FromWorker' = FromWorker
        /\ FromCompleteWork' = FromCompleteWork /\ FromCompleteSwap' = FromCompleteSwap
    BY <2>1
  <2>5. NextInv'
    BY <2>1
  <2>6. ReadyOrder'
    <3>1. Holds(ReadySwap, FromReadyMain)' /\ Ends(ReadySwap)'
      <4>1. /\ tail[ReadyMain] = added /\ FromReadyMain' = added + 1
            /\ head'[ReadySwap] = head[ReadySwap] /\ tail'[ReadySwap] = added
            /\ head[ReadySwap] <= added
        BY <2>1
      <4>2. Linked(head[ReadySwap], added)
        BY <2>1, <4>1
      <4>3. QED
        BY <2>1, <4>1, <4>2
    <3>2. Holds(ReadyWork, FromReadySwap)' /\ Ends(ReadyWork)'
      BY <2>1, <2>2
    <3>3. QED
      BY <2>1, <2>2, <3>1, <3>2
  <2>7. CompleteOrder'
    BY <2>1, <2>2
  <2>8. LoopOrder' /\ BegunOrder'
    BY <2>1, <2>2
  <2>9. QED
    BY <2>5, <2>6, <2>7, <2>8 DEF OrderInv
<1>5. CASE MainSwapHead
  BY <1>5 DEF MainSwapHead
<1>6. CASE MainSwapTail
  BY <1>6 DEF MainSwapTail
<1>7. CASE MainSwapLock
  <2>1. /\ pcMain = "swapLock" /\ pcMain' = "pop" /\ head[CompleteSwap] # NULL
        /\ pcWork # "done"
        /\ UNCHANGED <<added, pcWork, base, item, freed, begun, completed>>
        /\ tail' = [tail EXCEPT ![CompleteMain] = tail[CompleteSwap], ![CompleteSwap] = NULL]
    BY <1>7 DEF MainSwapLock, Merge
  <2>2. /\ head[CompleteMain] = NULL =>
             /\ head' = [head EXCEPT ![CompleteMain] = head[CompleteSwap],
                                     ![CompleteSwap] = NULL]
             /\ next' = next
        /\ head[CompleteMain] # NULL =>
             /\ head' = [head EXCEPT ![CompleteSwap] = NULL]
             /\ next' = [next EXCEPT ![tail[CompleteMain]] = head[CompleteSwap]]
    <3>1. CASE head[CompleteMain] = NULL
      BY <1>7, <3>1 DEF MainSwapLock, Merge
    <3>2. CASE head[CompleteMain] # NULL
      BY <1>7, <3>2 DEF MainSwapLock, Merge
    <3>3. QED
      BY <3>1, <3>2
  <2>3. /\ \A t \in Tasks : next[t] = t + 1 => next'[t] = t + 1
        /\ \A t \in Tasks : head[CompleteMain] = NULL \/ t # tail[CompleteMain]
                              => next'[t] = next[t]
        /\ head[CompleteMain] # NULL =>
             tail[CompleteMain] \in Tasks /\ tail[CompleteMain] + 1 = head[CompleteSwap]
    <3>1. head[CompleteMain] # NULL =>
            tail[CompleteMain] \in Tasks /\ tail[CompleteMain] + 1 = head[CompleteSwap]
      BY <2>1
    <3>2. QED
      BY <2>1, <2>2, <3>1
  <2>4. /\ FromReadyMain' = FromReadyMain /\ FromReadySwap' = FromReadySwap
        /\ FromReadyWork' = FromReadyWork /\ FromWorker' = FromWorker
        /\ FromCompleteWork' = FromCompleteWork /\ FromCompleteSwap' = FromCompleteWork
    BY <2>1, <2>2, SMTT(40)
  <2>5. NextInv'
    <3>1. \A c \in Chains : head'[c] # NULL => head'[c] <= added'
      <4>1. CASE head[CompleteMain] = NULL
        BY <2>1, <2>2, <4>1
      <4>2. CASE head[CompleteMain] # NULL
        <5>1. \A c \in Chains : head'[c] \in {head[c], NULL}
          BY <2>2, <4>2
        <5>2. QED
          BY <2>1, <5>1
      <4>3. QED
        BY <4>1, <4>2
    <3>2. \A t \in Tasks : next'[t] # NULL => next'[t] = t + 1 /\ t + 1 <= added'
      BY <2>1, <2>2, <2>3, SMTT(40)
    <3>3. QED
      BY ONLY <3>1, <3>2 DEF NextInv
  <2>6. ReadyOrder'
    <3>1. head[CompleteSwap] < FromReadyWork
      <4>1. head[CompleteSwap] \in Tasks /\ head[CompleteSwap] <= FromCompleteWork - 1
        BY <2>1
      <4>2. QED
        BY ONLY <4>1, <1>0, NAssumption DEF Tasks
    <3>2. \A c \in {ReadyMain, ReadySwap, ReadyWork} :
            head'[c] = head[c] /\ tail'[c] = tail[c]
      BY <2>1, <2>2
    <3>3. \A t \in Tasks : t >= FromReadyWork => next'[t] = next[t]
      BY <2>3, <3>1
    <3>4. /\ Holds(ReadyMain, added + 1)' /\ Ends(ReadyMain)'
      <4>1. /\ head[ReadyMain] # NULL => head[ReadyMain] >= FromReadyWork
            /\ Holds(ReadyMain, added + 1) /\ Ends(ReadyMain)
        BY <1>0, <2>1
      <4>2. /\ head'[ReadyMain] = head[ReadyMain] /\ tail'[ReadyMain] = tail[ReadyMain]
            /\ head[ReadyMain] \in Pointer /\ tail[ReadyMain] \in Pointer
            /\ head[ReadyMain] # NULL => head[ReadyMain] \in Tasks /\ tail[ReadyMain] \in Tasks
        BY <2>1, <3>2
      <4>3. added' = added
        BY <2>1
      <4>4. QED
        BY ONLY <1>0, <2>3, <2>4, <3>3, <4>1, <4>2, <4>3, NAssumption
        DEF Holds, Ends, Linked, Tasks
    <3>5. /\ Holds(ReadySwap, FromReadyMain)' /\ Ends(ReadySwap)'
      <4>1. /\ head[ReadySwap] # NULL => head[ReadySwap] >= FromReadyWork
            /\ Holds(ReadySwap, FromReadyMain) /\ Ends(ReadySwap)
        BY <1>0, <2>1
      <4>2. /\ head'[ReadySwap] = head[ReadySwap] /\ tail'[ReadySwap] = tail[ReadySwap]
            /\ head[ReadySwap] \in Pointer /\ tail[ReadySwap] \in Pointer
            /\ head[ReadySwap] # NULL => head[ReadySwap] \in Tasks /\ tail[ReadySwap] \in Tasks
        BY <2>1, <3>2
      <4>3. added' = added
        BY <2>1
      <4>4. QED
        BY ONLY <1>0, <2>3, <2>4, <3>3, <4>1, <4>2, <4>3, NAssumption
        DEF Holds, Ends, Linked, Tasks
    <3>6. /\ Holds(ReadyWork, FromReadySwap)' /\ Ends(ReadyWork)'
      BY <2>1, <2>3, <2>4, <3>2, <3>3
    <3>7. QED
      BY <2>1, <2>4, <3>4, <3>5, <3>6
  <2>7. CompleteOrder'
    <3>1. Holds(CompleteWork, FromWorker)'
      BY <2>1, <2>2, <2>3, <2>4
    <3>2. Linked(head[CompleteMain], tail[CompleteMain])'
      <4>1. Linked(head[CompleteSwap], tail[CompleteSwap])'
        BY <2>1, <2>2, <2>3
      <4>2. CASE head[CompleteMain] = NULL
        BY <2>1, <2>2, <4>2
      <4>3. CASE head[CompleteMain] # NULL
        <5>1. /\ head'[CompleteMain] = head[CompleteMain]
              /\ tail'[CompleteMain] = tail[CompleteSwap]
          BY <2>1, <2>2, <4>3
        <5>2. next'[tail[CompleteMain]] = tail[CompleteMain] + 1
          BY <2>2, <2>3, <4>3
        <5>3. ASSUME NEW t \in Tasks, head[CompleteMain] <= t, t < tail[CompleteSwap]
              PROVE  next'[t] = t + 1
          <6>1. CASE t < tail[CompleteMain]
            BY <2>3, <4>3, <5>3, <6>1
          <6>2. CASE t = tail[CompleteMain]
            BY <5>2, <6>2
          <6>3. CASE t > tail[CompleteMain]
            BY <2>1, <2>3, <4>3, <5>3, <6>3
          <6>4. QED
            BY <2>3, <4>3, <6>1, <6>2, <6>3
        <5>4. QED
          BY ONLY <5>1, <5>3 DEF Linked
      <4>4. QED
        BY <4>2, <4>3
    <3>3. tail'[CompleteMain] = FromCompleteSwap' - 1
      BY <2>1, <2>4
    <3>4. QED
      BY <2>1, <2>2, <3>1, <3>2, <3>3
  <2>8. LoopOrder' /\ BegunOrder'
    <3>1. LoopOrder'
      BY <2>1, <2>2, <2>4
    <3>2. BegunOrder'
      BY <2>1, <2>4
    <3>3. QED
      BY <3>1, <3>2
  <2>9. QED
    BY <2>5, <2>6, <2>7, <2>8 DEF OrderInv
<1>8. CASE MainPop
  <2>1. CASE head[CompleteMain] = NULL
    BY <1>8, <2>1 DEF MainPop
  <2>2. CASE head[CompleteMain] # NULL
    <3>1. /\ pcMain = "pop" /\ pcMain' = "complete" /\ item' = head[CompleteMain] /\ ~ub
          /\ UNCHANGED <<next, added, pcWork, base, freed, begun, completed>>
          /\ head' = [head EXCEPT ![CompleteMain] = next[head[CompleteMain]]]
          /\ \A c \in Chains : c # CompleteMain => tail'[c] = tail[c]
          /\ next[head[CompleteMain]] # NULL => tail' = tail
          /\ ~ub' => head[CompleteMain] \notin freed
      BY <1>8, <2>2 DEF MainPop, PopHead, Touch
    <3>2. /\ \A c \in Chains : c # CompleteMain => head'[c] = head[c]
          /\ head'[CompleteMain] = next[head[CompleteMain]]
      BY <3>1
    <3>3. /\ FromReadyMain' = FromReadyMain /\ FromReadySwap' = FromReadySwap
          /\ FromReadyWork' = FromReadyWork /\ FromWorker' = FromWorker
          /\ FromCompleteWork' = FromCompleteWork /\ FromCompleteSwap' = FromCompleteSwap
      BY <3>1, <3>2
    <3>4. head[CompleteMain] \in Tasks /\ head[CompleteMain] <= Len(completed) + 1
      BY <2>2, <3>1
    <3>5. NextInv'
      BY <3>1, <3>2, <3>4
    <3>6. ReadyOrder'
      BY <3>1, <3>2, <3>3
    <3>7. CompleteOrder'
      <4>1. /\ Holds(CompleteWork, FromWorker)'
            /\ pcWork' # "done" => Holds(CompleteSwap, FromCompleteWork)'
        BY <3>1, <3>2, <3>3
      <4>2. head'[CompleteMain] # NULL =>
              /\ tail'[CompleteMain] = FromCompleteSwap' - 1
              /\ Linked(head[CompleteMain], tail[CompleteMain])'
        BY <2>2, <3>1, <3>2, <3>3, <3>4
      <4>3. QED
        BY <3>1, <3>2, <4>1, <4>2
    <3>8. LoopOrder'
      <4>1. head[CompleteMain] \notin freed => head[CompleteMain] = Len(completed) + 1
        BY <3>1, <3>4
      <4>2. Taken' \in {Len(completed), Len(completed) + 1} /\ head[CompleteMain] <= Taken'
        BY <3>1, <3>4
      <4>3. Taken' <= added /\ Taken' \in Nat
        BY <2>2, <3>1, <3>4, <4>2
      <4>4. head'[CompleteMain] # NULL => head'[CompleteMain] <= Taken' + 1
        BY <3>2, <3>4, <4>2
      <4>5. head'[CompleteMain] = NULL => FromCompleteSwap' <= Taken' + 1
        <5>1. /\ tail[CompleteMain] = FromCompleteSwap - 1
              /\ Linked(head[CompleteMain], tail[CompleteMain])
          BY <2>2
        <5>2. head'[CompleteMain] = NULL => ~(head[CompleteMain] < tail[CompleteMain])
          <6>1. CASE head[CompleteMain] < tail[CompleteMain]
            <7>1. head[CompleteMain] + 1 \in Tasks
              BY ONLY <1>0, <3>4, <5>1, <6>1, NAssumption, SMTT(40) DEF Tasks
            <7>2. next[head[CompleteMain]] = head[CompleteMain] + 1
              BY ONLY <3>4, <5>1, <6>1 DEF Linked
            <7>3. QED
              BY ONLY <3>2, <7>1, <7>2, NullAssumption
          <6>2. QED
            BY <6>1
        <5>3. QED
          BY ONLY <1>0, <3>3, <3>4, <4>2, <4>3, <5>1, <5>2, NAssumption, SMTT(40)
          DEF Tasks
      <4>6. QED
        BY <3>1, <3>4, <4>1, <4>2, <4>3, <4>4, <4>5
    <3>9. QED
      BY <3>1, <3>3, <3>5, <3>6, <3>7, <3>8
  <2>3. QED
    BY <2>1, <2>2
<1>9. CASE OnComplete
  <2>1. NextInv'
    BY <1>9 DEF OnComplete, Touch
  <2>2. ReadyOrder'
    BY <1>9 DEF OnComplete, Touch
  <2>3. CompleteOrder'
    BY <1>9 DEF OnComplete, Touch
  <2>4. LoopOrder'
    BY <1>9 DEF OnComplete, Touch
  <2>5. BegunOrder'
    BY <1>9 DEF OnComplete, Touch
  <2>6. QED
    BY <2>1, <2>2, <2>3, <2>4, <2>5
<1>10. CASE Release
  BY <1>10, SMTT(40) DEF Release
<1>11. CASE WorkPop
  <2>1. CASE head[ReadyWork] = NULL
    BY <1>11, <2>1 DEF WorkPop
  <2>2. CASE head[ReadyWork] # NULL
    <3>1. /\ pcWork = "pop" /\ pcWork' = "execute" /\ base = NULL /\ base' = head[ReadyWork]
          /\ ~ub
          /\ UNCHANGED <<next, added, pcMain, item, freed, begun, completed>>
          /\ head' = [head EXCEPT ![ReadyWork] = next[head[ReadyWork]]]
          /\ \A c \in Chains : c # ReadyWork => tail'[c] = tail[c]
          /\ next[head[ReadyWork]] # NULL => tail' = tail
      BY <1>11, <2>2 DEF WorkPop, PopHead
    <3>2. /\ \A c \in Chains : c # ReadyWork => head'[c] = head[c]
          /\ head'[ReadyWork] = next[head[ReadyWork]]
      BY <3>1
    <3>3. /\ head[ReadyWork] \in Tasks /\ tail[ReadyWork] \in Tasks
          /\ head[ReadyWork] <= tail[ReadyWork] /\ Linked(head[ReadyWork], tail[ReadyWork])
          /\ tail[ReadyWork] = FromReadySwap - 1 /\ next[tail[ReadyWork]] = NULL
          /\ FromReadyWork = head[ReadyWork]
      BY <2>2
    <3>4. /\ head[ReadyWork] < tail[ReadyWork] => next[head[ReadyWork]] = head[ReadyWork] + 1
          /\ head[ReadyWork] = tail[ReadyWork] => next[head[ReadyWork]] = NULL
      BY <3>3
    <3>5. FromReadyMain' = FromReadyMain /\ FromReadySwap' = FromReadySwap
      BY <3>1, <3>2
    <3>6. FromReadyWork' = head[ReadyWork] + 1
      <4>1. CASE head[ReadyWork] < tail[ReadyWork]
        <5>1. head[ReadyWork] + 1 \in Tasks
          BY ONLY <3>3, <4>1, NAssumption DEF Tasks
        <5>2. QED
          BY ONLY <3>2, <3>4, <4>1, <5>1, NullAssumption DEF FromReadyWork
      <4>2. CASE head[ReadyWork] = tail[ReadyWork]
        BY ONLY <1>0, <3>2, <3>3, <3>4, <3>5, <4>2 DEF FromReadyWork, Tasks
      <4>3. QED
        BY <3>3, <4>1, <4>2
    <3>7. /\ FromWorker' = FromWorker
          /\ FromCompleteWork' = FromCompleteWork /\ FromCompleteSwap' = FromCompleteSwap
      BY <2>2, <3>1, <3>2, <3>3
    <3>8. NextInv'
      BY <3>1, <3>2, <3>3
    <3>9. ReadyOrder'
      <4>1. head'[ReadyWork] # NULL =>
              head'[ReadyWork] = head[ReadyWork] + 1 /\ head[ReadyWork] < tail[ReadyWork]
        BY <3>2, <3>3, <3>4
      <4>2. Holds(ReadyWork, FromReadySwap)' /\ Ends(ReadyWork)'
        BY <3>1, <3>3, <3>5, <4>1, SMTT(40)
      <4>3. QED
        BY <3>1, <3>2, <3>5, <3>6, <4>2, SMTT(40)
    <3>10. CompleteOrder'
      BY <3>1, <3>2, <3>7, SMTT(40)
    <3>11. LoopOrder'
      BY <3>1, <3>2, <3>7
    <3>12. BegunOrder'
      <4>1. \A i \in 1 .. Len(begun) : begun[i] \in Tasks /\ begun[i] < head[ReadyWork]
        <5>1. begun \in Seq(Tasks) /\ \A i \in 1 .. Len(begun) : begun[i] < FromReadyWork
          OBVIOUS
        <5>2. \A i \in 1 .. Len(begun) : begun[i] \in Tasks
          BY ONLY <5>1, SeqElement
        <5>3. QED
          BY ONLY <3>3, <5>1, <5>2
      <4>2. \A i, j \in 1 .. Len(begun) : i < j => begun[i] < begun[j]
        OBVIOUS
      <4>3. QED
        BY ONLY <3>1, <3>3, <3>6, <4>1, <4>2 DEF BegunOrder, Tasks
    <3>13. QED
      BY <3>8, <3>9, <3>10, <3>11, <3>12
  <2>3. QED
    BY <2>1, <2>2
<1>12. CASE WorkSwapHead
  BY <1>12 DEF WorkSwapHead
<1>13. CASE WorkSwapTail
  BY <1>13 DEF WorkSwapTail
<1>14. CASE WorkSwapLock
  <2>1. /\ pcWork = "swapLock" /\ pcWork' = "pop" /\ head[ReadySwap] # NULL
        /\ pcMain # "readyDone"
        /\ UNCHANGED <<added, pcMain, base, item, freed, begun, completed>> /\ ~ub
        /\ tail' = [tail EXCEPT ![ReadyWork] = tail[ReadySwap], ![ReadySwap] = NULL]
    BY <1>14 DEF WorkSwapLock, Merge
  <2>2. /\ head[ReadyWork] = NULL =>
             /\ head' = [head EXCEPT ![ReadyWork] = head[ReadySwap], ![ReadySwap] = NULL]
             /\ next' = next
        /\ head[ReadyWork] # NULL =>
             /\ head' = [head EXCEPT ![ReadySwap] = NULL]
             /\ next' = [next EXCEPT ![tail[ReadyWork]] = head[ReadySwap]]
    <3>1. CASE head[ReadyWork] = NULL
      BY <1>14, <3>1 DEF WorkSwapLock, Merge
    <3>2. CASE head[ReadyWork] # NULL
      BY <1>14, <3>2 DEF WorkSwapLock, Merge
    <3>3. QED
      BY <3>1, <3>2
  <2>3. /\ \A t \in Tasks : next[t] = t + 1 => next'[t] = t + 1
        /\ \A t \in Tasks : head[ReadyWork] = NULL \/ t # tail[ReadyWork]
                              => next'[t] = next[t]
        /\ head[ReadyWork] # NULL =>
             tail[ReadyWork] \in Tasks /\ tail[ReadyWork] + 1 = head[ReadySwap]
    <3>1. head[ReadyWork] # NULL =>
            tail[ReadyWork] \in Tasks /\ tail[ReadyWork] + 1 = head[ReadySwap]
      BY <2>1
    <3>2. QED
      BY <2>1, <2>2, <3>1
  <2>4. /\ FromReadyMain' = FromReadyMain /\ FromReadySwap' = FromReadyMain
        /\ FromReadyWork' = FromReadyWork /\ FromWorker' = FromWorker
        /\ FromCompleteWork' = FromCompleteWork /\ FromCompleteSwap' = FromCompleteSwap
    BY <2>1, <2>2, ZenonT(40)
  <2>5. NextInv'
    <3>1. \A c \in Chains : head'[c] # NULL => head'[c] <= added'
      <4>1. CASE head[ReadyWork] = NULL
        BY <2>1, <2>2, <4>1, SMTT(40)
      <4>2. CASE head[ReadyWork] # NULL
        <5>1. \A c \in Chains : head'[c] \in {head[c], NULL}
          BY <2>2, <4>2
        <5>2. QED
          BY <2>1, <5>1
      <4>3. QED
        BY <4>1, <4>2
    <3>2. \A t \in Tasks : next'[t] # NULL => next'[t] = t + 1 /\ t + 1 <= added'
      BY <2>1, <2>2, <2>3
    <3>3. QED
      BY ONLY <3>1, <3>2 DEF NextInv
  <2>6. ReadyOrder'
    <3>1. /\ tail[ReadySwap] \in Tasks /\ head[ReadySwap] \in Tasks
          /\ tail[ReadySwap] = FromReadyMain - 1
          /\ head[ReadySwap] <= tail[ReadySwap] /\ Linked(head[ReadySwap], tail[ReadySwap])
          /\ next[tail[ReadySwap]] = NULL
      BY <2>1
    <3>2. Holds(ReadyMain, added + 1)' /\ Ends(ReadyMain)'
      <4>1. head[ReadyMain] # NULL => head[ReadyMain] > head[ReadySwap]
        BY <1>0, <3>1
      <4>2. /\ head'[ReadyMain] = head[ReadyMain] /\ tail'[ReadyMain] = tail[ReadyMain]
            /\ head[ReadyMain] # NULL => head[ReadyMain] \in Tasks /\ tail[ReadyMain] \in Tasks
            /\ Holds(ReadyMain, added + 1) /\ Ends(ReadyMain) /\ added' = added
        BY <2>1, <2>2
      <4>3. QED
        BY ONLY <1>0, <2>3, <3>1, <4>1, <4>2, NAssumption
        DEF Holds, Ends, Linked, Tasks
    <3>3. Linked(head[ReadyWork], tail[ReadyWork])' /\ head'[ReadyWork] <= tail'[ReadyWork]
      <4>1. CASE head[ReadyWork] = NULL
        BY <2>1, <2>2, <3>1, <4>1
      <4>2. CASE head[ReadyWork] # NULL
        <5>1. /\ head'[ReadyWork] = head[ReadyWork] /\ tail'[ReadyWork] = tail[ReadySwap]
              /\ head[ReadyWork] \in Tasks /\ head[ReadyWork] <= tail[ReadyWork]
          BY <2>1, <2>2, <4>2
        <5>2. next'[tail[ReadyWork]] = tail[ReadyWork] + 1
          BY <2>2, <2>3, <4>2
        <5>3. ASSUME NEW t \in Tasks, head[ReadyWork] <= t, t < tail[ReadySwap]
              PROVE  next'[t] = t + 1
          <6>1. CASE t < tail[ReadyWork]
            BY <2>3, <4>2, <5>3, <6>1
          <6>2. CASE t = tail[ReadyWork]
            BY <5>2, <6>2
          <6>3. CASE t > tail[ReadyWork]
            BY <2>3, <3>1, <4>2, <5>3, <6>3
          <6>4. QED
            BY <2>3, <4>2, <6>1, <6>2, <6>3
        <5>4. QED
          BY ONLY <2>3, <3>1, <4>2, <5>1, <5>3, NAssumption DEF Linked, Tasks
      <4>3. QED
        BY <4>1, <4>2
    <3>4. tail'[ReadyWork] = FromReadySwap' - 1 /\ next'[tail'[ReadyWork]] = NULL
      <4>1. head[ReadyWork] = NULL \/ tail[ReadySwap] # tail[ReadyWork]
        BY ONLY <2>3, <3>1 DEF Tasks
      <4>2. next'[tail[ReadySwap]] = NULL
        BY ONLY <2>3, <3>1, <4>1
      <4>3. tail'[ReadyWork] = tail[ReadySwap]
        BY <2>1
      <4>4. QED
        BY ONLY <2>4, <3>1, <4>2, <4>3
    <3>5. head'[ReadySwap] = NULL
      BY <2>1, <2>2
    <3>6. QED
      BY <2>1, <2>4, <3>2, <3>3, <3>4, <3>5
  <2>7. CompleteOrder'
    BY <2>1, <2>2, <2>3, <2>4, SMTT(40)
  <2>8. LoopOrder' /\ BegunOrder'
    <3>1. head'[CompleteMain] = head[CompleteMain]
      BY <2>2
    <3>2. QED
      BY <2>1, <2>4, <3>1
  <2>9. QED
    BY <2>5, <2>6, <2>7, <2>8 DEF OrderInv
<1>15. CASE OnExecute
  <2>1. /\ pcWork = "execute" /\ pcWork' # "execute" /\ base \in Tasks /\ ~ub
        /\ pcWork' # "done" /\ pcWork' # "fill"
        /\ UNCHANGED <<head, tail, next, added, pcMain, item, base, freed, completed>>
        /\ begun' \in {begun, Append(begun, base)}
    BY <1>15 DEF OnExecute
  <2>2. /\ FromReadyMain' = FromReadyMain /\ FromReadySwap' = FromReadySwap
        /\ FromReadyWork' = FromReadyWork /\ FromWorker' = FromWorker
        /\ FromCompleteWork' = FromCompleteWork /\ FromCompleteSwap' = FromCompleteSwap
    BY <2>1
  <2>5. NextInv' /\ ReadyOrder'
    BY <2>1, <2>2
  <2>6. CompleteOrder'
    BY <2>1, <2>2
  <2>7. LoopOrder'
    BY <2>1, <2>2
  <2>8. BegunOrder'
    <3>1. /\ \A i, j \in 1 .. Len(begun) : i < j => begun[i] < begun[j]
          /\ \A i \in 1 .. Len(begun) : begun[i] < base
          /\ \A i \in 1 .. Len(begun) : begun[i] < FromReadyWork
          /\ base < FromReadyWork /\ begun \in Seq(Tasks)
      BY <2>1
    <3>2. CASE begun' = begun
      BY ONLY <2>1, <2>2, <3>1, <3>2 DEF BegunOrder
    <3>3. CASE begun' = Append(begun, base)
      <4>1. /\ Len(begun') = Len(begun) + 1 /\ begun'[Len(begun) + 1] = base
            /\ \A i \in 1 .. Len(begun) : begun'[i] = begun[i]
            /\ Len(begun) \in Nat
        BY ONLY <2>1, <3>1, <3>3, AppendElements
      <4>2. QED
        BY ONLY <2>1, <2>2, <3>1, <4>1 DEF BegunOrder
    <3>4. QED
      BY <2>1, <3>2, <3>3
  <2>9. QED
    BY <2>5, <2>6, <2>7, <2>8 DEF OrderInv
<1>16. CASE ExecuteEnd
  BY <1>16 DEF ExecuteEnd, Touch
<1>17. CASE WorkPush
  <2>1. /\ pcWork = "push" /\ pcWork' = "check" /\ base \in Tasks /\ base' = NULL
        /\ UNCHANGED <<added, pcMain, item, freed, begun, completed>> /\ ~ub
        /\ tail' = [tail EXCEPT ![CompleteWork] = base]
        /\ base = FromReadyWork - 1 /\ FromWorker = base
    BY <1>17 DEF WorkPush, PushTail
  <2>2. /\ head[CompleteWork] = NULL =>
             head' = [head EXCEPT ![CompleteWork] = base] /\ next' = next
        /\ head[CompleteWork] # NULL =>
             head' = head /\ next' = [next EXCEPT ![tail[CompleteWork]] = base]
    BY <1>17 DEF WorkPush, PushTail
  <2>3. /\ \A t \in Tasks : next[t] = t + 1 => next'[t] = t + 1
        /\ \A t \in Tasks : head[CompleteWork] = NULL \/ t # tail[CompleteWork]
                              => next'[t] = next[t]
        /\ head[CompleteWork] # NULL =>
             tail[CompleteWork] \in Tasks /\ tail[CompleteWork] + 1 = base
    <3>1. head[CompleteWork] # NULL =>
            tail[CompleteWork] \in Tasks /\ tail[CompleteWork] + 1 = base
      BY <2>1
    <3>2. QED
      BY <2>1, <2>2, <3>1
  <2>4. /\ FromReadyMain' = FromReadyMain /\ FromReadySwap' = FromReadySwap
        /\ FromReadyWork' = FromReadyWork /\ FromWorker' = FromReadyWork
        /\ FromCompleteWork' = FromCompleteWork /\ FromCompleteSwap' = FromCompleteSwap
    BY <2>1, <2>2, SMTT(40)
  <2>5. NextInv'
    <3>1. base <= added
      BY <1>0, <2>1
    <3>2. \A c \in Chains : head'[c] # NULL => head'[c] <= added'
      <4>1. \A c \in Chains : head'[c] \in {head[c], base}
        BY <2>2
      <4>2. \A c \in Chains : head[c] # NULL => head[c] <= added
        OBVIOUS
      <4>3. QED
        BY ONLY <2>1, <3>1, <4>1, <4>2
    <3>3. \A t \in Tasks : next'[t] # NULL => next'[t] = t + 1 /\ t + 1 <= added'
      BY <2>1, <2>2, <2>3, <3>1
    <3>4. QED
      BY ONLY <3>2, <3>3 DEF NextInv
  <2>6. ReadyOrder'
    <3>1. \A c \in {ReadyMain, ReadySwap, ReadyWork} :
            head'[c] = head[c] /\ tail'[c] = tail[c]
      BY <2>1, <2>2
    <3>2. \A t \in Tasks : t >= FromReadyWork => next'[t] = next[t]
      BY <1>0, <2>1, <2>3, SMTT(40)
    <3>3. Holds(ReadyMain, added + 1)' /\ Ends(ReadyMain)'
      <4>1. /\ head[ReadyMain] # NULL => head[ReadyMain] >= FromReadyWork
            /\ Holds(ReadyMain, added + 1) /\ Ends(ReadyMain)
            /\ head[ReadyMain] # NULL => head[ReadyMain] \in Tasks /\ tail[ReadyMain] \in Tasks
            /\ added' = added
        BY <1>0, <2>1
      <4>2. QED
        BY ONLY <1>0, <2>3, <3>1, <3>2, <4>1, NAssumption
        DEF Holds, Ends, Linked, Tasks
    <3>4. pcMain # "readyDone" => Holds(ReadySwap, FromReadyMain)' /\ Ends(ReadySwap)'
      <4>1. /\ head[ReadySwap] # NULL => head[ReadySwap] >= FromReadyWork
            /\ pcMain # "readyDone" => Holds(ReadySwap, FromReadyMain) /\ Ends(ReadySwap)
            /\ head[ReadySwap] # NULL /\ pcMain # "readyDone" =>
                 head[ReadySwap] \in Tasks /\ tail[ReadySwap] \in Tasks
        BY <1>0
      <4>2. QED
        BY ONLY <1>0, <2>3, <2>4, <3>1, <3>2, <4>1, NAssumption
        DEF Holds, Ends, Linked, Tasks
    <3>5. Holds(ReadyWork, FromReadySwap)' /\ Ends(ReadyWork)'
      <4>1. /\ head[ReadyWork] # NULL => head[ReadyWork] = FromReadyWork
            /\ Holds(ReadyWork, FromReadySwap) /\ Ends(ReadyWork)
            /\ head[ReadyWork] # NULL => head[ReadyWork] \in Tasks /\ tail[ReadyWork] \in Tasks
        OBVIOUS
      <4>2. QED
        BY ONLY <1>0, <2>3, <2>4, <3>1, <3>2, <4>1, NAssumption
        DEF Holds, Ends, Linked, Tasks
    <3>6. pcMain = "readyDone" =>
            (head[ReadySwap] <= head[ReadyMain] /\ Linked(head[ReadySwap], head[ReadyMain]))'
      BY <2>3, <3>1
    <3>7. QED
      BY <2>1, <2>4, <3>3, <3>4, <3>5, <3>6
  <2>7. CompleteOrder'
    <3>1. /\ Holds(CompleteWork, FromWorker)'
      <4>1. tail'[CompleteWork] = base /\ FromWorker' = base + 1
        BY <1>0, <2>1, <2>4, SMTT(40)
      <4>2. CASE head[CompleteWork] = NULL
        BY <2>1, <2>2, <4>1, <4>2, SMTT(40)
      <4>3. CASE head[CompleteWork] # NULL
        <5>1. /\ head'[CompleteWork] = head[CompleteWork] /\ head[CompleteWork] \in Tasks
              /\ head[CompleteWork] <= tail[CompleteWork]
              /\ Linked(head[CompleteWork], tail[CompleteWork])
          BY <2>2, <4>3
        <5>2. next'[tail[CompleteWork]] = tail[CompleteWork] + 1
          BY <2>2, <2>3, <4>3
        <5>3. QED
          BY ONLY <2>1, <2>3, <4>1, <4>3, <5>1, <5>2, NAssumption DEF Holds, Linked, Tasks
      <4>4. QED
        BY <4>2, <4>3
    <3>2. /\ head'[CompleteSwap] = head[CompleteSwap] /\ tail'[CompleteSwap] = tail[CompleteSwap]
          /\ head'[CompleteMain] = head[CompleteMain] /\ tail'[CompleteMain] = tail[CompleteMain]
      BY <2>1, <2>2
    <3>3. /\ Holds(CompleteSwap, FromCompleteWork)'
          /\ head'[CompleteMain] # NULL =>
               /\ tail'[CompleteMain] = FromCompleteSwap' - 1
               /\ Linked(head[CompleteMain], tail[CompleteMain])'
      BY <2>1, <2>3, <2>4, <3>2, SMTT(40)
    <3>4. QED
      BY <2>1, <3>1, <3>3
  <2>8. LoopOrder' /\ BegunOrder'
    <3>1. head'[CompleteMain] = head[CompleteMain]
      BY <2>2
    <3>2. QED
      BY <2>1, <2>4, <3>1
  <2>9. QED
    BY <2>5, <2>6, <2>7, <2>8 DEF OrderInv
<1>18. CASE WorkCheck
  BY <1>18 DEF WorkCheck
<1>19. CASE WorkFill
  <2>1. NextInv'
    BY <1>19 DEF WorkFill, MergeFill, Touch, LastOf
  <2>2. ReadyOrder'
    BY <1>19 DEF WorkFill, MergeFill, Touch, LastOf
  <2>3. CompleteOrder'
    BY <1>19 DEF WorkFill, MergeFill, Touch, LastOf
  <2>4. LoopOrder'
    BY <1>19 DEF WorkFill, MergeFill, Touch, LastOf
  <2>5. BegunOrder'
    BY <1>19 DEF WorkFill, MergeFill, Touch, LastOf
  <2>6. QED
    BY <2>1, <2>2, <2>3, <2>4, <2>5
<1>20. CASE WorkDone
  <2>1. NextInv'
    BY <1>20 DEF WorkDone, MergeDone
  <2>2. ReadyOrder'
    BY <1>20 DEF WorkDone, MergeDone
  <2>3. CompleteOrder'
    BY <1>20 DEF WorkDone, MergeDone
  <2>4. LoopOrder'
    BY <1>20 DEF WorkDone, MergeDone
  <2>5. BegunOrder'
    BY <1>20 DEF WorkDone, MergeDone
  <2>6. QED
    BY <2>1, <2>2, <2>3, <2>4, <2>5
<1>21. CASE \E t \in Tasks : StopAsync(t)
  BY <1>21 DEF StopAsync, Touch
<1>22. CASE UNCHANGED vars
  BY <1>22 DEF vars
<1>23. QED
  BY <1>1, <1>2, <1>3, <1>4, <1>5, <1>6, <1>7, <1>8, <1>9, <1>10, <1>11, <1>12, <1>13, <1>14, <1>15, <1>16, <1>17, <1>18, <1>19, <1>20, <1>21, <1>22
  DEF Next, Main, Worker, Client, Halted

\* The order holds in every reachable state.
LEMMA OrderInvariant == Spec => []OrderInv
  BY AsyncInvariant, InitOrderInv, NextOrderInv, PTL DEF Spec

\* Whatever the two threads interleave and however many tasks are in flight, handlers are
\* entered in the order of their StartAsync calls, each at most once, and the completion
\* callbacks come in that order, none skipped and none repeated.
THEOREM TasksServedInOrder == Spec => []ServedInOrder
<1>1. AsyncInv /\ OrderInv => ServedInOrder
  <2> SUFFICES ASSUME AsyncInv, OrderInv PROVE ServedInOrder
    OBVIOUS
  <2>1. /\ begun \in Seq(Tasks) /\ completed \in Seq(Tasks) /\ item \in Pointer
        /\ added \in 0 .. N
    BY DEF AsyncInv, TypeOK
  <2>2. DOMAIN begun = 1 .. Len(begun) /\ DOMAIN completed = 1 .. Len(completed)
    BY <2>1
  <2>3. Len(completed) <= added
    BY <2>1, NAssumption DEF OrderInv, LoopOrder, Taken
  <2>4. QED
    BY <2>2, <2>3 DEF OrderInv, LoopOrder, BegunOrder, ServedInOrder
<1>2. QED
  BY <1>1, AsyncInvariant, OrderInvariant, PTL

(***************************************************************************)
(* No task is lost.  Walk is a recursive function, so what it computes is  *)
(* proved by induction over its argument; the induction rests on the fact  *)
(* that a set of naturals has a least element.                             *)
(***************************************************************************)
\* A set of naturals that is not empty has a least element.
LEMMA LeastNatural ==
  ASSUME NEW T, T \subseteq Nat, T # {} PROVE \E m \in T : \A k \in T : m <= k
<1>1. PICK R : R = {ss \in Nat \X Nat : ss[1] < ss[2]}
  OBVIOUS
<1>2. IsWellFoundedOn(R, Nat)
  BY <1>1, NatLessThanWellFounded DEF OpToRel
<1>3. PICK x \in T : \A y \in T : ~ (<<y, x>> \in R)
  BY ONLY <1>2, WFMin, T \subseteq Nat, T # {}, Zenon
<1>4. \A a, b \in Nat : b < a => <<b, a>> \in R
  BY <1>1
<1>5. ASSUME NEW y \in T PROVE x <= y
  <2>1. x \in Nat /\ y \in Nat
    OBVIOUS
  <2>2. ~ (y < x)
    BY <1>3, <1>4, <2>1
  <2>3. QED
    BY ONLY <2>1, <2>2
<1>6. QED
  BY <1>5

\* Induction, for a set of naturals.
LEMMA NatSetInduction ==
  ASSUME NEW S, 0 \in S, \A n \in Nat : n \in S => n + 1 \in S PROVE Nat \subseteq S
<1> SUFFICES ASSUME Nat \ S # {} PROVE FALSE
  OBVIOUS
<1>1. PICK m \in Nat \ S : \A k \in Nat \ S : m <= k
  BY LeastNatural
<1>2. m # 0 /\ m - 1 \in Nat /\ m - 1 \in S
  BY <1>1
<1>3. QED
  BY <1>1, <1>2

\* f is the walk of M steps from pointer a along the next pointers g.
IsWalk(f, a, g, z, M) ==
  f = [k \in 0 .. M |-> IF k = 0 THEN a
                        ELSE IF f[k - 1] = z THEN z ELSE g[f[k - 1]]]

\* A walk of any number of steps exists.
LEMMA WalkExists ==
  ASSUME NEW a, NEW g, NEW M \in Nat, NEW z PROVE \E f : IsWalk(f, a, g, z, M)
<1>1. PICK S : S = {n \in Nat : \E f : IsWalk(f, a, g, z, n)}
  OBVIOUS
<1>2. 0 \in S
  <2>1. PICK f : f = [k \in 0 .. 0 |-> a]
    OBVIOUS
  <2>2. IsWalk(f, a, g, z, 0)
    BY <2>1 DEF IsWalk
  <2>3. QED
    BY <1>1, <2>2
<1>3. ASSUME NEW n \in Nat, n \in S PROVE n + 1 \in S
  <2>1. PICK f : IsWalk(f, a, g, z, n)
    BY <1>1, <1>3
  <2>2. PICK h : h = [k \in 0 .. n + 1 |-> IF k <= n THEN f[k]
                                           ELSE IF f[n] = z THEN z ELSE g[f[n]]]
    OBVIOUS
  <2>3. \A k \in 0 .. n + 1 :
          h[k] = IF k = 0 THEN a ELSE IF h[k - 1] = z THEN z ELSE g[h[k - 1]]
    <3>1. \A k \in 0 .. n : h[k] = f[k]
      BY <2>2
    <3>2. h[n + 1] = IF f[n] = z THEN z ELSE g[f[n]]
      BY <2>2
    <3>3. \A k \in 0 .. n :
            f[k] = IF k = 0 THEN a ELSE IF f[k - 1] = z THEN z ELSE g[f[k - 1]]
      BY <2>1 DEF IsWalk
    <3>4. QED
      BY ONLY <3>1, <3>2, <3>3, n \in Nat
  <2>4. IsWalk(h, a, g, z, n + 1)
    BY ONLY <2>2, <2>3 DEF IsWalk
  <2>5. QED
    BY <1>1, <2>4
<1>4. M \in S
  BY <1>2, <1>3, NatSetInduction
<1>5. QED
  BY <1>1, <1>4

\* Walk(c) satisfies its recursive definition.
LEMMA WalkDef == ASSUME NEW c PROVE IsWalk(Walk(c), head[c], next, NULL, N)
<1>1. PICK h, g, z : h = head[c] /\ g = next /\ z = NULL
  OBVIOUS
<1>2. \E f : IsWalk(f, h, g, z, N)
  BY ONLY WalkExists, NAssumption
<1>3. \E f : f = [k \in 0 .. N |-> IF k = 0 THEN head[c]
                                   ELSE IF f[k - 1] = NULL THEN NULL ELSE next[f[k - 1]]]
  BY <1>1, <1>2, Zenon DEF IsWalk
<1>4. QED
  BY ONLY <1>3, Zenon DEF Walk, IsWalk

\* Every task of a linked stretch is met when walking from its first task.
LEMMA WalkReaches ==
  ASSUME NEW c, NEW hi, NEW t \in Tasks, head[c] \in Tasks, hi \in Tasks,
         Linked(head[c], hi), head[c] <= t, t <= hi
  PROVE  \E k \in 0 .. N : Walk(c)[k] = t
<1> USE NAssumption, NullAssumption DEF Tasks
<1>1. PICK S : S = {k \in Nat : head[c] + k <= hi => Walk(c)[k] = head[c] + k}
  OBVIOUS
<1>2. /\ Walk(c)[0] = head[c]
      /\ \A k \in 1 .. N :
           Walk(c)[k] = IF Walk(c)[k - 1] = NULL THEN NULL ELSE next[Walk(c)[k - 1]]
  <2>1. PICK w : w = Walk(c)
    OBVIOUS
  <2>2. w = [k \in 0 .. N |-> IF k = 0 THEN head[c]
                              ELSE IF w[k - 1] = NULL THEN NULL ELSE next[w[k - 1]]]
    BY <2>1, WalkDef DEF IsWalk
  <2>3. ASSUME NEW k \in 0 .. N
        PROVE  w[k] = IF k = 0 THEN head[c]
                      ELSE IF w[k - 1] = NULL THEN NULL ELSE next[w[k - 1]]
    BY ONLY <2>2, <2>3
  <2>4. QED
    BY ONLY <2>1, <2>3, NAssumption
<1>3. 0 \in S
  BY <1>1, <1>2
<1>4. ASSUME NEW n \in Nat, n \in S PROVE n + 1 \in S
  <2> SUFFICES ASSUME head[c] + (n + 1) <= hi PROVE Walk(c)[n + 1] = head[c] + (n + 1)
    BY <1>1
  <2>1. Walk(c)[n] = head[c] + n /\ head[c] + n \in Tasks /\ head[c] + n < hi
    BY <1>1, <1>4
  <2>2. next[head[c] + n] = head[c] + n + 1
    BY <2>1 DEF Linked
  <2>3. Walk(c)[n + 1] = next[Walk(c)[n]]
    BY <1>2, <2>1
  <2>4. QED
    BY <2>1, <2>2, <2>3
<1>5. t - head[c] \in 0 .. N /\ t - head[c] \in S
  BY <1>3, <1>4, NatSetInduction
<1>6. Walk(c)[t - head[c]] = t
  BY <1>1, <1>5
<1>7. QED
  BY <1>5, <1>6

\* A task that was started and has not completed is in the worker's or in Loop's hand or
\* can be reached from the head of a chain, however many tasks are in flight.
THEOREM TasksAreNotLost == Spec => []NoTaskLost
<1>1. ASSUME AsyncInv, OrderInv PROVE NoTaskLost
  <2> SUFFICES ASSUME NEW t \in Started \ Done, t # item, t # base
               PROVE  \E c \in Chains : \E k \in 0 .. N : Walk(c)[k] = t
    BY DEF NoTaskLost
  <2> USE NAssumption, NullAssumption
  <2>1. /\ FromReadyMain \in 1 .. added + 1 /\ FromReadySwap \in 1 .. FromReadyMain
        /\ FromReadyWork \in 1 .. FromReadySwap /\ FromWorker \in 0 .. FromReadyWork
        /\ FromCompleteWork \in 0 .. FromWorker
        /\ FromCompleteSwap \in 0 .. FromCompleteWork
    BY <1>1, PlacesInOrder
  <2>2. /\ \A c \in Chains : /\ head[c] # NULL => head[c] \in Tasks
                             /\ tail[c] # NULL => tail[c] \in Tasks
        /\ added \in 0 .. N /\ completed \in Seq(Tasks) /\ item \in Pointer
    BY <1>1 DEF AsyncInv, TypeOK, Pointer
  <2>3. t \in 1 .. added /\ t \in Tasks
    BY <2>2 DEF Started, Tasks
  <2>4. t > Taken
    <3>1. /\ DOMAIN completed = 1 .. Len(completed) /\ Len(completed) \in Nat
          /\ \A i \in 1 .. Len(completed) : completed[i] = i
      BY <1>1, <2>2 DEF OrderInv, LoopOrder
    <3>2. t \notin 1 .. Len(completed)
      BY ONLY <3>1, t \notin Done DEF Done
    <3>3. QED
      BY <2>3, <3>1, <3>2 DEF Taken
  <2>5. /\ ReadyMain \in Chains /\ ReadySwap \in Chains /\ ReadyWork \in Chains
        /\ CompleteMain \in Chains /\ CompleteSwap \in Chains /\ CompleteWork \in Chains
    BY DEF Chains
  <2>6. ASSUME NEW c \in Chains, head[c] # NULL, NEW hi \in Tasks,
               Linked(head[c], hi), head[c] <= t, t <= hi
        PROVE  \E k \in 0 .. N : Walk(c)[k] = t
    BY <2>2, <2>3, <2>6, WalkReaches
  <2>7. CASE t >= FromReadyMain
    <3>1. /\ head[ReadyMain] # NULL /\ head[ReadyMain] <= t /\ added \in Tasks
          /\ Linked(head[ReadyMain], added)
      BY <1>1, <2>2, <2>3, <2>5, <2>7
      DEF FromReadyMain, OrderInv, ReadyOrder, Holds, Tasks
    <3>2. QED
      BY <2>3, <2>5, <2>6, <3>1
  <2>8. CASE FromReadySwap <= t /\ t < FromReadyMain
    <3>1. head[ReadySwap] # NULL /\ head[ReadySwap] = FromReadySwap
      BY <2>1, <2>3, <2>8 DEF FromReadySwap
    <3>2. CASE pcMain # "readyDone"
      <4>1. tail[ReadySwap] = FromReadyMain - 1 /\ Linked(head[ReadySwap], tail[ReadySwap])
        BY <1>1, <3>1, <3>2 DEF OrderInv, ReadyOrder, Holds
      <4>2. tail[ReadySwap] \in Tasks /\ t <= tail[ReadySwap]
        BY <2>1, <2>2, <2>3, <2>8, <4>1 DEF Tasks
      <4>3. QED
        BY <2>5, <2>6, <2>8, <3>1, <4>1, <4>2
    <3>3. CASE pcMain = "readyDone"
      <4>1. /\ head[ReadyMain] = FromReadyMain /\ head[ReadyMain] \in Tasks
            /\ Linked(head[ReadySwap], head[ReadyMain])
        BY <1>1, <2>2, <2>5, <3>3
        DEF AsyncInv, ReadInv, FromReadyMain, OrderInv, ReadyOrder
      <4>2. QED
        BY <2>3, <2>5, <2>6, <2>8, <3>1, <4>1 DEF Tasks
    <3>4. QED
      BY <3>2, <3>3
  <2>9. CASE FromReadyWork <= t /\ t < FromReadySwap
    <3>1. head[ReadyWork] # NULL /\ head[ReadyWork] = FromReadyWork
      BY <2>1, <2>3, <2>9 DEF FromReadyWork
    <3>2. tail[ReadyWork] = FromReadySwap - 1 /\ Linked(head[ReadyWork], tail[ReadyWork])
      BY <1>1, <3>1 DEF OrderInv, ReadyOrder, Holds
    <3>3. tail[ReadyWork] \in Tasks /\ t <= tail[ReadyWork]
      BY <2>1, <2>2, <2>3, <2>9, <3>2 DEF Tasks
    <3>4. QED
      BY <2>5, <2>6, <2>9, <3>1, <3>2, <3>3
  <2>10. CASE FromWorker <= t /\ t < FromReadyWork
    <3>1. base # NULL /\ base = FromReadyWork - 1 /\ base = FromWorker
      BY <1>1, <2>1, <2>3, <2>10 DEF FromWorker, OrderInv, ReadyOrder
    <3>2. QED
      BY <2>1, <2>3, <2>10, <3>1
  <2>11. CASE FromCompleteWork <= t /\ t < FromWorker
    <3>1. head[CompleteWork] # NULL /\ head[CompleteWork] = FromCompleteWork
      BY <2>1, <2>3, <2>11 DEF FromCompleteWork
    <3>2. tail[CompleteWork] = FromWorker - 1 /\ Linked(head[CompleteWork], tail[CompleteWork])
      BY <1>1, <3>1 DEF OrderInv, CompleteOrder, Holds
    <3>3. tail[CompleteWork] \in Tasks /\ t <= tail[CompleteWork]
      BY <2>1, <2>2, <2>3, <2>11, <3>2 DEF Tasks
    <3>4. QED
      BY <2>5, <2>6, <2>11, <3>1, <3>2, <3>3
  <2>12. CASE FromCompleteSwap <= t /\ t < FromCompleteWork
    <3>1. head[CompleteSwap] # NULL /\ head[CompleteSwap] = FromCompleteSwap
      BY <2>1, <2>3, <2>12 DEF FromCompleteSwap
    <3>2. pcWork # "done"
      BY <1>1, <2>1, <2>3, <2>12, <3>1 DEF OrderInv, CompleteOrder, FromCompleteWork
    <3>3. /\ tail[CompleteSwap] = FromCompleteWork - 1
          /\ Linked(head[CompleteSwap], tail[CompleteSwap])
      BY <1>1, <3>1, <3>2 DEF OrderInv, CompleteOrder, Holds
    <3>4. tail[CompleteSwap] \in Tasks /\ t <= tail[CompleteSwap]
      BY <2>1, <2>2, <2>3, <2>12, <3>3 DEF Tasks
    <3>5. QED
      BY <2>5, <2>6, <2>12, <3>1, <3>3, <3>4
  <2>13. CASE t < FromCompleteSwap
    <3>1. Taken \in Nat /\ Len(completed) \in Nat
      BY <2>2 DEF Taken
    <3>2. head[CompleteMain] # NULL /\ head[CompleteMain] <= Taken + 1
      BY <1>1, <2>1, <2>3, <2>4, <2>13, <3>1 DEF OrderInv, LoopOrder
    <3>3. /\ tail[CompleteMain] = FromCompleteSwap - 1
          /\ Linked(head[CompleteMain], tail[CompleteMain])
      BY <1>1, <3>2 DEF OrderInv, CompleteOrder
    <3>4. tail[CompleteMain] \in Tasks /\ t <= tail[CompleteMain] /\ head[CompleteMain] <= t
      BY <2>1, <2>2, <2>3, <2>4, <2>5, <2>13, <3>1, <3>2, <3>3 DEF Tasks
    <3>5. QED
      BY <2>5, <2>6, <3>2, <3>3, <3>4
  <2>14. QED
    BY <2>1, <2>3, <2>7, <2>8, <2>9, <2>10, <2>11, <2>12, <2>13
<1>2. QED
  BY <1>1, AsyncInvariant, OrderInvariant, PTL
=============================================================================
