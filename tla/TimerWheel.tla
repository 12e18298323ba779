----------------------------- MODULE TimerWheel -----------------------------
(***************************************************************************)
(* The kernel's timers (Kernel/Timer): a hierarchical wheel with a root of *)
(* one-jiffy slots and Levels levels of coarser slots, from which timers   *)
(* cascade down as time passes.                                            *)
(*                                                                         *)
(* A slot's LinkList is modelled by the set of timers in it: slot[b] says  *)
(* which list holds b.  One NextJiffy is one iteration of the loop in      *)
(* TimerWheel::Process; how many of them one call of Process runs only     *)
(* depends on the clock.  Client code runs between calls of Process, in    *)
(* OnStart and OnTime, and in the OnTerminate of a timer that is ending.   *)
(***************************************************************************)
EXTENDS Integers, Sequences

CONSTANTS
  Bases,       \* the TimerBase objects of the pool
  None,        \* the null pointer
  RootSize,    \* TVR_SIZE
  NodeSize,    \* TVN_SIZE
  Levels,      \* TVEC_COUNT
  Span,        \* 1 << (TVR_BITS + n * TVN_BITS): the jiffies that the levels up to n reach
  FOREVER,     \* the count of a timer that is only ended by KillTimer
  Delays, Intervals, Counts,   \* what clients pass to StartTimer, in jiffies
  MaxJiffies   \* bound on the clock

ASSUME SizeAssumption == /\ RootSize \in Nat \ {0, 1}
                         /\ NodeSize \in Nat \ {0, 1}
                         /\ Levels \in Nat \ {0}
ASSUME SpanAssumption == /\ Span \in [0 .. Levels -> Nat]
                         /\ Span[0] = RootSize
                         /\ \A n \in 1 .. Levels : Span[n] = NodeSize * Span[n - 1]
ASSUME ClientAssumption == /\ Delays \subseteq Int /\ Intervals \subseteq Nat
                           /\ FOREVER \in Int \ Nat /\ Counts \subseteq Nat \cup {FOREVER}
                           /\ MaxJiffies \in Nat
ASSUME NoneAssumption == None \notin Bases

VARIABLES
  jiffies,     \* _jiffies
  timer,       \* the fields of each TimerBase
  slot,        \* the list each TimerBase is in (_host)
  live,        \* the TimerBases that are out of the pool
  cur,         \* the timer in Exec
  ends,        \* the calls of End in progress, innermost first
  pc           \* where Process is
vars == <<jiffies, timer, slot, live, cur, ends, pc>>

\* due is not in the code: the jiffy the timer must be called in.
Fresh == [expires |-> 0, interval |-> 0, count |-> 0, frist |-> TRUE,
          canRelease |-> TRUE, remove |-> FALSE,
          due |-> 0]

NoList == <<-1, 0>>
WorkList == <<-2, 0>>
Slots == ({0} \X (0 .. RootSize - 1)) \cup ((1 .. Levels) \X (0 .. NodeSize - 1))
InList(l) == {b \in Bases : slot[b] = l}

(***************************************************************************)
(* Where a timer goes.  Level n holds the timers Span[n - 1] to            *)
(* Span[n] - 1 jiffies ahead, in slots of Span[n - 1] jiffies.             *)
(***************************************************************************)
Index(n, j) == (j \div Span[n - 1]) % NodeSize
Farthest == Span[Levels] - 1

Bug_AddTimer(expires) ==
  LET idx == expires - jiffies
      level == CHOOSE n \in 1 .. Levels :
                 /\ idx <= Span[n] \/ n = Levels
                 /\ \A m \in 1 .. n - 1 : idx > Span[m]
  IN  CASE idx < 0 -> <<0, jiffies % RootSize>>
        [] 0 <= idx /\ idx <= RootSize -> <<0, expires % RootSize>>
        [] idx > RootSize -> <<level, Index(level, expires)>>

\* TimerWheel::AddTimer(timer).  Its 0xFFFFFFFF is Farthest for the code's sizes.
AddTimer(expires) ==
  LET idx == expires - jiffies
      far == IF idx > Farthest THEN jiffies + Farthest ELSE expires
      level == CHOOSE n \in 1 .. Levels :
                 /\ idx < Span[n] \/ n = Levels
                 /\ \A m \in 1 .. n - 1 : idx >= Span[m]
  IN  CASE idx < 0 -> <<0, jiffies % RootSize>>
        [] 0 <= idx /\ idx < RootSize -> <<0, expires % RootSize>>
        [] idx >= RootSize -> <<level, Index(level, far)>>

(***************************************************************************)
(* Client calls.                                                           *)
(***************************************************************************)
InClient == ends # <<>> \/ pc \in {"idle", "callback"}

\* TimerMgr::StartTimer: a TimerBase from the pool, put into the wheel.
StartTimer(b) ==
  /\ InClient
  /\ b \notin live
  /\ \E delay \in Delays, interval \in Intervals, count \in Counts :
       /\ timer' = [timer EXCEPT ![b] =
            [Fresh EXCEPT !.expires = jiffies + delay, !.interval = interval,
                          !.count = count,
                          !.due = IF delay < 0 THEN jiffies ELSE jiffies + delay]]
       /\ slot' = [slot EXCEPT ![b] = AddTimer(jiffies + delay)]
  /\ live' = live \cup {b}
  /\ UNCHANGED <<jiffies, cur, ends, pc>>

Bug_KillTimer(b) ==
  /\ InClient
  /\ b \in live
  /\ ~timer[b].remove
  /\ timer' = [timer EXCEPT ![b].remove = TRUE]
  /\ ends' = <<b>> \o ends
  /\ UNCHANGED <<jiffies, slot, live, cur, pc>>

\* TimerMgr::KillTimer, Kill and the first half of End, up to OnTerminate.  A timer
\* that is ending has no base any more, so it cannot be killed again.
KillTimer(b) ==
  /\ InClient
  /\ b \in live
  /\ ~timer[b].remove
  /\ timer' = [timer EXCEPT ![b].count = 0, ![b].remove = TRUE]
  /\ ends' = <<b>> \o ends
  /\ UNCHANGED <<jiffies, slot, live, cur, pc>>

Bug_EndFinish ==
  /\ ends # <<>>
  /\ slot' = [slot EXCEPT ![Head(ends)] = NoList]
  /\ live' = live \ {Head(ends)}
  /\ timer' = [timer EXCEPT ![Head(ends)] = Fresh]
  /\ ends' = Tail(ends)
  /\ UNCHANGED <<jiffies, cur, pc>>

\* The second half of End: _host->Remove, and Release unless Exec is still using it.
EndFinish ==
  /\ ends # <<>>
  /\ LET b == Head(ends)
     IN  /\ slot' = [slot EXCEPT ![b] = NoList]
         /\ live' = IF timer[b].canRelease THEN live \ {b} ELSE live
         /\ timer' = IF timer[b].canRelease THEN [timer EXCEPT ![b] = Fresh] ELSE timer
  /\ ends' = Tail(ends)
  /\ UNCHANGED <<jiffies, cur, pc>>

(***************************************************************************)
(* TimerWheel::Process.                                                    *)
(***************************************************************************)
Bug_Cascading(j) ==
  IF j % RootSize # 0 THEN {} ELSE {<<1, Index(1, j)>>}

\* The slots that Process cascades in jiffy j: level n when all lower indices are zero.
Cascading(j) ==
  IF j % RootSize # 0 THEN {}
  ELSE {<<n, Index(n, j)>> : n \in {n \in 1 .. Levels :
                                      \A m \in 1 .. n - 1 : Index(m, j) = 0}}

NextJiffy ==
  /\ pc = "idle" /\ ends = <<>>
  /\ jiffies < MaxJiffies
  /\ LET cascaded == [b \in Bases |-> IF slot[b] \in Cascading(jiffies)
                                      THEN AddTimer(timer[b].expires) ELSE slot[b]]
     IN  slot' = [b \in Bases |-> IF cascaded[b] = <<0, jiffies % RootSize>>
                                  THEN WorkList ELSE cascaded[b]]
  /\ jiffies' = jiffies + 1
  /\ pc' = "work"
  /\ UNCHANGED <<timer, live, cur, ends>>

\* workList.HeadRemove and Exec, up to the callback.
ExecBegin(b) ==
  /\ pc = "work" /\ ends = <<>>
  /\ slot[b] = WorkList
  /\ slot' = [slot EXCEPT ![b] = NoList]
  /\ timer' = [timer EXCEPT ![b].canRelease = FALSE]
  /\ cur' = b
  /\ pc' = "callback"
  /\ UNCHANGED <<jiffies, live, ends>>

\* The fields of a timer that Exec arms again.
Again(t) ==
  [t EXCEPT !.frist = FALSE, !.canRelease = TRUE,
            !.count = IF @ = FOREVER THEN @ ELSE @ - 1,
            !.expires = jiffies + t.interval, !.due = jiffies + t.interval]

\* Exec from the end of the callback: armed again, ended, or released at last.
ExecEnd ==
  /\ pc = "callback" /\ ends = <<>>
  /\ \/ /\ timer[cur].count # 0
        /\ timer' = [timer EXCEPT ![cur] = Again(@)]
        /\ slot' = [slot EXCEPT ![cur] = AddTimer(jiffies + timer[cur].interval)]
        /\ UNCHANGED <<live, ends>>
     \/ /\ timer[cur].count = 0 /\ ~timer[cur].remove
        /\ timer' = [timer EXCEPT ![cur].frist = FALSE, ![cur].canRelease = TRUE,
                                  ![cur].remove = TRUE]
        /\ ends' = <<cur>>
        /\ UNCHANGED <<slot, live>>
     \/ /\ timer[cur].count = 0 /\ timer[cur].remove
        /\ timer' = [timer EXCEPT ![cur] = Fresh]
        /\ live' = live \ {cur}
        /\ UNCHANGED <<slot, ends>>
  /\ cur' = None
  /\ pc' = "work"
  /\ UNCHANGED jiffies

\* The work list is empty: this jiffy is done.
JiffyDone ==
  /\ pc = "work" /\ ends = <<>>
  /\ InList(WorkList) = {}
  /\ pc' = "idle"
  /\ UNCHANGED <<jiffies, timer, slot, live, cur, ends>>

Init ==
  /\ jiffies = 0
  /\ timer = [b \in Bases |-> Fresh]
  /\ slot = [b \in Bases |-> NoList]
  /\ live = {}
  /\ cur = None
  /\ ends = <<>>
  /\ pc = "idle"

Next ==
  \/ NextJiffy \/ JiffyDone \/ ExecEnd \/ EndFinish
  \/ \E b \in Bases : StartTimer(b) \/ KillTimer(b) \/ ExecBegin(b)

Spec == Init /\ [][Next]_vars

(***************************************************************************)
(* Properties.                                                             *)
(***************************************************************************)
TimerFields ==
  [expires : Int, interval : Nat, count : Nat \cup {FOREVER}, frist : BOOLEAN,
   canRelease : BOOLEAN, remove : BOOLEAN, due : Int]

\* Every variable has its type, and Exec has a timer exactly while in its callback.
TypeOK ==
  /\ jiffies \in Nat
  /\ timer \in [Bases -> TimerFields]
  /\ slot \in [Bases -> Slots \cup {NoList, WorkList}]
  /\ live \in SUBSET Bases
  /\ cur \in Bases \cup {None}
  /\ ends \in Seq(Bases)
  /\ pc \in {"idle", "work", "callback"}
  /\ (cur # None) <=> (pc = "callback")

Ending == {ends[i] : i \in DOMAIN ends}

\* A timer in the pool is in no list, and not in use by Exec or End: nothing can reach
\* it.  One out of the pool is in a list unless Exec or End is at work on it: nothing
\* loses it (End, Release, and the deferred Release of Exec).
NoDanglingTimer ==
  \A b \in Bases :
    IF b \in live THEN slot[b] # NoList \/ b = cur \/ b \in Ending
    ELSE slot[b] = NoList /\ b # cur /\ b \notin Ending

\* A timer is never missed: those in the wheel are due now or later, those in the work
\* list are due in the jiffy being processed, also when they came down by cascades and
\* when they were further ahead than the wheel reaches (AddTimer, Cascade, Process).
FiresWhenDue ==
  \A b \in Bases :
    /\ slot[b] \in Slots => timer[b].due >= jiffies
    /\ slot[b] = WorkList => timer[b].due = jiffies - 1

\* A timer whose OnTerminate has been called gets no further OnStart or OnTime call, even
\* when it was killed in its own callback or while it waited in the work list.
SilentAfterTerminate ==
  [][\A b \in Bases : ExecBegin(b) => ~timer[b].remove]_vars

(***************************************************************************)
(* The wheel implements TimerService: the slots are only a way to find the *)
(* timers that are due.                                                    *)
(***************************************************************************)
AbstractState(b) ==
  CASE b \notin live -> "idle"
    [] b \in live /\ timer[b].remove -> IF timer[b].canRelease THEN "ending" ELSE "killed"
    [] b \in live /\ ~timer[b].remove ->
         IF b = cur THEN "running" ELSE IF slot[b] = WorkList THEN "batch" ELSE "armed"

Abstract == INSTANCE TimerService WITH
  state <- [b \in Bases |-> AbstractState(b)],
  due   <- [b \in Bases |-> timer[b].due],
  left  <- [b \in Bases |-> timer[b].count],
  gap   <- [b \in Bases |-> timer[b].interval]

\* Whatever the sizes of the wheel, its clients see the timers of TimerService.
ImplementsTimerService == Abstract!Spec
=============================================================================
