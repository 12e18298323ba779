---------------------------- MODULE TimerService ----------------------------
(***************************************************************************)
(* What the kernel's timers promise, without the wheel: a timer is armed   *)
(* for a jiffy, and processing a jiffy calls exactly the timers armed for  *)
(* it.  A timer called with calls left is armed again, interval jiffies    *)
(* after the next one to be processed.                                     *)
(***************************************************************************)
EXTENDS Integers

CONSTANTS
  Bases,       \* the TimerBase objects of the pool
  None,        \* no timer
  FOREVER,     \* the count of a timer that never ends by itself
  Delays, Intervals, Counts,   \* what clients pass to StartTimer, in jiffies
  MaxJiffies   \* bound on the clock

VARIABLES
  jiffies,     \* the next jiffy to process
  state,       \* "idle", "armed", "batch", "running", "killed" or "ending"
  due,         \* the jiffy a timer is armed for
  left,        \* how often it will be called again
  gap          \* its interval

vars == <<jiffies, state, due, left, gap>>

In(s) == {b \in Bases : state[b] = s}
Later(a, b) == IF a < b THEN b ELSE a

Init ==
  /\ jiffies = 0
  /\ state = [b \in Bases |-> "idle"]
  /\ due = [b \in Bases |-> 0]
  /\ left = [b \in Bases |-> 0]
  /\ gap = [b \in Bases |-> 0]

Start(b) ==
  /\ state[b] = "idle"
  /\ \E d \in Delays : due' = [due EXCEPT ![b] = Later(jiffies, jiffies + d)]
  /\ \E c \in Counts : left' = [left EXCEPT ![b] = c]
  /\ \E i \in Intervals : gap' = [gap EXCEPT ![b] = i]
  /\ state' = [state EXCEPT ![b] = "armed"]
  /\ UNCHANGED jiffies

\* The timers armed for this jiffy are to be called, and no timer is late.
NextJiffy ==
  /\ jiffies < MaxJiffies
  /\ In("batch") \cup In("running") \cup In("killed") \cup In("ending") = {}
  /\ \A b \in In("armed") : due[b] >= jiffies
  /\ state' = [b \in Bases |-> IF state[b] = "armed" /\ due[b] = jiffies
                               THEN "batch" ELSE state[b]]
  /\ jiffies' = jiffies + 1
  /\ UNCHANGED <<due, left, gap>>

Call(b) ==
  /\ state[b] = "batch"
  /\ In("running") \cup In("killed") = {}
  /\ state' = [state EXCEPT ![b] = "running"]
  /\ UNCHANGED <<jiffies, due, left, gap>>

Return(b) ==
  /\ UNCHANGED jiffies
  /\ \/ /\ state[b] = "running" /\ left[b] # 0
        /\ left' = [left EXCEPT ![b] = IF @ = FOREVER THEN @ ELSE @ - 1]
        /\ due' = [due EXCEPT ![b] = jiffies + gap[b]]
        /\ state' = [state EXCEPT ![b] = "armed"]
        /\ UNCHANGED gap
     \/ /\ state[b] = "running" /\ left[b] = 0
        /\ state' = [state EXCEPT ![b] = "ending"]
        /\ UNCHANGED <<due, left, gap>>
     \/ /\ state[b] = "killed"
        /\ state' = [state EXCEPT ![b] = "idle"]
        /\ due' = [due EXCEPT ![b] = 0]
        /\ left' = [left EXCEPT ![b] = 0]
        /\ gap' = [gap EXCEPT ![b] = 0]

Kill(b) ==
  /\ state[b] \in {"armed", "batch", "running"}
  /\ state' = [state EXCEPT ![b] = IF @ = "running" THEN "killed" ELSE "ending"]
  /\ left' = [left EXCEPT ![b] = 0]
  /\ UNCHANGED <<jiffies, due, gap>>

Finish(b) ==
  /\ state[b] = "ending"
  /\ state' = [state EXCEPT ![b] = "idle"]
  /\ due' = [due EXCEPT ![b] = 0]
  /\ left' = [left EXCEPT ![b] = 0]
  /\ gap' = [gap EXCEPT ![b] = 0]
  /\ UNCHANGED jiffies

Next ==
  \/ NextJiffy
  \/ \E b \in Bases : Start(b) \/ Call(b) \/ Return(b) \/ Kill(b) \/ Finish(b)

Spec == Init /\ [][Next]_vars
=============================================================================
