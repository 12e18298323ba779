---------------------------- MODULE LoginControl ----------------------------
(***************************************************************************)
(* The login queue (logic/Framework/LoginControl).  A timer lets rateNum   *)
(* accounts in per second, fewer as the number of players that the server  *)
(* reports (ququeNum) comes near its limit.  An account that finds the     *)
(* second's share used up takes a ticket and waits.                        *)
(***************************************************************************)
EXTENDS Integers, Sequences, FiniteSets

CONSTANTS
  Accounts, None,
  LimitMax, LimitVal, RateMax, StageNum,   \* WaitConfigInfo
  QueueNums,   \* the numbers UpdateQueueNum reports
  MaxTick      \* bound on tickets: tickId is a u32, far from its end

ASSUME AccountsAssumption == None \notin Accounts
ASSUME LimitAssumption == /\ LimitMax \in Nat /\ LimitVal \in Nat /\ RateMax \in Nat
                          /\ StageNum \in Nat \ {0}
                          /\ (LimitMax - LimitVal) \div StageNum > 0
ASSUME BoundsAssumption == QueueNums \subseteq Nat /\ MaxTick \in Nat

VARIABLES
  tickId, ququeNum, crossNum, rateNum,     \* WaitServiceInfo
  waitAccount, \* s_waitAccount: account -> its ticket, 0 when it does not wait
  tickIndex,   \* s_tickIndex: ticket -> account
  passed,      \* history: whom the last step let in
  free, basis  \* history: unforced passes since the last OnTime, and what that OnTime
               \* saw: ququeNum (-1 before the first one, when nobody looks at the limit)
               \* and the passes beyond the rate of the second before

maps == <<waitAccount, tickIndex>>
loginVars == <<tickId, ququeNum, crossNum, rateNum, maps, passed, free, basis>>

PerStageNum == (LimitMax - LimitVal) \div StageNum
Tickets == {t \in 1 .. MaxTick : tickIndex[t] # None}
AtLeastZero(n) == IF n < 0 THEN 0 ELSE n

LoginInit ==
  /\ tickId = 0 /\ ququeNum = 0 /\ crossNum = 0 /\ rateNum = RateMax
  /\ waitAccount = [a \in Accounts |-> 0]
  /\ tickIndex = [t \in 1 .. MaxTick |-> None]
  /\ passed = <<>>
  /\ free = 0 /\ basis = [num |-> -1, extra |-> 0]

Bug_StageRate(room) == ((room \div PerStageNum + 1) * RateMax) \div StageNum

\* The rate for a server with so much room left: stage by stage, and never beyond it.
StageRate(room) ==
  LET rate == ((room \div PerStageNum + 1) * RateMax) \div StageNum
  IN  IF rate > room THEN room ELSE rate

Bug_BaseRate ==
  IF ququeNum < LimitVal THEN (IF rateNum = 0 THEN 0 ELSE RateMax)
  ELSE IF LimitMax - ququeNum > 0 THEN StageRate(LimitMax - ququeNum) ELSE 0

BaseRate ==
  IF ququeNum < LimitVal THEN RateMax
  ELSE IF LimitMax - ququeNum > 0 THEN StageRate(LimitMax - ququeNum) ELSE 0

ExtraCross == AtLeastZero(crossNum - rateNum)
NewRate == AtLeastZero(BaseRate - ExtraCross)

Bug_Served(rate) == {t \in Tickets : Cardinality({u \in Tickets : u > t}) < rate}

\* The first tickets in order, as many as the rate allows.
Served(rate) == {t \in Tickets : Cardinality({u \in Tickets : u < t}) < rate}

\* Tickets start again when a notification finds nobody waiting.
NextTick(left, notify) == IF notify /\ left = {} THEN 0 ELSE tickId

\* At place i the ticket that has i - 1 others in front of it.
Sorted(tickets) ==
  [i \in 1 .. Cardinality(tickets) |->
     CHOOSE t \in tickets : Cardinality({u \in tickets : u < t}) = i - 1]

InOrder(tickets) == [i \in 1 .. Cardinality(tickets) |-> tickIndex[Sorted(tickets)[i]]]

\* OnTime, every second; notify: updateTime has passed since the last notification.
OnTime(notify) ==
  LET served == Served(NewRate)
  IN  /\ rateNum' = NewRate
      /\ crossNum' = Cardinality(served)
      /\ tickIndex' = [t \in 1 .. MaxTick |-> IF t \in served THEN None ELSE tickIndex[t]]
      /\ waitAccount' = [a \in Accounts |-> IF \E t \in served : tickIndex[t] = a THEN 0
                                            ELSE waitAccount[a]]
      /\ tickId' = NextTick(Tickets \ served, notify)
      /\ passed' = InOrder(served)
      /\ free' = Cardinality(served)
      /\ basis' = [num |-> ququeNum, extra |-> ExtraCross]
      /\ UNCHANGED ququeNum

\* EnterLoginQueue: in at once, or in the queue with a new ticket.
EnterLoginQueue(a) ==
  /\ waitAccount[a] = 0
  /\ \/ /\ crossNum < rateNum
        /\ crossNum' = crossNum + 1
        /\ passed' = <<a>> /\ free' = free + 1
        /\ UNCHANGED <<tickId, maps>>
     \/ /\ crossNum >= rateNum /\ tickId < MaxTick
        /\ tickId' = tickId + 1
        /\ waitAccount' = [waitAccount EXCEPT ![a] = tickId + 1]
        /\ tickIndex' = [tickIndex EXCEPT ![tickId + 1] = a]
        /\ passed' = <<>>
        /\ UNCHANGED <<crossNum, free>>
  /\ UNCHANGED <<ququeNum, rateNum, basis>>

\* ForcePassLoginQueue: the pass counts against the rate.
ForcePassLoginQueue(a) ==
  /\ waitAccount[a] # 0
  /\ tickIndex' = [tickIndex EXCEPT ![waitAccount[a]] = None]
  /\ waitAccount' = [waitAccount EXCEPT ![a] = 0]
  /\ crossNum' = crossNum + 1
  /\ passed' = <<a>>
  /\ UNCHANGED <<tickId, ququeNum, rateNum, free, basis>>

UpdateQueueNum(num) ==
  /\ ququeNum' = num
  /\ UNCHANGED <<tickId, crossNum, rateNum, maps, passed, free, basis>>

Forced == \E a \in Accounts : ForcePassLoginQueue(a)
Timer == \E notify \in BOOLEAN : OnTime(notify)

LoginNext == \/ Timer \/ Forced
             \/ \E a \in Accounts : EnterLoginQueue(a)
             \/ \E num \in QueueNums : UpdateQueueNum(num)

LoginSpec == LoginInit /\ [][LoginNext]_loginVars

\* The timer was started with FOREVER.
LoginFairSpec == LoginSpec /\ WF_loginVars(Timer)

(***************************************************************************)
(* Properties.                                                             *)
(***************************************************************************)
\* Every variable has its type, and the two maps hold the same accounts under the same
\* tickets, none of them ahead of the ticket counter: the next ticket is a new one, as
\* EnterLoginQueue asserts.
LoginTypeOK ==
  /\ tickId \in 0 .. MaxTick /\ ququeNum \in Nat /\ crossNum \in Nat /\ rateNum \in Nat
  /\ waitAccount \in [Accounts -> 0 .. MaxTick]
  /\ tickIndex \in [1 .. MaxTick -> Accounts \cup {None}]
  /\ \A a \in Accounts : waitAccount[a] # 0 => tickIndex[waitAccount[a]] = a
  /\ \A t \in Tickets : waitAccount[tickIndex[t]] = t /\ t <= tickId

\* LoginControl is the first-come first-served queue of LoginQueue: an account enters at
\* once only when nobody waits, though EnterLoginQueue looks at two numbers and not at the
\* queue, and the timer serves the line from its front, though tickets start again.
Line == INSTANCE LoginQueue WITH waiting <- InOrder(Tickets), passed <- passed
ImplementsLoginQueue == Line!Spec

\* Between two calls of OnTime no more accounts enter unforced than the server had room
\* for at the first one, less those that had been forced in beyond the rate.
LimitKept ==
  LET room == IF basis.num < LimitVal THEN RateMax ELSE AtLeastZero(LimitMax - basis.num)
  IN  free <= AtLeastZero(room - basis.extra)

\* Whoever waits gets in, once the server has room and nobody is forced in any more.
EveryoneServed ==
  (RateMax > 0 /\ <>[](ququeNum < LimitVal) /\ <>[][~Forced]_loginVars)
     => \A a \in Accounts : waitAccount[a] # 0 ~> waitAccount[a] = 0
=============================================================================
