----------------------------- MODULE QueueProofs -----------------------------
(***************************************************************************)
(* Proofs about the ring queue and about the listener and connecter thread,*)
(* which is fed and answers through two of them.                           *)
(*                                                                         *)
(* CircularQueue, for every size and every width of the counters: the      *)
(* counters tell the number of queued events though they wrap, queued      *)
(* events keep their slots, and where only Push is used Pop hands out the  *)
(* oldest event.                                                           *)
(*                                                                         *)
(* NetListener, for any sessions and descriptors: a session hears of its   *)
(* own connect and of no other.                                            *)
(***************************************************************************)
EXTENDS CircularQueue, NetListener, FiniteSetTheorems, TLAPS

(***************************************************************************)
(* Remainders.                                                             *)
(***************************************************************************)
\* Quotient and remainder are unique.
LEMMA DivisionUnique ==
  ASSUME NEW s \in Nat \ {0}, NEW y \in Int, NEW q \in Int, NEW r \in 0 .. s - 1,
         y = q * s + r
  PROVE  y % s = r
<1>1. DEFINE q2 == y \div s
<1>2. /\ q2 \in Int /\ y % s \in 0 .. s - 1
      /\ y = s * q2 + (y % s)
  OBVIOUS
<1> QED BY <1>2

\* Adding a multiple of the divisor keeps the remainder.
LEMMA ModPeriod ==
  ASSUME NEW s \in Nat \ {0}, NEW x \in Int, NEW k \in Int
  PROVE  (x + k * s) % s = x % s
<1>1. PICK q \in Int : x % s \in 0 .. s - 1 /\ x = q * s + (x % s)
  <2>1. x \div s \in Int /\ x % s \in 0 .. s - 1 /\ x = (x \div s) * s + (x % s)
    OBVIOUS
  <2> QED BY <2>1
<1>2. PICK p \in Int : p = q + k
  OBVIOUS
<1>3. x + k * s = p * s + (x % s) /\ x + k * s \in Int
  BY <1>1, <1>2
<1> QED BY <1>1, <1>3, DivisionUnique

\* Two numbers less than the divisor apart have different remainders.
LEMMA ModDistinct ==
  ASSUME NEW s \in Nat \ {0}, NEW x \in Int, NEW d \in 1 .. s - 1
  PROVE  (x + d) % s # x % s
<1>1. PICK q \in Int, r \in 0 .. s - 1 : x = q * s + r /\ x % s = r
  <2>1. x \div s \in Int /\ x % s \in 0 .. s - 1 /\ x = (x \div s) * s + (x % s)
    OBVIOUS
  <2> QED BY <2>1
<1>2. SUFFICES ASSUME (x + d) % s = r PROVE FALSE
  BY <1>1
<1>3. PICK p \in Int : x + d = p * s + r
  <2>1. /\ x + d \in Int /\ (x + d) \div s \in Int
        /\ x + d = ((x + d) \div s) * s + ((x + d) % s)
    OBVIOUS
  <2> QED BY <1>2, <2>1
<1>4. PICK e \in Int : d = e * s
  <2>1. d = p * s - q * s
    BY <1>1, <1>3
  <2>2. p * s - q * s = (p - q) * s /\ p - q \in Int
    OBVIOUS
  <2> QED BY <2>1, <2>2
<1>5. CASE e <= 0
  BY <1>4, <1>5
<1>6. CASE e >= 1
  <2>1. e * s >= s
    BY <1>6
  <2> QED BY <1>4, <2>1
<1> QED BY <1>5, <1>6

(***************************************************************************)
(* Slots and counters.                                                     *)
(***************************************************************************)
\* Wrapping a counter changes neither its slot nor those at a distance from it.
LEMMA SlotWrap ==
  ASSUME NEW x \in Int, NEW j \in Int
  PROVE  Slot((x % M) + j) = Slot(x + j)
<1>1. PICK k \in 2 .. M : M = k * Size
  BY SizeAssumption
<1>2. M \in Nat \ {0} /\ Size \in Nat \ {0} /\ k \in Nat
  BY <1>1, SizeAssumption
<1>3. x \div M \in Int /\ x % M \in 0 .. M - 1 /\ x = (x \div M) * M + (x % M)
  BY <1>2
<1>4. PICK q \in Int, r \in 0 .. M - 1 : x = q * M + r /\ x % M = r
  BY <1>3
<1>5. PICK p \in Int : p = q * k
  BY <1>2
<1>6. q * (k * Size) = (q * k) * Size
  BY <1>2
<1>7. x + j = (r + j) + p * Size
  BY <1>1, <1>2, <1>4, <1>5, <1>6
<1>8. ((r + j) + p * Size) % Size = (r + j) % Size
  <2> r + j \in Int
    BY <1>2
  <2> QED BY <1>2, ModPeriod, Zenon
<1> QED BY <1>4, <1>7, <1>8 DEF Slot

\* Wrapping early or late gives the same counter.
LEMMA WrapTwice ==
  ASSUME NEW x \in Int, NEW j \in Int
  PROVE  ((x % M) + j) % M = (x + j) % M
<1>1. M \in Nat \ {0}
  BY SizeAssumption
<1>2. x \div M \in Int /\ x % M \in 0 .. M - 1 /\ x = (x \div M) * M + (x % M)
  BY <1>1
<1>3. PICK q \in Int, r \in Int : x = q * M + r /\ x % M = r
  BY <1>1, <1>2
<1>4. x + j = (r + j) + q * M /\ r + j \in Int
  BY <1>1, <1>3
<1>5. ((r + j) + q * M) % M = (r + j) % M
  BY <1>1, <1>4, ModPeriod, Zenon
<1> QED BY <1>3, <1>4, <1>5

\* Unsigned subtraction undoes an addition, whether or not it wrapped.
LEMMA CountOf ==
  ASSUME NEW f \in 0 .. M - 1, NEW n \in 0 .. M - 1
  PROVE  (((f + n) % M) - f) % M = n
<1>1. M \in Nat \ {0}
  BY SizeAssumption
<1>2. CASE f + n < M
  <2>1. (f + n) % M = f + n
    BY <1>1, <1>2, DivisionUnique
  <2> QED BY <1>1, <2>1, DivisionUnique
<1>3. CASE f + n >= M
  <2>1. (f + n) % M = f + n - M
    BY <1>1, <1>3, DivisionUnique
  <2>2. (n - M) % M = n
    BY <1>1, DivisionUnique
  <2> QED BY <1>1, <2>1, <2>2
<1> QED BY <1>1, <1>2, <1>3

\* There are more counter values than slots.
LEMMA SizeFits == Size \in Nat \ {0} /\ M \in Nat \ {0} /\ Size < M
<1>1. PICK k \in 2 .. M : M = k * Size
  BY SizeAssumption
<1> QED BY <1>1, SizeAssumption

\* A remainder is a value of its type.
LEMMA SlotType ==
  ASSUME NEW x \in Int
  PROVE  x % M \in 0 .. M - 1 /\ Slot(x) \in 0 .. Size - 1
BY SizeFits DEF Slot

(***************************************************************************)
(* The inductive invariant: tail is Len(fifo) events after front, a push   *)
(* that passed its test still has room, a slot written and not advanced    *)
(* over holds the argument, and TryPush will fill the slot of the last     *)
(* event.                                                                  *)
(***************************************************************************)
CounterInv == tail = (front + Len(fifo)) % M /\ Len(fifo) <= Size
RoomInv == pcProd \in {"write", "advance", "take"} => Len(fifo) < Size
ArgInv == pcProd # "idle" => arg \in Events
WrittenInv == pcProd = "advance" => queue[Slot(tail)] = arg
FillInv == pcProd = "fill" /\ Len(fifo) > 0 =>
             index = Slot(front + Len(fifo) - 1) /\ fifo[Len(fifo)] = arg
PopInv == pcCons # "idle" => Len(fifo) > 0

QueueInv == /\ TypeOK /\ CounterInv /\ RoomInv /\ ArgInv /\ WrittenInv /\ FillInv
            /\ PopInv /\ QueuedEventsIntact

\* What the tests of Push, TryPush and Pop read is the number of queued events.
LEMMA CountIsLen ==
  ASSUME TypeOK, CounterInv
  PROVE  /\ Len(fifo) \in Nat /\ Count = Len(fifo)
         /\ front # tail => Len(fifo) > 0
<1>1. Len(fifo) \in Nat /\ front \in 0 .. M - 1
  BY DEF TypeOK
<1>2. Len(fifo) \in 0 .. M - 1
  BY <1>1, SizeFits DEF CounterInv
<1>3. Count = Len(fifo)
  BY <1>1, <1>2, CountOf DEF CounterInv, Count
<1>4. Len(fifo) = 0 => front = tail
  BY <1>1, SizeFits, DivisionUnique DEF CounterInv
<1> QED BY <1>1, <1>3, <1>4

LEMMA InitQueueInv == Init => QueueInv
<1> SUFFICES ASSUME Init PROVE QueueInv
  OBVIOUS
<1>1. TypeOK
  BY SizeFits DEF Init, TypeOK
<1>2. CounterInv
  BY SizeFits, DivisionUnique DEF Init, CounterInv
<1> QED
  BY <1>1, <1>2 DEF Init, QueueInv, RoomInv, ArgInv, WrittenInv, FillInv, PopInv,
     QueuedEventsIntact

LEMMA NextQueueInv ==
  ASSUME QueueInv, [Next]_vars
  PROVE  QueueInv'
<1> DEFINE n == Len(fifo)
<1>t. /\ n \in Nat /\ Count = n /\ (front # tail => n > 0)
      /\ front \in Int /\ tail \in Int
      /\ Size \in Nat \ {0} /\ M \in Nat \ {0} /\ Size < M
  BY CountIsLen, SizeFits DEF QueueInv, TypeOK
<1>s. /\ Slot(tail) \in 0 .. Size - 1 /\ Slot(front) \in 0 .. Size - 1
      /\ (tail + 1) % M \in 0 .. M - 1 /\ (front + 1) % M \in 0 .. M - 1
  <2>1. tail + 1 \in Int /\ front + 1 \in Int
    BY <1>t
  <2> QED BY <1>t, <2>1, SlotType
<1>z. Slot(tail) = Slot(front + n)
  <2>1. front + n \in Int /\ 0 \in Int
    BY <1>t
  <2>2. Slot(((front + n) % M) + 0) = Slot((front + n) + 0)
    BY <2>1, SlotWrap, Zenon
  <2>3. tail = (front + n) % M /\ tail + 0 = tail /\ (front + n) + 0 = front + n
    BY <1>t, <2>1 DEF QueueInv, CounterInv
  <2> QED BY <2>2, <2>3
<1>1. ASSUME Push \/ TryPush \/ TryRoom PROVE QueueInv'
  BY <1>1, <1>t DEF QueueInv, TypeOK, CounterInv, RoomInv, ArgInv, WrittenInv, FillInv,
     PopInv, QueuedEventsIntact, Unwritten, Push, TryPush, TryRoom, prodOnly, Slot
<1>2. ASSUME PushWrite PROVE QueueInv'
  <2>1. TypeOK' /\ CounterInv' /\ RoomInv' /\ ArgInv' /\ FillInv' /\ PopInv'
    BY <1>2, <1>s DEF QueueInv, TypeOK, CounterInv, RoomInv, ArgInv, FillInv, PopInv,
       PushWrite, prodOnly
  <2>2. WrittenInv'
    BY <1>2, <1>s DEF QueueInv, TypeOK, WrittenInv, PushWrite, prodOnly, Slot
  <2>3. ASSUME NEW i \in 1 .. n PROVE Slot(front + i - 1) # Slot(tail)
    <3>1. n < Size
      BY <1>2 DEF PushWrite, QueueInv, RoomInv
    <3>2. PICK d \in 1 .. Size - 1 : d = n - i + 1
      BY <1>t, <3>1
    <3>3. front + i - 1 \in Int /\ (front + i - 1) + d = front + n
      BY <1>t, <3>2
    <3> QED BY <1>t, <1>z, <3>3, ModDistinct DEF Slot
  <2>4. QueuedEventsIntact'
    BY <1>2, <1>s, <2>3 DEF QueueInv, TypeOK, QueuedEventsIntact, Unwritten, PushWrite,
       prodOnly, Slot
  <2> QED BY <2>1, <2>2, <2>4 DEF QueueInv
<1>3. ASSUME PushAdvance \/ TryTake PROVE QueueInv'
  <2>1. /\ n < Size /\ arg \in Events
        /\ fifo' = Append(fifo, arg) /\ fifo \in Seq(Events)
        /\ tail' = (tail + 1) % M /\ UNCHANGED <<queue, front, arg, pcCons, val>>
    BY <1>3 DEF PushAdvance, TryTake, prodOnly, QueueInv, TypeOK, RoomInv, ArgInv
  <2>2. /\ fifo' \in Seq(Events) /\ Len(fifo') = n + 1 /\ fifo'[n + 1] = arg
        /\ \A i \in 1 .. n : fifo'[i] = fifo[i]
    BY <2>1
  <2>3. TypeOK' /\ RoomInv' /\ ArgInv' /\ WrittenInv' /\ PopInv'
    BY <1>3, <1>t, <1>s, <2>1, <2>2 DEF PushAdvance, TryTake, QueueInv, TypeOK, RoomInv,
       ArgInv, WrittenInv, PopInv
  <2>4. CounterInv'
    <3>1. front + n \in Int /\ 1 \in Int
      BY <1>t
    <3>2. (((front + n) % M) + 1) % M = ((front + n) + 1) % M
      BY <3>1, WrapTwice, Zenon
    <3>3. (front + n) + 1 = front + (n + 1)
      BY <1>t
    <3> QED BY <1>t, <2>1, <2>2, <3>2, <3>3 DEF QueueInv, CounterInv
  <2>5. FillInv'
    BY <1>3, <1>t, <1>z, <2>1, <2>2 DEF FillInv, PushAdvance, TryTake, Slot
  <2>6. QueuedEventsIntact'
    <3>1. \A i \in 1 .. n : queue'[Slot(front' + i - 1)] = fifo'[i]
      BY <1>3, <2>1, <2>2 DEF QueueInv, QueuedEventsIntact, Unwritten, PushAdvance,
         TryTake, Slot
    <3>2. PushAdvance => queue'[Slot(front' + (n + 1) - 1)] = fifo'[n + 1]
      BY <1>t, <1>z, <2>1, <2>2 DEF QueueInv, WrittenInv, PushAdvance, Slot
    <3>3. TryTake => n + 1 \in Unwritten'
      BY <2>2 DEF TryTake, Unwritten
    <3>4. \A i \in 1 .. n + 1 : i \in 1 .. n \/ i = n + 1
      BY <1>t
    <3> QED BY <1>3, <2>2, <3>1, <3>2, <3>3, <3>4 DEF QueuedEventsIntact
  <2> QED BY <2>3, <2>4, <2>5, <2>6 DEF QueueInv
<1>4. ASSUME TryFill PROVE QueueInv'
  <2>1. TypeOK' /\ CounterInv' /\ RoomInv' /\ ArgInv' /\ WrittenInv' /\ FillInv' /\ PopInv'
    BY <1>4 DEF TryFill, prodOnly, QueueInv, TypeOK, CounterInv, RoomInv, ArgInv, WrittenInv,
       FillInv, PopInv
  <2>2. ASSUME NEW i \in 1 .. n PROVE queue'[Slot(front + i - 1)] = fifo[i]
    <3>1. index = Slot(front + n - 1) /\ fifo[n] = arg /\ n <= Size
      BY <1>4, <1>t DEF TryFill, QueueInv, FillInv, CounterInv
    <3>2. CASE i = n
      BY <1>4, <1>t, <3>1, <3>2 DEF TryFill, QueueInv, TypeOK
    <3>3. CASE i # n
      <4>1. PICK d \in 1 .. Size - 1 : d = n - i
        BY <1>t, <3>1, <3>3
      <4>2. front + i - 1 \in Int /\ (front + i - 1) + d = front + n - 1
        BY <1>t, <4>1
      <4>3. Slot(front + i - 1) # index
        BY <1>t, <3>1, <4>2, ModDistinct DEF Slot
      <4>4. i \notin Unwritten
        BY <1>t, <3>3 DEF Unwritten
      <4>5. queue[Slot(front + i - 1)] = fifo[i] /\ Slot(front + i - 1) \in 0 .. Size - 1
        BY <4>2, <4>4, SlotType DEF QueueInv, QueuedEventsIntact
      <4> QED BY <1>4, <4>3, <4>5 DEF TryFill, QueueInv, TypeOK
    <3> QED BY <3>2, <3>3
  <2>3. QueuedEventsIntact'
    BY <1>4, <2>2 DEF TryFill, prodOnly, QueuedEventsIntact, Slot
  <2> QED BY <2>1, <2>3 DEF QueueInv
<1>5. ASSUME Pop \/ PopRead PROVE QueueInv'
  BY <1>5, <1>t, <1>s DEF QueueInv, TypeOK, CounterInv, RoomInv, ArgInv, WrittenInv, FillInv,
     PopInv, QueuedEventsIntact, Unwritten, Pop, PopRead, consOnly, Slot
<1>6. ASSUME PopAdvance PROVE QueueInv'
  <2>1. n > 0
    BY <1>6 DEF PopAdvance, QueueInv, PopInv
  <2>2. /\ fifo' \in Seq(Events) /\ Len(fifo') = n - 1
        /\ \A i \in 1 .. n - 1 : fifo'[i] = fifo[i + 1]
    BY <1>6, <1>t, <2>1 DEF PopAdvance, QueueInv, TypeOK
  <2>3. ASSUME NEW i \in Int PROVE Slot(front' + i) = Slot(front + 1 + i)
    <3>1. front + 1 \in Int /\ front' = (front + 1) % M
      BY <1>6, <1>t DEF PopAdvance
    <3>2. Slot(((front + 1) % M) + i) = Slot((front + 1) + i)
      BY <3>1, SlotWrap, Zenon
    <3> QED BY <3>1, <3>2
  <2>4. TypeOK' /\ RoomInv' /\ ArgInv' /\ WrittenInv' /\ PopInv'
    <3>1. TypeOK'
      BY <1>6, <1>s, <2>2 DEF PopAdvance, consOnly, QueueInv, TypeOK
    <3>2. RoomInv'
      BY <1>6, <1>t, <2>2 DEF PopAdvance, consOnly, QueueInv, RoomInv
    <3>3. ArgInv' /\ WrittenInv'
      BY <1>6 DEF PopAdvance, consOnly, QueueInv, ArgInv, WrittenInv, Slot
    <3>4. PopInv'
      BY <1>6 DEF PopAdvance, PopInv
    <3> QED BY <3>1, <3>2, <3>3, <3>4
  <2>5. CounterInv'
    <3>1. front + 1 \in Int /\ n - 1 \in Int
      BY <1>t
    <3>2. (((front + 1) % M) + (n - 1)) % M = ((front + 1) + (n - 1)) % M
      BY <3>1, WrapTwice, Zenon
    <3>3. (front + 1) + (n - 1) = front + n
      BY <1>t
    <3>4. /\ tail = (front + n) % M /\ n <= Size
          /\ tail' = tail /\ front' = (front + 1) % M
      BY <1>6 DEF PopAdvance, consOnly, QueueInv, CounterInv
    <3>5. tail' = (front' + (n - 1)) % M
      BY <3>2, <3>3, <3>4, Zenon
    <3>6. n - 1 <= Size
      BY <1>t, <3>4
    <3> QED BY <2>2, <3>5, <3>6 DEF CounterInv
  <2>6. FillInv'
    <3> SUFFICES ASSUME pcProd = "fill", n - 1 > 0
                 PROVE  index = Slot(front' + (n - 1) - 1) /\ fifo'[n - 1] = arg
      BY <1>6, <2>2 DEF PopAdvance, consOnly, FillInv, Slot
    <3>1. index = Slot(front + n - 1) /\ fifo[n] = arg
      BY <2>1 DEF QueueInv, FillInv
    <3>2. Slot(front' + (n - 2)) = Slot(front + 1 + (n - 2))
      BY <1>t, <2>3
    <3>3. front + 1 + (n - 2) = front + n - 1 /\ front' + (n - 1) - 1 = front' + (n - 2)
      BY <1>6, <1>t, <1>s DEF PopAdvance
    <3> QED BY <1>t, <2>2, <3>1, <3>2, <3>3
  <2>7. QueuedEventsIntact'
    <3> SUFFICES ASSUME NEW i \in 1 .. n - 1
                 PROVE  i \in Unwritten' \/ queue[Slot(front' + i - 1)] = fifo[i + 1]
      BY <1>6, <2>2 DEF PopAdvance, consOnly, QueuedEventsIntact, Slot
    <3>1. i + 1 \in Unwritten \/ queue[Slot(front + (i + 1) - 1)] = fifo[i + 1]
      BY <1>t DEF QueueInv, QueuedEventsIntact
    <3>2. i + 1 \in Unwritten => i \in Unwritten'
      BY <1>6, <1>t, <2>2 DEF PopAdvance, consOnly, Unwritten
    <3>3. Slot(front' + (i - 1)) = Slot(front + 1 + (i - 1))
      BY <1>t, <2>3
    <3>4. front + 1 + (i - 1) = front + (i + 1) - 1 /\ front' + i - 1 = front' + (i - 1)
      BY <1>6, <1>t, <1>s DEF PopAdvance
    <3> QED BY <3>1, <3>2, <3>3, <3>4
  <2> QED BY <2>4, <2>5, <2>6, <2>7 DEF QueueInv
<1>7. ASSUME UNCHANGED vars PROVE QueueInv'
  BY <1>7 DEF vars, QueueInv, TypeOK, CounterInv, RoomInv, ArgInv, WrittenInv, FillInv,
     PopInv, QueuedEventsIntact, Unwritten, Slot
<1> QED
  BY <1>1, <1>2, <1>3, <1>4, <1>5, <1>6, <1>7 DEF Next, Producer, Consumer

(***************************************************************************)
(* The theorems.                                                           *)
(***************************************************************************)
LEMMA QueueInvariant == Spec => []QueueInv
<1>1. QueueInv /\ [Next]_vars => QueueInv'
  BY NextQueueInv
<1> QED BY InitQueueInv, <1>1, PTL DEF Spec

\* Every variable of the queue keeps its type: no slot outside the array is used.
THEOREM QueueTypeCorrect == Spec => []TypeOK
<1>1. QueueInv => TypeOK
  BY DEF QueueInv
<1> QED BY QueueInvariant, <1>1, PTL

\* `_tail - _front` is the number of queued events and at most _size, however often the
\* counters have wrapped.
THEOREM CountersAlwaysTell == Spec => []CountersTell
<1>1. QueueInv => CountersTell
  BY CountIsLen DEF QueueInv, CounterInv, CountersTell
<1> QED BY QueueInvariant, <1>1, PTL

\* No push, by Push or TryPush, overwrites an event that waits in the queue.
THEOREM QueuedEventsStayIntact == Spec => []QueuedEventsIntact
<1>1. QueueInv => QueuedEventsIntact
  BY DEF QueueInv
<1> QED BY QueueInvariant, <1>1, PTL

\* Push never writes the slot that Pop reads.
THEOREM PushNeverRaces == Spec => []NoSlotRace
<1>1. QueueInv => NoSlotRace
  <2> SUFFICES ASSUME QueueInv, pcProd = "write", pcCons = "read"
               PROVE  Slot(tail) # Slot(front)
    BY DEF NoSlotRace
  <2>1. /\ Len(fifo) \in 1 .. Size - 1 /\ front \in Int
        /\ Size \in Nat \ {0} /\ M \in Nat \ {0}
    BY CountIsLen, SizeFits DEF QueueInv, TypeOK, RoomInv, PopInv
  <2>2. PICK x \in Int : x = front + Len(fifo)
    BY <2>1
  <2>3. Slot((x % M) + 0) = Slot(x + 0)
    <3> 0 \in Int
      OBVIOUS
    <3> QED BY SlotWrap, Zenon
  <2>4. tail = x % M /\ tail + 0 = tail /\ x + 0 = x
    BY <2>1, <2>2 DEF QueueInv, TypeOK, CounterInv
  <2>5. Slot(x) # Slot(front)
    BY <2>1, <2>2, ModDistinct DEF Slot
  <2> QED BY <2>3, <2>4, <2>5
<1> QED BY QueueInvariant, <1>1, PTL

(***************************************************************************)
(* A producer that only uses Push never makes an event visible before it   *)
(* is written, so what Pop has read is the oldest event.                   *)
(***************************************************************************)
PushInv == QueueInv /\ PopsTheOldest /\ pcProd \in {"idle", "write", "advance"}

\* Where the producer only uses Push, Pop hands out the oldest event: none twice, none
\* before it was sent.
THEOREM PushDeliversInOrder == PushSpec => []PopsTheOldest
<1>1. Init => PushInv
  BY InitQueueInv DEF Init, PushInv, PopsTheOldest
<1>2. PushInv /\ [Push \/ PushWrite \/ PushAdvance \/ Consumer]_vars => PushInv'
  <2> SUFFICES ASSUME PushInv, [Push \/ PushWrite \/ PushAdvance \/ Consumer]_vars
               PROVE  PushInv'
    OBVIOUS
  <2>1. QueueInv'
    BY NextQueueInv DEF PushInv, Next, Producer
  <2>2. pcProd' \in {"idle", "write", "advance"}
    BY DEF PushInv, Push, PushWrite, PushAdvance, Consumer, Pop, PopRead, PopAdvance,
       consOnly, vars
  <2>3. ASSUME Push \/ PushWrite \/ Pop \/ PopAdvance \/ UNCHANGED vars
        PROVE  PopsTheOldest'
    BY <2>3 DEF PushInv, PopsTheOldest, Push, PushWrite, Pop, PopAdvance, prodOnly, vars
  <2>4. ASSUME PushAdvance PROVE PopsTheOldest'
    <3>1. pcCons = "advance" => Len(fifo) > 0
      BY DEF PushInv, QueueInv, PopInv
    <3>2. fifo \in Seq(Events) /\ arg \in Events
      BY <2>4 DEF PushAdvance, PushInv, QueueInv, TypeOK, ArgInv
    <3>3. Len(fifo) > 0 => Head(Append(fifo, arg)) = Head(fifo)
      BY <3>2
    <3> QED BY <2>4, <3>1, <3>3 DEF PushAdvance, prodOnly, PushInv, PopsTheOldest
  <2>5. ASSUME PopRead PROVE PopsTheOldest'
    <3>1. fifo \in Seq(Events) /\ Len(fifo) > 0 /\ front \in Int
      BY <2>5 DEF PopRead, PushInv, QueueInv, TypeOK, PopInv
    <3>2. queue[Slot(front + 1 - 1)] = fifo[1]
      BY <3>1 DEF PushInv, QueueInv, QueuedEventsIntact, Unwritten
    <3>3. front + 1 - 1 = front /\ Head(fifo) = fifo[1]
      BY <3>1
    <3> QED BY <2>5, <3>2, <3>3 DEF PopRead, PopsTheOldest
  <2> QED BY <2>1, <2>2, <2>3, <2>4, <2>5 DEF PushInv, Consumer
<1>3. PushInv => PopsTheOldest
  BY DEF PushInv
<1> QED BY <1>1, <1>2, <1>3, PTL DEF PushSpec

(***************************************************************************)
(* NetListener.                                                            *)
(***************************************************************************)
\* What NetListener assumes of the names of its sessions and peers.
ListenerNames == /\ Sessions \cap Peers = {}
                 /\ {None, Listener} \cap (Sessions \cup Peers) = {}
                 /\ None # Listener /\ None \notin Fds

\* It holds, as the module assumes.
LEMMA ListenerNamesHold == ListenerNames
  BY NamesAssumption DEF ListenerNames

(***************************************************************************)
(* The inductive invariant.                                                *)
(***************************************************************************)
\* The outcomes of a connect that is over, what a session may be told, and all outcomes.
FinalOutcomes == {"connected", "failed", "timeout"}
Callbacks == {"none", "connected", "failed", "error", "closed"}
Outcomes == {"none", "trying", "connected", "failed", "timeout", "denied"}

Evt == [opt : {"accept", "add", "remove"}, who : Things \cup {None}, fd : Fds]

\* Every variable has its type, while no session was displaced.
ListenerTypes ==
  /\ owner \in [Fds -> Things \cup {None}]
  /\ connectMap \in [Fds -> Sessions \cup {None}]
  /\ threadQ \in Seq(Fds)
  /\ mainQ \in Seq(Evt)
  /\ sockets \in [Fds -> Int]
  /\ todo \subseteq Fds /\ dels \subseteq Fds
  /\ outcome \in [Sessions -> Outcomes]
  /\ told \in [Sessions \cup Peers -> Callbacks]

\* The thread will add descriptor f, has it in its array and keeps it, or either.
Queued(f) == \E i \in DOMAIN threadQ : threadQ[i] = f
Watched(f) == f \in Table /\ f \notin dels
Active(f) == Queued(f) \/ Watched(f)

\* Round: what it has still to look at is in the array; nobody is added twice.
RoundInv == /\ \A f \in todo : Watched(f)
            /\ \A i, j \in DOMAIN threadQ : threadQ[i] = threadQ[j] => i = j
            /\ \A f \in Fds : Queued(f) => ~Watched(f)

\* A descriptor that the thread has or will have is a listener, or that of a session whose
\* connect is not over and which _connectSockMap has under it.
ActiveInv ==
  \A f \in Fds : Active(f) /\ owner[f] # Listener =>
    owner[f] \in Sessions /\ outcome[owner[f]] = "trying" /\ connectMap[f] = owner[f]

\* A session in _connectSockMap is there once, and was told nothing yet.
MapInv ==
  /\ \A f \in Fds : connectMap[f] # None =>
       told[connectMap[f]] = "none" /\ outcome[connectMap[f]] \in FinalOutcomes \cup {"trying"}
  /\ \A f, g \in Fds : connectMap[f] # None /\ connectMap[f] = connectMap[g] => f = g

\* What an event in the queue says is so.
Sound(evt) ==
  /\ evt.opt = "accept" =>
       evt.who \in Peers /\ owner[evt.fd] = evt.who /\ told[evt.who] = "none"
  /\ evt.opt # "accept" => evt.who \in Sessions /\ connectMap[evt.fd] = evt.who
  /\ evt.opt = "add" => outcome[evt.who] = "connected" /\ owner[evt.fd] = evt.who
  /\ evt.opt = "remove" => outcome[evt.who] \in {"failed", "timeout"}

\* The events are sound, and nobody has two.
EventInv ==
  /\ \A i \in DOMAIN mainQ : Sound(mainQ[i])
  /\ \A i, j \in DOMAIN mainQ : mainQ[i].who = mainQ[j].who => i = j

\* What a session was told is so.
Heard(s) ==
  /\ told[s] # "none" => outcome[s] \notin {"none", "trying"}
  /\ told[s] = "connected" => outcome[s] = "connected" /\ \E f \in Fds : owner[f] = s
  /\ told[s] = "failed" => outcome[s] \in {"failed", "timeout"}

\* The same of every session.
ToldInv == \A s \in Sessions : Heard(s)

\* The inductive invariant, apart from the types.
ListenerGood == RoundInv /\ ActiveInv /\ MapInv /\ EventInv /\ ToldInv

\* It holds at first.
LEMMA InitListener ==
  ASSUME ListenerNames, ListenerInit PROVE ListenerTypes /\ ListenerGood
<1>1. ListenerTypes
  BY DEF ListenerInit, ListenerTypes, Things, Callbacks, Outcomes
<1>2. threadQ = <<>> /\ mainQ = <<>> /\ Table = {} /\ todo = {}
  BY DEF ListenerInit, Table
<1>3. RoundInv
  BY <1>2 DEF RoundInv, Queued, Watched
<1>4. ActiveInv
  BY <1>2 DEF ActiveInv, Active, Queued, Watched
<1>5. MapInv
  BY DEF ListenerInit, MapInv
<1>6. EventInv
  BY <1>2 DEF EventInv
<1>7. ToldInv
  BY DEF ListenerInit, ToldInv, Heard
<1>8. QED
  BY <1>1, <1>3, <1>4, <1>5, <1>6, <1>7 DEF ListenerGood

\* The elements of a sequence that one was appended to.
LEMMA AppendFacts ==
  ASSUME NEW S, NEW q \in Seq(S), NEW x \in S, NEW r, r = Append(q, x)
  PROVE  /\ r \in Seq(S)
         /\ \A i \in DOMAIN q : i \in DOMAIN r /\ r[i] = q[i]
         /\ Len(q) + 1 \in DOMAIN r /\ r[Len(q) + 1] = x
         /\ \A i \in DOMAIN r : i \in DOMAIN q \/ (i = Len(q) + 1 /\ r[i] = x)
  OBVIOUS

\* And of one that lost its first.
LEMMA TailFacts ==
  ASSUME NEW S, NEW q \in Seq(S), q # <<>>, NEW r, r = Tail(q)
  PROVE  /\ r \in Seq(S) /\ 1 \in DOMAIN q /\ Head(q) = q[1]
         /\ \A i \in DOMAIN r : i \in Nat /\ i # 0 /\ i + 1 \in DOMAIN q /\ r[i] = q[i + 1]
  OBVIOUS

\* A free descriptor is neither queued for the thread nor in its array.
LEMMA FreeIsNotActive ==
  ASSUME ListenerNames, ListenerTypes, ListenerGood, NEW f \in Fds, owner[f] = None
  PROVE  ~Active(f)
  BY DEF ListenerNames, ListenerGood, ActiveInv

\* The thread is told of a descriptor that it does not have.
LEMMA QueueOne ==
  ASSUME ListenerTypes, RoundInv, NEW f \in Fds, ~Active(f), threadQ' = Append(threadQ, f),
         UNCHANGED thread
  PROVE  RoundInv' /\ \A g \in Fds : Active(g)' => Active(g) \/ g = f
<1>1. threadQ \in Seq(Fds)
  BY DEF ListenerTypes
<1>2. PICK q : q = threadQ
  OBVIOUS
<1>3. PICK r : r = threadQ'
  OBVIOUS
<1>4. /\ \A i \in DOMAIN q : i \in DOMAIN r /\ r[i] = q[i]
      /\ \A i \in DOMAIN r : i \in DOMAIN q \/ (i = Len(q) + 1 /\ r[i] = f)
  BY <1>1, <1>2, <1>3, AppendFacts
<1>5. \A i \in DOMAIN q : q[i] # f
  BY <1>2 DEF Active, Queued
<1>6. \A g \in Fds : Watched(g)' <=> Watched(g)
  BY DEF Watched, Table, thread
<1>7. \A g \in Fds : Queued(g)' => Queued(g) \/ g = f
  BY <1>2, <1>3, <1>4 DEF Queued
<1>8. \A i, j \in DOMAIN r : r[i] = r[j] => i = j
  BY <1>2, <1>4, <1>5 DEF RoundInv
<1>9. RoundInv'
  <2>1. \A g \in todo' : Watched(g)'
    BY <1>6 DEF RoundInv, thread, ListenerTypes
  <2>2. \A g \in Fds : Queued(g)' => ~Watched(g)'
    BY <1>6, <1>7 DEF RoundInv, Active
  <2>3. QED
    BY <1>3, <1>8, <2>1, <2>2 DEF RoundInv
<1>10. QED
  BY <1>6, <1>7, <1>9 DEF Active

\* The events that stay in the queue stay sound.
LEMMA EventsFrame ==
  ASSUME ListenerTypes, EventInv, mainQ' = mainQ, \A evt \in Evt : Sound(evt) => Sound(evt)'
  PROVE  EventInv'
<1>1. \A i \in DOMAIN mainQ : mainQ[i] \in Evt
  BY DEF ListenerTypes
<1>2. ASSUME NEW i \in DOMAIN mainQ' PROVE Sound(mainQ[i])'
  <2>1. PICK evt \in Evt : evt = mainQ[i]
    BY <1>1
  <2>2. Sound(evt)'
    BY <2>1 DEF EventInv
  <2>3. evt = mainQ'[i]
    BY <2>1
  <2>4. QED
    BY <2>2, <2>3 DEF Sound
<1>3. QED
  BY <1>2 DEF EventInv

\* Handling the first event leaves the others sound.
LEMMA EventsTail ==
  ASSUME ListenerTypes, EventInv, mainQ # <<>>, mainQ' = Tail(mainQ), NEW x, x = Head(mainQ).who,
         \A evt \in Evt : Sound(evt) /\ evt.who # x => Sound(evt)'
  PROVE  EventInv'
<1>1. \A i \in DOMAIN mainQ : mainQ[i] \in Evt
  BY DEF ListenerTypes
<1>2. /\ 1 \in DOMAIN mainQ /\ Head(mainQ) = mainQ[1]
      /\ \A i \in DOMAIN mainQ' : /\ i \in Nat /\ i # 0 /\ i + 1 \in DOMAIN mainQ
                                  /\ mainQ'[i] = mainQ[i + 1]
  <2>1. PICK q \in Seq(Evt) : q = mainQ
    BY DEF ListenerTypes
  <2>2. PICK r : r = Tail(q)
    OBVIOUS
  <2>3. /\ 1 \in DOMAIN q /\ Head(q) = q[1]
        /\ \A i \in DOMAIN r : i \in Nat /\ i # 0 /\ i + 1 \in DOMAIN q /\ r[i] = q[i + 1]
    BY <2>1, <2>2, TailFacts
  <2>4. QED
    BY <2>1, <2>2, <2>3
<1>3. ASSUME NEW i \in DOMAIN mainQ' PROVE Sound(mainQ[i])'
  <2>1. i \in Nat /\ i # 0 /\ i + 1 \in DOMAIN mainQ /\ mainQ'[i] = mainQ[i + 1]
    BY <1>2
  <2>2. PICK evt \in Evt : evt = mainQ[i + 1]
    BY <1>1, <2>1
  <2>3. evt.who # x
    <3>1. i + 1 # 1
      BY <2>1
    <3>2. QED
      BY <1>2, <2>1, <2>2, <3>1 DEF EventInv
  <2>4. Sound(evt)'
    BY <2>1, <2>2, <2>3 DEF EventInv
  <2>5. evt = mainQ'[i]
    BY <2>1, <2>2
  <2>6. QED
    BY <2>4, <2>5 DEF Sound
<1>4. ASSUME NEW i \in DOMAIN mainQ', NEW j \in DOMAIN mainQ', mainQ'[i].who = mainQ'[j].who
      PROVE  i = j
  <2>1. i \in Nat /\ j \in Nat /\ i + 1 = j + 1
    BY <1>2, <1>4 DEF EventInv
  <2>2. QED
    BY <2>1
<1>5. QED
  BY <1>3, <1>4 DEF EventInv

\* A sound event of somebody who has none is appended.
LEMMA EventsAppend ==
  ASSUME ListenerTypes, EventInv, NEW e \in Evt, mainQ' = Append(mainQ, e), Sound(e)',
         \A evt \in Evt : Sound(evt) => evt.who # e.who /\ Sound(evt)'
  PROVE  EventInv'
<1>1. PICK q \in Seq(Evt) : q = mainQ
  BY DEF ListenerTypes
<1>2. PICK r : r = mainQ'
  OBVIOUS
<1>3. /\ \A i \in DOMAIN q : q[i] \in Evt
      /\ \A i \in DOMAIN r : (i \in DOMAIN q /\ r[i] = q[i]) \/ (i = Len(q) + 1 /\ r[i] = e)
  BY <1>1, <1>2, AppendFacts
<1>4. ASSUME NEW i \in DOMAIN r PROVE Sound(mainQ[i])'
  <2>1. CASE r[i] = e
    BY <1>2, <2>1 DEF Sound
  <2>2. CASE i \in DOMAIN q /\ r[i] = q[i]
    <3>1. PICK evt \in Evt : evt = q[i]
      BY <1>3, <2>2
    <3>2. Sound(evt)'
      BY <1>1, <2>2, <3>1 DEF EventInv
    <3>3. evt = mainQ'[i]
      BY <1>2, <2>2, <3>1
    <3>4. QED
      BY <3>2, <3>3 DEF Sound
  <2>3. QED
    BY <1>3, <2>1, <2>2
<1>5. \A i \in DOMAIN q : q[i].who # e.who
  BY <1>1, <1>3 DEF EventInv
<1>6. \A i, j \in DOMAIN r : r[i].who = r[j].who => i = j
  BY <1>1, <1>3, <1>5 DEF EventInv
<1>7. QED
  BY <1>2, <1>4, <1>6 DEF EventInv

\* Steps that leave the thread's queue and its round alone.
LEMMA RoundFrame ==
  ASSUME RoundInv, UNCHANGED <<threadQ, thread>>
  PROVE  RoundInv' /\ \A g \in Fds : Active(g)' <=> Active(g)
  BY DEF RoundInv, Active, Queued, Watched, Table, thread

(***************************************************************************)
(* The main thread.                                                        *)
(***************************************************************************)
LEMMA CreateNetListenerKeeps ==
  ASSUME ListenerNames, ListenerTypes, ListenerGood, NEW f \in Fds, CreateNetListener(f)
  PROVE  ListenerTypes' /\ ListenerGood'
<1>1. ~Active(f)
  BY FreeIsNotActive DEF CreateNetListener, Free
<1>2. RoundInv' /\ \A g \in Fds : Active(g)' => Active(g) \/ g = f
  BY <1>1, QueueOne DEF ListenerGood, CreateNetListener
<1>3. owner' = [owner EXCEPT ![f] = Listener] /\ owner[f] = None
  BY DEF CreateNetListener, Free
<1>4. ListenerTypes'
  BY DEF CreateNetListener, ListenerTypes, Things, thread
<1>5. ActiveInv'
  BY <1>2, <1>3 DEF ListenerGood, ActiveInv, ListenerTypes, CreateNetListener
<1>6. MapInv'
  BY DEF ListenerGood, MapInv, CreateNetListener
<1>7. EventInv'
  <2>1. \A evt \in Evt : Sound(evt) => Sound(evt)'
    BY <1>3 DEF Sound, Evt, ListenerTypes, ListenerNames, CreateNetListener
  <2>2. QED
    BY <2>1, EventsFrame DEF ListenerGood, CreateNetListener
<1>8. ToldInv'
  BY <1>3 DEF ListenerGood, ToldInv, Heard, ListenerTypes, ListenerNames, CreateNetListener
<1>9. QED
  BY <1>2, <1>4, <1>5, <1>6, <1>7, <1>8 DEF ListenerGood

LEMMA CreateNetConnecterKeeps ==
  ASSUME ListenerNames, ListenerTypes, ListenerGood, NEW s \in Sessions, NEW f \in Fds,
         CreateNetConnecter(s, f),
         connectMap[f] = None
  PROVE  ListenerTypes' /\ ListenerGood'
<1>1. ~Active(f)
  BY FreeIsNotActive DEF CreateNetConnecter, Free
<1>2. RoundInv' /\ \A g \in Fds : Active(g)' => Active(g) \/ g = f
  BY <1>1, QueueOne DEF ListenerGood, CreateNetConnecter
<1>3. /\ owner' = [owner EXCEPT ![f] = s] /\ owner[f] = None
      /\ outcome' = [outcome EXCEPT ![s] = "trying"] /\ outcome[s] = "none"
      /\ connectMap' = [connectMap EXCEPT ![f] = s] /\ told' = told /\ mainQ' = mainQ
  BY DEF CreateNetConnecter, Free, Emplace
<1>4. ListenerTypes'
  BY <1>3 DEF CreateNetConnecter, ListenerTypes, Things, Outcomes, thread
<1>5. told[s] = "none"
  BY <1>3 DEF ListenerGood, ToldInv, Heard
<1>6. \A g \in Fds : connectMap[g] # s
  BY <1>3 DEF ListenerGood, MapInv, ListenerNames, FinalOutcomes
<1>7. ActiveInv'
  BY <1>2, <1>3 DEF ListenerGood, ActiveInv, ListenerTypes
<1>8. MapInv'
  <2>1. ASSUME NEW g \in Fds, connectMap'[g] # None
        PROVE  told'[connectMap'[g]] = "none" /\ outcome'[connectMap'[g]] \in FinalOutcomes \cup {"trying"}
    <3>1. CASE g = f
      BY <1>3, <1>5, <3>1 DEF ListenerTypes
    <3>2. CASE g # f
      <4>1. connectMap'[g] = connectMap[g] /\ connectMap[g] # s /\ connectMap[g] \in Sessions
        BY <1>3, <1>6, <2>1, <3>2 DEF ListenerTypes
      <4>2. told[connectMap[g]] = "none" /\ outcome[connectMap[g]] \in FinalOutcomes \cup {"trying"}
        BY <2>1, <4>1 DEF ListenerGood, MapInv
      <4>3. QED
        BY <1>3, <4>1, <4>2 DEF ListenerTypes
    <3>3. QED
      BY <3>1, <3>2
  <2>2. \A g, h \in Fds : connectMap'[g] # None /\ connectMap'[g] = connectMap'[h] => g = h
    BY <1>3, <1>6 DEF ListenerGood, MapInv, ListenerTypes
  <2>3. QED
    BY <2>1, <2>2 DEF MapInv
<1>9. EventInv'
  <2>1. \A evt \in Evt : Sound(evt) => Sound(evt)'
    BY <1>3 DEF Sound, Evt, ListenerTypes, ListenerNames
  <2>2. QED
    BY <1>3, <2>1, EventsFrame DEF ListenerGood
<1>10. ToldInv'
  <2>1. \A z \in Sessions, g \in Fds : owner[g] = z => owner'[g] = z
    BY <1>3 DEF ListenerTypes, ListenerNames
  <2>2. \A z \in Sessions : z # s => told'[z] = told[z] /\ outcome'[z] = outcome[z]
    BY <1>3 DEF ListenerTypes
  <2>3. told'[s] = "none"
    BY <1>3, <1>5
  <2>4. QED
    BY <2>1, <2>2, <2>3 DEF ListenerGood, ToldInv, Heard
<1>11. QED
  BY <1>2, <1>4, <1>7, <1>8, <1>9, <1>10 DEF ListenerGood

LEMMA ConnectAtOnceKeeps ==
  ASSUME ListenerNames, ListenerTypes, ListenerGood, NEW s \in Sessions, NEW f \in Fds,
         ConnectAtOnce(s, f)
  PROVE  ListenerTypes' /\ ListenerGood'
<1>1. ~Active(f)
  BY FreeIsNotActive DEF ConnectAtOnce, Free
<1>2. RoundInv' /\ \A g \in Fds : Active(g)' <=> Active(g)
  BY RoundFrame DEF ListenerGood, ConnectAtOnce
<1>3. PICK o \in {"denied", "connected"}, c \in {"error", "connected"} :
        /\ owner' = [owner EXCEPT ![f] = s] /\ owner[f] = None
        /\ outcome' = [outcome EXCEPT ![s] = o] /\ outcome[s] = "none"
        /\ told' = [told EXCEPT ![s] = c] /\ (c = "connected" => o = "connected")
        /\ connectMap' = connectMap /\ mainQ' = mainQ
  BY DEF ConnectAtOnce, Free
<1>4. ListenerTypes'
  BY <1>3 DEF ConnectAtOnce, ListenerTypes, Things, Outcomes, Callbacks, thread
<1>5. \A g \in Fds : connectMap[g] # s
  BY <1>3 DEF ListenerGood, MapInv, ListenerNames, FinalOutcomes
<1>6. ActiveInv'
  BY <1>1, <1>2, <1>3 DEF ListenerGood, ActiveInv, ListenerTypes
<1>7. MapInv'
  BY <1>3, <1>5 DEF ListenerGood, MapInv, ListenerTypes
<1>8. EventInv'
  <2>1. ASSUME NEW evt \in Evt, Sound(evt) PROVE Sound(evt)'
    <3>1. evt.who # s /\ (evt.opt # "remove" => evt.fd # f)
      BY <1>3, <2>1 DEF Sound, ListenerNames, Evt
    <3>2. QED
      BY <1>3, <2>1, <3>1 DEF Sound, Evt, ListenerTypes
  <2>2. QED
    BY <1>3, <2>1, EventsFrame DEF ListenerGood
<1>9. ToldInv'
  <2>1. ASSUME NEW z \in Sessions
        PROVE  Heard(z)'
    <3>1. CASE z = s
      <4>1. told'[z] = c /\ outcome'[z] = o /\ owner'[f] = z
        BY <1>3, <3>1 DEF ListenerTypes
      <4>2. QED
        BY <1>3, <4>1 DEF Heard
    <3>2. CASE z # s
      <4>1. told'[z] = told[z] /\ outcome'[z] = outcome[z]
        BY <1>3, <3>2 DEF ListenerTypes
      <4>2. \A g \in Fds : owner[g] = z => owner'[g] = z
        BY <1>3 DEF ListenerTypes, ListenerNames
      <4>3. QED
        BY <4>1, <4>2 DEF ListenerGood, ToldInv, Heard
    <3>3. QED
      BY <3>1, <3>2
  <2>2. QED
    BY <2>1 DEF ToldInv
<1>10. QED
  BY <1>2, <1>4, <1>6, <1>7, <1>8, <1>9 DEF ListenerGood

LEMMA ConnectNoSocketKeeps ==
  ASSUME ListenerNames, ListenerTypes, ListenerGood, NEW s \in Sessions, ConnectNoSocket(s)
  PROVE  ListenerTypes' /\ ListenerGood'
<1>1. RoundInv' /\ \A g \in Fds : Active(g)' <=> Active(g)
  BY RoundFrame DEF ListenerGood, ConnectNoSocket
<1>2. ListenerTypes'
  BY DEF ConnectNoSocket, ListenerTypes, Outcomes, thread
<1>3. ActiveInv'
  BY <1>1 DEF ListenerGood, ActiveInv, ListenerTypes, ConnectNoSocket
<1>4. MapInv'
  BY DEF ListenerGood, MapInv, ListenerTypes, FinalOutcomes, ConnectNoSocket
<1>5. EventInv'
  <2>1. \A evt \in Evt : Sound(evt) => Sound(evt)'
    BY DEF Sound, Evt, ListenerTypes, ConnectNoSocket
  <2>2. QED
    BY <2>1, EventsFrame DEF ListenerGood, ConnectNoSocket
<1>6. ToldInv'
  BY DEF ListenerGood, ToldInv, Heard, ListenerTypes, ConnectNoSocket
<1>7. QED
  BY <1>1, <1>2, <1>3, <1>4, <1>5, <1>6 DEF ListenerGood

LEMMA OnAcceptKeeps ==
  ASSUME ListenerNames, ListenerTypes, ListenerGood, OnAccept
  PROVE  ListenerTypes' /\ ListenerGood'
<1>1. RoundInv' /\ \A g \in Fds : Active(g)' <=> Active(g)
  BY RoundFrame DEF ListenerGood, OnAccept
<1>2. PICK e \in Evt : e = Head(mainQ) /\ Sound(e)
  <2>1. 1 \in DOMAIN mainQ /\ Head(mainQ) = mainQ[1]
    BY DEF OnAccept, PopEvent, ListenerTypes
  <2>2. QED
    BY <2>1 DEF ListenerGood, EventInv, ListenerTypes
<1>3. /\ e.opt = "accept" /\ mainQ # <<>> /\ mainQ' = Tail(mainQ)
      /\ connectMap' = connectMap /\ outcome' = outcome
  BY <1>2 DEF OnAccept, PopEvent
<1>4. PICK p \in Peers : p = e.who /\ told[p] = "none" /\ owner[e.fd] = p
  BY <1>2, <1>3 DEF Sound
<1>5. PICK c \in {"connected", "closed"} :
        /\ told' = [told EXCEPT ![p] = c]
        /\ owner' = owner \/ owner' = [owner EXCEPT ![e.fd] = None]
  BY <1>2, <1>4 DEF OnAccept
<1>6. ListenerTypes'
  <2>1. mainQ' \in Seq(Evt)
    BY <1>3 DEF ListenerTypes
  <2>2. owner' \in [Fds -> Things \cup {None}]
    BY <1>5 DEF ListenerTypes
  <2>3. told' \in [Sessions \cup Peers -> Callbacks]
    BY <1>5 DEF ListenerTypes, Callbacks
  <2>4. QED
    BY <1>3, <2>1, <2>2, <2>3 DEF ListenerTypes, OnAccept, thread
<1>7. ASSUME NEW g \in Fds, owner[g] # p PROVE owner'[g] = owner[g]
  BY <1>4, <1>5, <1>7 DEF ListenerTypes, Evt
<1>8. \A s \in Sessions : told'[s] = told[s] /\ p # s
  BY <1>5 DEF ListenerTypes, ListenerNames
<1>9. ActiveInv'
  <2>1. ASSUME NEW g \in Fds, Active(g) PROVE owner'[g] = owner[g]
    <3>1. owner[g] # p
      BY <2>1 DEF ListenerGood, ActiveInv, ListenerNames
    <3>2. QED
      BY <1>7, <3>1
  <2>2. QED
    BY <1>1, <1>3, <2>1 DEF ListenerGood, ActiveInv
<1>10. MapInv'
  BY <1>3, <1>8 DEF ListenerGood, MapInv, ListenerTypes
<1>11. EventInv'
  <2>1. ASSUME NEW evt \in Evt, Sound(evt), evt.who # p PROVE Sound(evt)'
    <3>1. evt.opt # "remove" => owner'[evt.fd] = owner[evt.fd]
      BY <1>7, <2>1 DEF Sound, Evt
    <3>2. evt.opt = "accept" => told'[evt.who] = told[evt.who]
      BY <1>5, <2>1 DEF Sound, ListenerTypes
    <3>3. QED
      BY <1>3, <2>1, <3>1, <3>2 DEF Sound, Evt
  <2>2. QED
    BY <1>2, <1>3, <1>4, <2>1, EventsTail DEF ListenerGood
<1>12. ToldInv'
  <2>1. \A s \in Sessions, g \in Fds : owner[g] = s => owner'[g] = s
    BY <1>7, <1>8
  <2>2. QED
    BY <1>3, <1>8, <2>1 DEF ListenerGood, ToldInv, Heard
<1>13. QED
  BY <1>1, <1>6, <1>9, <1>10, <1>11, <1>12 DEF ListenerGood

LEMMA AnswerKeeps ==
  ASSUME ListenerNames, ListenerTypes, ListenerGood, NEW opt, NEW call, Answer(opt, call),
         opt \in {"add", "remove"}, call = IF opt = "add" THEN "connected" ELSE "failed"
  PROVE  ListenerTypes' /\ ListenerGood'
<1>1. RoundInv' /\ \A g \in Fds : Active(g)' <=> Active(g)
  BY RoundFrame DEF ListenerGood, Answer
<1>2. PICK e \in Evt : e = Head(mainQ) /\ Sound(e)
  <2>1. 1 \in DOMAIN mainQ /\ Head(mainQ) = mainQ[1]
    BY DEF Answer, PopEvent, ListenerTypes
  <2>2. QED
    BY <2>1 DEF ListenerGood, EventInv, ListenerTypes
<1>3. PICK f \in Fds : f = e.fd
  BY DEF Evt
<1>4. /\ e.opt = opt /\ mainQ # <<>> /\ mainQ' = Tail(mainQ)
      /\ owner' = owner /\ outcome' = outcome
  BY <1>2 DEF Answer, PopEvent
<1>5. PICK s \in Sessions : s = e.who /\ connectMap[f] = s
  BY <1>2, <1>3, <1>4 DEF Sound
<1>6. /\ opt = "add" => outcome[s] = "connected" /\ owner[f] = s
      /\ opt = "remove" => outcome[s] \in {"failed", "timeout"}
  BY <1>2, <1>3, <1>4, <1>5 DEF Sound
<1>7. told' = [told EXCEPT ![s] = call] /\ connectMap' = [connectMap EXCEPT ![f] = None]
  <2>1. connectMap[f] # None
    BY <1>5 DEF ListenerNames
  <2>2. QED
    BY <1>2, <1>3, <1>5, <2>1 DEF Answer
<1>8. ListenerTypes'
  <2>1. mainQ' \in Seq(Evt)
    BY <1>4 DEF ListenerTypes
  <2>2. connectMap' \in [Fds -> Sessions \cup {None}]
    BY <1>7 DEF ListenerTypes
  <2>3. told' \in [Sessions \cup Peers -> Callbacks]
    BY <1>7 DEF ListenerTypes, Callbacks
  <2>4. QED
    BY <1>4, <2>1, <2>2, <2>3 DEF ListenerTypes, Answer, thread
<1>9. ActiveInv'
  <2>1. ASSUME NEW g \in Fds, Active(g), owner[g] # Listener PROVE g # f
    BY <1>5, <1>6, <2>1 DEF ListenerGood, ActiveInv
  <2>2. ASSUME NEW g \in Fds, Active(g), owner[g] # Listener PROVE connectMap'[g] = connectMap[g]
    BY <1>7, <2>1, <2>2 DEF ListenerTypes
  <2>3. QED
    BY <1>1, <1>4, <2>2 DEF ListenerGood, ActiveInv
<1>10. \A g \in Fds : /\ connectMap'[g] # None => connectMap'[g] = connectMap[g]
                      /\ connectMap'[g] # s
  BY <1>5, <1>7 DEF ListenerGood, MapInv, ListenerTypes, ListenerNames
<1>11. MapInv'
  <2>1. ASSUME NEW g \in Fds, connectMap'[g] # None
        PROVE  told'[connectMap'[g]] = "none" /\ outcome'[connectMap'[g]] \in FinalOutcomes \cup {"trying"}
    <3>1. PICK z \in Sessions : z = connectMap[g] /\ z = connectMap'[g] /\ z # s
      BY <1>10, <2>1 DEF ListenerTypes
    <3>2. z # None
      BY DEF ListenerNames
    <3>3. told[z] = "none" /\ outcome[z] \in FinalOutcomes \cup {"trying"}
      BY <3>1, <3>2 DEF ListenerGood, MapInv
    <3>4. told'[z] = told[z]
      BY <1>7, <3>1 DEF ListenerTypes
    <3>5. QED
      BY <1>4, <3>1, <3>3, <3>4
  <2>2. \A g, h \in Fds : connectMap'[g] # None /\ connectMap'[g] = connectMap'[h] => g = h
    BY <1>10 DEF ListenerGood, MapInv
  <2>3. QED
    BY <2>1, <2>2 DEF MapInv
<1>12. EventInv'
  <2>1. ASSUME NEW evt \in Evt, Sound(evt), evt.who # s PROVE Sound(evt)'
    <3>1. evt.opt # "accept" => evt.fd # f
      BY <1>5, <2>1 DEF Sound
    <3>2. evt.opt # "accept" => connectMap'[evt.fd] = connectMap[evt.fd]
      BY <1>7, <3>1 DEF Evt, ListenerTypes
    <3>3. evt.opt = "accept" => told'[evt.who] = told[evt.who]
      BY <1>7, <2>1 DEF Sound, ListenerTypes
    <3>4. QED
      BY <1>4, <2>1, <3>2, <3>3 DEF Sound
  <2>2. QED
    BY <1>2, <1>4, <1>5, <2>1, EventsTail DEF ListenerGood
<1>13. ToldInv'
  <2>1. Heard(s)'
    <3>1. told'[s] = call
      BY <1>7 DEF ListenerTypes
    <3>2. QED
      BY <1>4, <1>6, <3>1 DEF Heard
  <2>2. ASSUME NEW z \in Sessions, z # s PROVE Heard(z)'
    <3>1. told'[z] = told[z]
      BY <1>7, <2>2 DEF ListenerTypes
    <3>2. QED
      BY <1>4, <3>1 DEF ListenerGood, ToldInv, Heard
  <2>3. QED
    BY <2>1, <2>2 DEF ToldInv
<1>14. QED
  BY <1>1, <1>8, <1>9, <1>11, <1>12, <1>13 DEF ListenerGood

LEMMA CloseConnectionKeeps ==
  ASSUME ListenerNames, ListenerTypes, ListenerGood, NEW f \in Fds, CloseConnection(f)
  PROVE  ListenerTypes' /\ ListenerGood'
<1>1. RoundInv' /\ \A g \in Fds : Active(g)' <=> Active(g)
  BY RoundFrame DEF ListenerGood, CloseConnection
<1>2. PICK x \in Sessions \cup Peers : x = owner[f] /\ told[x] = "connected"
  BY DEF CloseConnection
<1>3. /\ owner' = [owner EXCEPT ![f] = None] /\ told' = [told EXCEPT ![x] = "closed"]
      /\ connectMap' = connectMap /\ mainQ' = mainQ /\ outcome' = outcome
  BY <1>2 DEF CloseConnection
<1>4. ListenerTypes'
  BY <1>3 DEF CloseConnection, ListenerTypes, Callbacks, thread
<1>5. ActiveInv'
  <2>1. ~Active(f)
    <3>1. ASSUME Active(f) PROVE FALSE
      <4>1. x # Listener
        BY DEF ListenerNames
      <4>2. x \in Sessions /\ outcome[x] = "trying"
        BY <1>2, <3>1, <4>1 DEF ListenerGood, ActiveInv
      <4>3. QED
        BY <1>2, <4>2 DEF ListenerGood, ToldInv, Heard
    <3>2. QED
      BY <3>1
  <2>2. QED
    BY <1>1, <1>3, <2>1 DEF ListenerGood, ActiveInv, ListenerTypes
<1>6. \A g \in Fds : connectMap[g] # None => connectMap[g] # x
  BY <1>2 DEF ListenerGood, MapInv
<1>7. MapInv'
  BY <1>3, <1>6 DEF ListenerGood, MapInv, ListenerTypes
<1>8. EventInv'
  <2>1. ASSUME NEW evt \in Evt, Sound(evt) PROVE Sound(evt)'
    <3>1. evt.who # x
      BY <1>2, <1>6, <2>1 DEF Sound, Evt, ListenerNames
    <3>2. evt.opt # "remove" => evt.fd # f
      BY <1>2, <2>1, <3>1 DEF Sound, Evt
    <3>3. QED
      BY <1>3, <2>1, <3>1, <3>2 DEF Sound, Evt, ListenerTypes
  <2>2. QED
    BY <1>3, <2>1, EventsFrame DEF ListenerGood
<1>9. ToldInv'
  <2>1. ASSUME NEW z \in Sessions, z # x PROVE Heard(z)'
    <3>1. told'[z] = told[z] /\ \A g \in Fds : owner[g] = z => owner'[g] = z
      BY <1>2, <1>3, <2>1 DEF ListenerTypes
    <3>2. QED
      BY <1>3, <3>1 DEF ListenerGood, ToldInv, Heard
  <2>2. ASSUME x \in Sessions PROVE Heard(x)'
    <3>1. told'[x] = "closed"
      BY <1>3 DEF ListenerTypes
    <3>2. QED
      BY <1>2, <1>3, <2>2, <3>1 DEF ListenerGood, ToldInv, Heard
  <2>3. QED
    BY <2>1, <2>2 DEF ToldInv
<1>10. QED
  BY <1>1, <1>4, <1>5, <1>7, <1>8, <1>9 DEF ListenerGood

(***************************************************************************)
(* The thread.                                                             *)
(***************************************************************************)
LEMMA BeginRoundKeeps ==
  ASSUME ListenerNames, ListenerTypes, ListenerGood, BeginRound
  PROVE  ListenerTypes' /\ ListenerGood'
<1>1. todo = {} /\ dels = {} /\ dels' = {}
  BY DEF BeginRound
<1>2. PICK add : /\ add = IF threadQ # <<>> /\ Room THEN {Head(threadQ)} ELSE {}
                 /\ sockets' = [f \in Fds |-> IF f \in add THEN 0 ELSE sockets[f]]
                 /\ todo' = Table \cup add
                 /\ threadQ' = IF threadQ = <<>> THEN threadQ ELSE Tail(threadQ)
  BY DEF BeginRound
<1>3. /\ owner' = owner /\ connectMap' = connectMap /\ mainQ' = mainQ
      /\ outcome' = outcome /\ told' = told
  BY DEF BeginRound
<1>4. CASE threadQ = <<>>
  <2>1. add = {} /\ threadQ' = threadQ
    BY <1>2, <1>4
  <2>2. sockets' = sockets
    BY <1>2, <2>1 DEF ListenerTypes
  <2>3. \A f \in Fds : (Watched(f)' <=> Watched(f)) /\ (Queued(f)' <=> Queued(f))
    BY <1>1, <2>1, <2>2 DEF Watched, Table, Queued
  <2>4. todo' = Table
    BY <1>2, <2>1
  <2>5. ListenerTypes'
    BY <1>1, <1>3, <2>1, <2>2, <2>4 DEF ListenerTypes, Table
  <2>6. RoundInv'
    <3>1. \A f \in todo' : Watched(f)'
      BY <1>1, <2>2, <2>4 DEF Watched, Table
    <3>2. QED
      BY <2>1, <2>3, <3>1 DEF ListenerGood, RoundInv
  <2>7. ActiveInv'
    BY <1>3, <2>3 DEF ListenerGood, ActiveInv, Active
  <2>8. EventInv'
    BY <1>3, EventsFrame DEF ListenerGood, Sound
  <2>9. QED
    BY <1>3, <2>5, <2>6, <2>7, <2>8 DEF ListenerGood, MapInv, ToldInv, Heard
<1>5. CASE threadQ # <<>>
  <2>1. PICK q \in Seq(Fds) : q = threadQ /\ q # <<>>
    BY <1>5 DEF ListenerTypes
  <2>2. PICK r \in Seq(Fds) : r = threadQ' /\ r = Tail(q)
    BY <1>2, <2>1
  <2>3. PICK h \in Fds : h = Head(q) /\ h = q[1] /\ 1 \in DOMAIN q
    BY <2>1
  <2>4. \A i \in DOMAIN r : i \in Nat /\ i # 0 /\ i + 1 \in DOMAIN q /\ r[i] = q[i + 1]
    BY <2>1, <2>2, TailFacts
  <2>5. \A i, j \in DOMAIN q : q[i] = q[j] => i = j
    BY <2>1 DEF ListenerGood, RoundInv
  <2>6. \A i, j \in DOMAIN r : r[i] = r[j] => i = j
    <3>1. ASSUME NEW i \in DOMAIN r, NEW j \in DOMAIN r, r[i] = r[j] PROVE i = j
      <4>1. i \in Nat /\ j \in Nat /\ i + 1 = j + 1
        BY <2>4, <2>5, <3>1
      <4>2. QED
        BY <4>1
    <3>2. QED
      BY <3>1
  <2>7. \A i \in DOMAIN r : r[i] # h
    <3>1. ASSUME NEW i \in DOMAIN r, r[i] = h PROVE FALSE
      <4>1. i \in Nat /\ i # 0 /\ i + 1 = 1
        BY <2>3, <2>4, <2>5, <3>1
      <4>2. QED
        BY <4>1
    <3>2. QED
      BY <3>1
  <2>8. Queued(h) /\ \A f \in Fds : Queued(f)' => Queued(f) /\ f # h
    BY <2>1, <2>2, <2>3, <2>4, <2>7 DEF Queued
  <2>9. add \subseteq {h}
    BY <1>2, <2>1, <2>3
  <2>10. \A f \in Fds : Watched(f)' => Watched(f) \/ f \in add
    BY <1>1, <1>2 DEF Watched, Table
  <2>11. \A f \in todo' : f \in Fds /\ Watched(f)'
    BY <1>1, <1>2, <2>9 DEF Watched, Table
  <2>12. ListenerTypes'
    <3>1. sockets' \in [Fds -> Int]
      BY <1>2 DEF ListenerTypes
    <3>2. todo' \subseteq Fds /\ dels' \subseteq Fds
      BY <1>1, <2>11
    <3>3. QED
      BY <1>3, <2>2, <3>1, <3>2 DEF ListenerTypes
  <2>13. RoundInv'
    <3>1. \A f \in Fds : Queued(f)' => ~Watched(f)'
      BY <2>8, <2>9, <2>10 DEF ListenerGood, RoundInv
    <3>2. QED
      BY <2>2, <2>6, <2>11, <3>1 DEF RoundInv
  <2>14. \A f \in Fds : Active(f)' => Active(f)
    BY <2>8, <2>9, <2>10 DEF Active
  <2>15. ActiveInv'
    BY <1>3, <2>14 DEF ListenerGood, ActiveInv
  <2>16. EventInv'
    BY <1>3, EventsFrame DEF ListenerGood, Sound
  <2>17. QED
    BY <1>3, <2>12, <2>13, <2>15, <2>16 DEF ListenerGood, MapInv, ToldInv, Heard
<1>6. QED
  BY <1>4, <1>5

\* Looking at an entry, and marking it for deletion or not, leaves fewer to look at.
LEMMA LookedAt ==
  ASSUME ListenerTypes, RoundInv, NEW f \in Fds, Looking(f), threadQ' = threadQ, Table' = Table,
         dels' = dels \/ dels' = dels \cup {f}
  PROVE  /\ RoundInv' /\ \A g \in Fds : Active(g)' => Active(g)
         /\ dels' = dels \cup {f} => ~Active(f)'
<1>1. \A g \in Fds : Queued(g)' <=> Queued(g)
  BY DEF Queued
<1>2. \A g \in Fds : Watched(g)' => Watched(g)
  BY DEF Watched
<1>3. Watched(f) /\ ~Queued(f)
  BY DEF Looking, RoundInv
<1>4. \A g \in todo' : Watched(g)'
  BY DEF Looking, RoundInv, Watched
<1>5. RoundInv'
  BY <1>1, <1>2, <1>4 DEF RoundInv
<1>6. QED
  BY <1>1, <1>2, <1>3, <1>5 DEF Active, Watched

\* The thread reports what became of the connect on descriptor f.
LEMMA ReportKeeps ==
  ASSUME ListenerNames, ListenerTypes, ListenerGood, NEW f \in Fds, Looking(f),
         owner[f] \in Sessions,
         NEW opt \in {"add", "remove"}, Report(opt, f), NEW o \in FinalOutcomes,
         outcome' = [outcome EXCEPT ![owner[f]] = o],
         opt = "add" => o = "connected" /\ owner' = owner,
         opt = "remove" => o \in {"failed", "timeout"},
         owner' = owner \/ owner' = [owner EXCEPT ![f] = None],
         UNCHANGED <<connectMap, threadQ, sockets, told>>
  PROVE  ListenerTypes' /\ ListenerGood'
<1>1. PICK s \in Sessions : s = owner[f]
  OBVIOUS
<1>2. s # None /\ s # Listener /\ s \notin Peers
  BY DEF ListenerNames
<1>3. dels' = dels \cup {f} /\ mainQ' = Append(mainQ, Event(opt, s, f))
  BY <1>1 DEF Report
<1>4. PICK e : e = Event(opt, s, f)
  OBVIOUS
<1>5. e \in Evt /\ e.opt = opt /\ e.who = s /\ e.fd = f
  BY <1>4 DEF Event, Evt, Things
<1>6. /\ RoundInv' /\ \A g \in Fds : Active(g)' => Active(g)
      /\ ~Active(f)'
  <2>1. Table' = Table
    BY DEF Table
  <2>2. QED
    BY <1>3, <2>1, LookedAt DEF ListenerGood
<1>7. outcome[s] = "trying" /\ connectMap[f] = s
  <2>1. Active(f)
    BY DEF ListenerGood, RoundInv, Looking, Active
  <2>2. QED
    BY <1>1, <1>2, <2>1 DEF ListenerGood, ActiveInv
<1>8. \A g \in Fds : connectMap[g] = s => g = f
  BY <1>2, <1>7 DEF ListenerGood, MapInv
<1>9. \A z \in Sessions : outcome'[z] = IF z = s THEN o ELSE outcome[z]
  BY <1>1 DEF ListenerTypes
<1>10. \A g \in Fds : g # f => owner'[g] = owner[g]
  BY DEF ListenerTypes
<1>11. ListenerTypes'
  <2>1. owner' \in [Fds -> Things \cup {None}]
    BY DEF ListenerTypes
  <2>2. mainQ' \in Seq(Evt)
    BY <1>3, <1>4, <1>5 DEF ListenerTypes
  <2>3. outcome' \in [Sessions -> Outcomes]
    BY DEF ListenerTypes, Outcomes, FinalOutcomes
  <2>4. todo' \subseteq Fds /\ dels' \subseteq Fds
    BY <1>3 DEF ListenerTypes, Looking
  <2>5. QED
    BY <2>1, <2>2, <2>3, <2>4 DEF ListenerTypes
<1>12. ActiveInv'
  <2>1. ASSUME NEW g \in Fds, Active(g)', owner'[g] # Listener
        PROVE  owner'[g] \in Sessions /\ outcome'[owner'[g]] = "trying" /\ connectMap'[g] = owner'[g]
    <3>1. Active(g) /\ g # f
      BY <1>6, <2>1
    <3>2. owner'[g] = owner[g]
      BY <1>10, <3>1
    <3>3. owner[g] \in Sessions /\ outcome[owner[g]] = "trying" /\ connectMap[g] = owner[g]
      BY <2>1, <3>1, <3>2 DEF ListenerGood, ActiveInv
    <3>4. owner[g] # s
      BY <1>8, <3>1, <3>3
    <3>5. QED
      BY <1>9, <3>2, <3>3, <3>4
  <2>2. QED
    BY <2>1 DEF ActiveInv
<1>13. MapInv'
  <2>1. ASSUME NEW g \in Fds, connectMap[g] # None
        PROVE  told[connectMap[g]] = "none" /\ outcome'[connectMap[g]] \in FinalOutcomes \cup {"trying"}
    <3>1. PICK z \in Sessions : z = connectMap[g]
      BY <2>1 DEF ListenerTypes
    <3>2. told[z] = "none" /\ outcome[z] \in FinalOutcomes \cup {"trying"}
      BY <2>1, <3>1 DEF ListenerGood, MapInv
    <3>3. QED
      BY <1>9, <3>1, <3>2
  <2>2. QED
    BY <2>1 DEF ListenerGood, MapInv
<1>14. EventInv'
  <2>1. Sound(e)'
    BY <1>1, <1>5, <1>7, <1>9 DEF Sound
  <2>2. ASSUME NEW evt \in Evt, Sound(evt) PROVE evt.who # s /\ Sound(evt)'
    <3>1. evt.who # s
      BY <1>2, <1>7, <2>2 DEF Sound, Evt
    <3>2. evt.opt # "remove" => evt.fd # f
      BY <1>1, <2>2, <3>1 DEF Sound, Evt
    <3>3. evt.opt # "remove" => owner'[evt.fd] = owner[evt.fd]
      BY <1>10, <3>2 DEF Evt
    <3>4. evt.opt # "accept" => outcome'[evt.who] = outcome[evt.who]
      BY <1>9, <2>2, <3>1 DEF Sound
    <3>5. QED
      BY <2>2, <3>1, <3>3, <3>4 DEF Sound, Evt
  <2>3. QED
    BY <1>3, <1>4, <1>5, <2>1, <2>2, EventsAppend DEF ListenerGood
<1>15. ToldInv'
  <2>1. told[s] = "none"
    BY <1>2, <1>7 DEF ListenerGood, MapInv
  <2>2. ASSUME NEW z \in Sessions, z # s PROVE Heard(z)'
    <3>1. \A g \in Fds : owner[g] = z => owner'[g] = z
      BY <1>1, <1>10, <2>2
    <3>2. QED
      BY <1>9, <2>2, <3>1 DEF ListenerGood, ToldInv, Heard
  <2>3. Heard(s)'
    BY <2>1 DEF Heard
  <2>4. QED
    BY <2>2, <2>3 DEF ToldInv
<1>16. QED
  BY <1>6, <1>11, <1>12, <1>13, <1>14, <1>15 DEF ListenerGood

LEMMA ConnectReadyKeeps ==
  ASSUME ListenerNames, ListenerTypes, ListenerGood, NEW f \in Fds, ConnectReady(f)
  PROVE  ListenerTypes' /\ ListenerGood'
<1>1. Looking(f) /\ owner[f] \in Sessions /\ UNCHANGED <<connectMap, threadQ, sockets, told>>
  BY DEF ConnectReady
<1>2. CASE /\ Report("add", f) /\ outcome' = [outcome EXCEPT ![owner[f]] = "connected"]
           /\ owner' = owner
  <2>1. "connected" \in FinalOutcomes
    BY DEF FinalOutcomes
  <2>2. QED
    BY <1>1, <1>2, <2>1, ReportKeeps
<1>3. CASE /\ Report("remove", f) /\ outcome' = [outcome EXCEPT ![owner[f]] = "failed"]
           /\ owner' = [owner EXCEPT ![f] = None]
  <2>1. "failed" \in FinalOutcomes
    BY DEF FinalOutcomes
  <2>2. QED
    BY <1>1, <1>3, <2>1, ReportKeeps
<1>4. QED
  BY <1>2, <1>3 DEF ConnectReady

\* Steps of the thread that change nothing but its round.
LEMMA RoundOnly ==
  ASSUME ListenerTypes, ListenerGood, RoundInv', \A g \in Fds : Active(g)' => Active(g),
         UNCHANGED <<owner, connectMap, mainQ, outcome, told>>
  PROVE  ListenerGood'
<1>1. ActiveInv'
  BY DEF ListenerGood, ActiveInv
<1>2. EventInv'
  BY EventsFrame DEF ListenerGood, Sound
<1>3. QED
  BY <1>1, <1>2 DEF ListenerGood, MapInv, ToldInv, Heard

LEMMA ConnectWaitKeeps ==
  ASSUME ListenerNames, ListenerTypes, ListenerGood, NEW f \in Fds, ConnectWait(f)
  PROVE  ListenerTypes' /\ ListenerGood'
<1>1. /\ Looking(f) /\ owner[f] \in Sessions
      /\ UNCHANGED <<owner, connectMap, threadQ, told>>
  BY DEF ConnectWait
<1>2. CASE /\ Report("remove", f) /\ outcome' = [outcome EXCEPT ![owner[f]] = "timeout"]
           /\ sockets' = sockets
  <2>1. "timeout" \in FinalOutcomes
    BY DEF FinalOutcomes
  <2>2. QED
    BY <1>1, <1>2, <2>1, ReportKeeps
<1>3. CASE /\ sockets' = [sockets EXCEPT ![f] = @ + 1]
           /\ UNCHANGED <<mainQ, dels, outcome>>
  <2>1. f \in Table
    BY <1>1 DEF ListenerGood, RoundInv, Looking, Watched
  <2>2. sockets[f] \in Nat
    BY <2>1 DEF Table, ListenerTypes
  <2>3. Table' = Table
    BY <1>3, <2>1, <2>2 DEF Table, ListenerTypes
  <2>4. RoundInv' /\ \A g \in Fds : Active(g)' => Active(g)
    BY <1>1, <1>3, <2>3, LookedAt DEF ListenerGood
  <2>5. ListenerTypes'
    BY <1>1, <1>3, <2>2 DEF ListenerTypes, Looking
  <2>6. QED
    BY <1>1, <1>3, <2>4, <2>5, RoundOnly
<1>4. QED
  BY <1>2, <1>3 DEF ConnectWait

LEMMA AcceptSocketKeeps ==
  ASSUME ListenerNames, ListenerTypes, ListenerGood, NEW f \in Fds, NEW p \in Peers,
         NEW g \in Fds,
         AcceptSocket(f, p, g)
  PROVE  ListenerTypes' /\ ListenerGood'
<1>1. RoundInv' /\ \A h \in Fds : Active(h)' <=> Active(h)
  BY RoundFrame DEF ListenerGood, AcceptSocket
<1>2. ~Active(g)
  BY FreeIsNotActive DEF AcceptSocket, Free
<1>3. /\ owner' = [owner EXCEPT ![g] = p] /\ owner[g] = None /\ told[p] = "none"
      /\ \A h \in Fds : owner[h] # p
      /\ connectMap' = connectMap /\ outcome' = outcome /\ told' = told
  BY DEF AcceptSocket, Free
<1>4. PICK e : e = Event("accept", p, g)
  OBVIOUS
<1>5. e \in Evt /\ e.opt = "accept" /\ e.who = p /\ e.fd = g /\ mainQ' = Append(mainQ, e)
  BY <1>4 DEF Event, Evt, Things, AcceptSocket
<1>6. ListenerTypes'
  <2>1. mainQ' \in Seq(Evt)
    BY <1>5 DEF ListenerTypes
  <2>2. owner' \in [Fds -> Things \cup {None}]
    BY <1>3 DEF ListenerTypes, Things
  <2>3. QED
    BY <1>3, <2>1, <2>2 DEF ListenerTypes, AcceptSocket, thread
<1>7. \A h \in Fds : h # g => owner'[h] = owner[h]
  BY <1>3 DEF ListenerTypes
<1>8. ActiveInv'
  BY <1>1, <1>2, <1>3, <1>7 DEF ListenerGood, ActiveInv
<1>9. EventInv'
  <2>1. Sound(e)'
    BY <1>3, <1>5 DEF Sound, ListenerTypes
  <2>2. ASSUME NEW evt \in Evt, Sound(evt) PROVE evt.who # p /\ Sound(evt)'
    <3>1. evt.who # p
      BY <1>3, <2>2 DEF Sound, Evt, ListenerNames
    <3>2. evt.opt # "remove" => evt.who # None
      BY <2>2 DEF Sound, Evt, ListenerNames
    <3>3. evt.opt # "remove" => owner'[evt.fd] = owner[evt.fd]
      BY <1>3, <1>7, <2>2, <3>2 DEF Sound, Evt
    <3>4. QED
      BY <1>3, <2>2, <3>1, <3>3 DEF Sound, Evt
  <2>3. QED
    BY <1>5, <2>1, <2>2, EventsAppend DEF ListenerGood
<1>10. ToldInv'
  <2>1. \A z \in Sessions, h \in Fds : owner[h] = z => owner'[h] = z
    BY <1>3, <1>7 DEF ListenerNames
  <2>2. QED
    BY <1>3, <2>1 DEF ListenerGood, ToldInv, Heard
<1>11. QED
  BY <1>1, <1>3, <1>6, <1>8, <1>9, <1>10 DEF ListenerGood, MapInv

LEMMA AcceptDoneKeeps ==
  ASSUME ListenerNames, ListenerTypes, ListenerGood, NEW f \in Fds, AcceptDone(f)
  PROVE  ListenerTypes' /\ ListenerGood'
<1>1. RoundInv' /\ \A g \in Fds : Active(g)' => Active(g)
  <2>1. Table' = Table
    BY DEF Table, AcceptDone
  <2>2. QED
    BY <2>1, LookedAt DEF ListenerGood, AcceptDone
<1>2. ListenerTypes'
  BY DEF ListenerTypes, AcceptDone, Looking
<1>3. QED
  BY <1>1, <1>2, RoundOnly DEF AcceptDone

LEMMA DelSocketsKeeps ==
  ASSUME ListenerNames, ListenerTypes, ListenerGood, DelSockets
  PROVE  ListenerTypes' /\ ListenerGood'
<1>1. /\ sockets' = [f \in Fds |-> IF f \in dels THEN -1 ELSE sockets[f]]
      /\ dels' = {} /\ todo = {} /\ todo' = {} /\ threadQ' = threadQ
  BY DEF DelSockets
<1>2. \A f \in Fds : (Watched(f)' <=> Watched(f)) /\ (Queued(f)' <=> Queued(f))
  BY <1>1 DEF Watched, Table, Queued, ListenerTypes
<1>3. RoundInv'
  BY <1>1, <1>2 DEF ListenerGood, RoundInv
<1>4. \A f \in Fds : Active(f)' => Active(f)
  BY <1>2 DEF Active
<1>5. ListenerTypes'
  BY <1>1 DEF ListenerTypes, DelSockets
<1>6. QED
  BY <1>3, <1>4, <1>5, RoundOnly DEF DelSockets

(***************************************************************************)
(* The theorem.                                                            *)
(***************************************************************************)
\* A session that was displaced stays so.
LEMMA OthersKeepDisplaced ==
  ASSUME ListenerNext, displaced' = {}
  PROVE  displaced = {} /\ \A s \in Sessions, f \in Fds : CreateNetConnecter(s, f) => connectMap[f] = None
<1>1. ASSUME NEW s \in Sessions, NEW f \in Fds, CreateNetConnecter(s, f)
      PROVE  displaced = {} /\ connectMap[f] = None
  BY <1>1 DEF CreateNetConnecter
<1>2. ASSUME \E f \in Fds : CreateNetListener(f) \/ \E s \in Sessions : ConnectAtOnce(s, f)
      PROVE  displaced = {}
  BY <1>2 DEF CreateNetListener, ConnectAtOnce, lost
<1>3. ASSUME Process PROVE displaced = {}
  BY <1>3 DEF Process, OnAccept, OnConnect, OnConnectFailed, Answer, lost
<1>4. ASSUME Run PROVE displaced = {}
  BY <1>4
     DEF Run, BeginRound, DelSockets, ConnectReady, ConnectWait, AcceptDone, AcceptSocket, lost
<1>5. ASSUME \E s \in Sessions : ConnectNoSocket(s) PROVE displaced = {}
  BY <1>5 DEF ConnectNoSocket, lost
<1>6. ASSUME \E f \in Fds : CloseConnection(f) PROVE displaced = {}
  BY <1>6 DEF CloseConnection, lost
<1>7. displaced = {}
  BY <1>1, <1>2, <1>3, <1>4, <1>5, <1>6 DEF ListenerNext, Create
<1>8. QED
  BY <1>1, <1>7

\* The inductive invariant.
ListenInv == displaced = {} => ListenerTypes /\ ListenerGood

\* Every step keeps it.
LEMMA NextListener ==
  ASSUME ListenerNames, ListenInv, [ListenerNext]_listenerVars PROVE ListenInv'
<1> SUFFICES ASSUME displaced' = {} PROVE ListenerTypes' /\ ListenerGood'
  BY DEF ListenInv
<1>1. CASE UNCHANGED listenerVars
  <2>1. displaced = {}
    BY <1>1 DEF listenerVars, lost
  <2>2. ListenerTypes /\ ListenerGood
    BY <2>1 DEF ListenInv
  <2>3. ListenerTypes'
    BY <1>1, <2>2 DEF ListenerTypes, listenerVars, thread
  <2>4. RoundInv' /\ \A g \in Fds : Active(g)' <=> Active(g)
    BY <1>1, <2>2, RoundFrame DEF ListenerGood, listenerVars
  <2>5. QED
    BY <1>1, <2>2, <2>3, <2>4, RoundOnly DEF listenerVars
<1>2. CASE ListenerNext
  <2>1. /\ ListenerTypes /\ ListenerGood
        /\ \A s \in Sessions, f \in Fds : CreateNetConnecter(s, f) => connectMap[f] = None
    BY <1>2, OthersKeepDisplaced DEF ListenInv
  <2>2. CASE Create
    BY <2>1, <2>2, CreateNetListenerKeeps, CreateNetConnecterKeeps, ConnectAtOnceKeeps DEF Create
  <2>3. CASE Process
    <3>1. CASE OnAccept
      BY <2>1, <3>1, OnAcceptKeeps
    <3>2. CASE OnConnect
      BY <2>1, <3>2, AnswerKeeps DEF OnConnect
    <3>3. CASE OnConnectFailed
      BY <2>1, <3>3, AnswerKeeps DEF OnConnectFailed
    <3>4. QED
      BY <2>3, <3>1, <3>2, <3>3 DEF Process
  <2>4. CASE Run
    BY <2>1, <2>4, BeginRoundKeeps, DelSocketsKeeps, ConnectReadyKeeps, ConnectWaitKeeps,
       AcceptDoneKeeps, AcceptSocketKeeps DEF Run
  <2>5. CASE \E s \in Sessions : ConnectNoSocket(s)
    BY <2>1, <2>5, ConnectNoSocketKeeps
  <2>6. CASE \E f \in Fds : CloseConnection(f)
    BY <2>1, <2>6, CloseConnectionKeeps
  <2>7. QED
    BY <1>2, <2>2, <2>3, <2>4, <2>5, <2>6 DEF ListenerNext
<1>3. QED
  BY <1>1, <1>2

\* It says what AnswersItsOwn says.
LEMMA ListenInvAnswers ==
  ASSUME ListenerNames, ListenInv PROVE AnswersItsOwn
<1> SUFFICES ASSUME displaced = {}, ListenerTypes, ListenerGood
             PROVE  /\ \A s \in Sessions :
                         /\ told[s] = "connected" =>
                              outcome[s] = "connected" /\ \E f \in Fds : owner[f] = s
                         /\ told[s] = "failed" => outcome[s] \in {"failed", "timeout"}
                    /\ \A i \in DOMAIN mainQ :
                         mainQ[i].opt # "accept" => connectMap[mainQ[i].fd] = mainQ[i].who
                    /\ \A f \in Table \ dels : owner[f] \in Sessions => connectMap[f] = owner[f]
  BY DEF ListenInv, AnswersItsOwn
<1>1. \A s \in Sessions :
        /\ told[s] = "connected" => outcome[s] = "connected" /\ \E f \in Fds : owner[f] = s
        /\ told[s] = "failed" => outcome[s] \in {"failed", "timeout"}
  BY DEF ListenerGood, ToldInv, Heard
<1>2. \A i \in DOMAIN mainQ :
        mainQ[i].opt # "accept" => connectMap[mainQ[i].fd] = mainQ[i].who
  BY DEF ListenerGood, EventInv, Sound
<1>3. \A f \in Table \ dels : owner[f] \in Sessions => connectMap[f] = owner[f]
  BY DEF ListenerGood, ActiveInv, Active, Watched, Table, ListenerNames
<1>4. QED
  BY <1>1, <1>2, <1>3

\* OnConnect, OnConnectFailed: a session is told the outcome of its own connect and of no
\* other, though both threads know it by a descriptor that the system reuses, as long as no
\* session was displaced by another one under the same descriptor.
THEOREM SessionsHearTheirOwn == ListenerSpec => []AnswersItsOwn
<1> USE ListenerNamesHold
<1>1. ListenerInit => ListenInv
  BY InitListener DEF ListenInv
<1>2. ListenInv /\ [ListenerNext]_listenerVars => ListenInv'
  BY NextListener
<1>3. ListenInv => AnswersItsOwn
  BY ListenInvAnswers
<1>4. QED
  BY <1>1, <1>2, <1>3, PTL DEF ListenerSpec

(***************************************************************************)
(* The array of the thread.                                                *)
(***************************************************************************)
\* The array, and what is still to look at in it.
ArrayInv == /\ threadQ \in Seq(Fds) /\ sockets \in [Fds -> Int] /\ todo \subseteq Table
            /\ IsFiniteSet(Table) /\ Cardinality(Table) <= LISTEN_SOCKET_SIZE

\* Steps that add nothing to the array.
LEMMA ArraySame ==
  ASSUME ArrayInv, threadQ' \in Seq(Fds), sockets' \in [Fds -> Int], Table' = Table,
         todo' \subseteq todo
  PROVE  ArrayInv'
  BY DEF ArrayInv

\* A round takes as many new sockets as there is room for.
LEMMA BeginRoundArray ==
  ASSUME LISTEN_SOCKET_SIZE \in Nat, ArrayInv, BeginRound PROVE ArrayInv'
<1>1. PICK add : /\ add = IF threadQ # <<>> /\ Room THEN {Head(threadQ)} ELSE {}
                 /\ sockets' = [f \in Fds |-> IF f \in add THEN 0 ELSE sockets[f]]
                 /\ todo' = Table \cup add
  BY DEF BeginRound
<1>2. threadQ' \in Seq(Fds) /\ add \subseteq Fds
  BY <1>1 DEF BeginRound, ArrayInv
<1>3. sockets' \in [Fds -> Int] /\ Table' = Table \cup add
  BY <1>1, <1>2 DEF ArrayInv, Table
<1>4. CASE add = {}
  BY <1>1, <1>2, <1>3, <1>4 DEF ArrayInv
<1>5. CASE add # {}
  <2>1. PICK h : add = {h} /\ Room
    BY <1>1, <1>5
  <2>2. IsFiniteSet(Table) /\ Cardinality(Table) \in Nat
    BY FS_CardinalityType DEF ArrayInv
  <2>3. /\ IsFiniteSet(Table \cup {h})
        /\ Cardinality(Table \cup {h}) = IF h \in Table THEN Cardinality(Table)
                                         ELSE Cardinality(Table) + 1
    BY <2>2, FS_AddElement
  <2>4. Cardinality(Table) < LISTEN_SOCKET_SIZE
    BY <2>1 DEF Room
  <2>5. Cardinality(Table \cup {h}) <= LISTEN_SOCKET_SIZE
    BY <2>2, <2>3, <2>4
  <2>6. QED
    BY <1>1, <1>2, <1>3, <2>1, <2>3, <2>5 DEF ArrayInv
<1>6. QED
  BY <1>4, <1>5

\* Every step keeps to the size.
LEMMA NextArray ==
  ASSUME LISTEN_SOCKET_SIZE \in Nat, ArrayInv, [ListenerNext]_listenerVars PROVE ArrayInv'
<1>1. ASSUME UNCHANGED thread, threadQ' \in Seq(Fds) PROVE ArrayInv'
  <2>1. Table' = Table
    BY <1>1 DEF thread, Table
  <2>2. QED
    BY <1>1, <2>1, ArraySame DEF thread, ArrayInv
<1>2. CASE Create
  <2>1. UNCHANGED thread /\ threadQ' \in Seq(Fds)
    <3>1. ASSUME NEW f \in Fds, CreateNetListener(f)
          PROVE  UNCHANGED thread /\ threadQ' \in Seq(Fds)
      BY <3>1 DEF CreateNetListener, ArrayInv
    <3>2. ASSUME NEW f \in Fds, NEW s \in Sessions, CreateNetConnecter(s, f)
          PROVE  UNCHANGED thread /\ threadQ' \in Seq(Fds)
      BY <3>2 DEF CreateNetConnecter, ArrayInv
    <3>3. ASSUME NEW f \in Fds, NEW s \in Sessions, ConnectAtOnce(s, f)
          PROVE  UNCHANGED thread /\ threadQ' \in Seq(Fds)
      BY <3>3 DEF ConnectAtOnce, ArrayInv
    <3>4. QED
      BY <1>2, <3>1, <3>2, <3>3 DEF Create
  <2>2. QED
    BY <1>1, <2>1
<1>3. CASE Process
  <2>1. UNCHANGED <<thread, threadQ>>
    BY <1>3 DEF Process, OnAccept, OnConnect, OnConnectFailed, Answer
  <2>2. QED
    BY <1>1, <2>1 DEF ArrayInv
<1>4. CASE (\E s \in Sessions : ConnectNoSocket(s)) \/ \E f \in Fds : CloseConnection(f)
  <2>1. UNCHANGED <<thread, threadQ>>
    BY <1>4 DEF ConnectNoSocket, CloseConnection
  <2>2. QED
    BY <1>1, <2>1 DEF ArrayInv
<1>5. CASE UNCHANGED listenerVars
  BY <1>1, <1>5 DEF listenerVars, ArrayInv
<1>6. CASE DelSockets
  <2>1. sockets' \in [Fds -> Int] /\ Table' \subseteq Table /\ todo' = {}
    BY <1>6 DEF DelSockets, ArrayInv, Table
  <2>2. IsFiniteSet(Table') /\ Cardinality(Table') <= Cardinality(Table)
    BY <2>1, FS_Subset DEF ArrayInv
  <2>3. Cardinality(Table') \in Nat /\ Cardinality(Table) \in Nat
    BY <2>2, FS_CardinalityType DEF ArrayInv
  <2>4. QED
    BY <1>6, <2>1, <2>2, <2>3 DEF ArrayInv, DelSockets
<1>7. ASSUME NEW f \in Fds, ConnectReady(f) \/ AcceptDone(f) PROVE ArrayInv'
  <2>1. UNCHANGED <<sockets, threadQ>> /\ todo' \subseteq todo
    BY <1>7 DEF ConnectReady, AcceptDone, Looking
  <2>2. Table' = Table
    BY <2>1 DEF Table
  <2>3. QED
    BY <2>1, <2>2, ArraySame DEF ArrayInv
<1>8. ASSUME NEW f \in Fds, ConnectWait(f) PROVE ArrayInv'
  <2>1. f \in Table /\ todo' \subseteq todo /\ threadQ' = threadQ
    BY <1>8 DEF ConnectWait, Looking, ArrayInv
  <2>2. sockets[f] \in Nat
    BY <2>1 DEF Table, ArrayInv
  <2>3. sockets' = sockets \/ sockets' = [sockets EXCEPT ![f] = @ + 1]
    BY <1>8 DEF ConnectWait
  <2>4. sockets' \in [Fds -> Int] /\ Table' = Table
    BY <2>1, <2>2, <2>3, SMTT(40) DEF Table, ArrayInv
  <2>5. QED
    BY <2>1, <2>4, ArraySame DEF ArrayInv
<1>9. ASSUME NEW f \in Fds, NEW p \in Peers, NEW g \in Fds, AcceptSocket(f, p, g) PROVE ArrayInv'
  BY <1>1, <1>9 DEF AcceptSocket, ArrayInv
<1>10. CASE Run
  BY <1>6, <1>7, <1>8, <1>9, <1>10, BeginRoundArray DEF Run
<1>11. QED
  BY <1>2, <1>3, <1>4, <1>5, <1>10 DEF ListenerNext

\* OnThreadProcess: the array of sockets that the thread selects over never has more than
\* LISTEN_SOCKET_SIZE entries, whatever the main thread asks for.
THEOREM ArrayKeepsToItsSize ==
  ListenerSpec => [](Cardinality(Table) <= LISTEN_SOCKET_SIZE)
<1> USE SizesAssumption
<1>1. ListenerInit => ArrayInv
  <2>1. ListenerInit => Table = {} /\ sockets \in [Fds -> Int] /\ todo = {} /\ threadQ \in Seq(Fds)
    BY DEF ListenerInit, Table
  <2>2. IsFiniteSet({}) /\ Cardinality({}) = 0
    BY FS_EmptySet, Zenon
  <2>3. ListenerInit => IsFiniteSet(Table) /\ Cardinality(Table) = 0
    BY <2>1, <2>2
  <2>4. QED
    BY <2>1, <2>3 DEF ArrayInv
<1>2. ArrayInv /\ [ListenerNext]_listenerVars => ArrayInv'
  BY NextArray
<1>3. ArrayInv => Cardinality(Table) <= LISTEN_SOCKET_SIZE
  BY DEF ArrayInv
<1>4. QED
  BY <1>1, <1>2, <1>3, PTL DEF ListenerSpec
=============================================================================
