--------------------------- MODULE CircularQueue ---------------------------
(***************************************************************************)
(* CircluarQueue<T> (Public/CircularQueue.h), the ring through which the   *)
(* main thread and a network thread send each other events: one producer   *)
(* and one consumer, no lock.  The counters _front and _tail are unsigned  *)
(* and wrap; M is the number of their values.                              *)
(*                                                                         *)
(* A step is one access to shared memory, in the order of the compiled     *)
(* code, which on the x86-64 of the Linux build is also the order in which *)
(* the other thread sees the stores.  Push writes the slot before it       *)
(* advances _tail.  TryPush is `_queue[_tail++ & _mask] = t`: the operands *)
(* of an assignment are evaluated before it, so _tail is advanced first.   *)
(***************************************************************************)
EXTENDS Integers, Sequences

CONSTANTS
  Events,     \* what is pushed
  Garbage,    \* what a slot of new T[_size] holds before the first lap
  AskedSize,  \* the constructor's argument
  Bits        \* the width of the counters, 32

(***************************************************************************)
(* The constructor's size, rounded up to a power of two; the mask selects  *)
(* the low bits of a counter, which is the remainder modulo Size.          *)
(***************************************************************************)
M == 2 ^ Bits
PowersOfTwo == {2 ^ k : k \in 0 .. Bits - 1}

RoundupPowerOf2(num) ==
  (2 * (CHOOSE p \in PowersOfTwo : p <= num /\ num < 2 * p)) % M

Size == IF AskedSize \in PowersOfTwo THEN AskedSize ELSE RoundupPowerOf2(AskedSize)

ASSUME SizeAssumption ==
  /\ M \in Nat /\ Size \in Nat \ {0}
  /\ AskedSize <= Size
  /\ \E k \in 2 .. M : M = k * Size
ASSUME GarbageAssumption == Garbage \notin Events

VARIABLES
  queue,    \* _queue
  front,    \* _front
  tail,     \* _tail
  pcProd, arg, index,   \* the producer's step, its argument t, the slot TryPush took
  pcCons, val,          \* the consumer's step, what Pop hands out
  fifo                  \* ghost: the events pushed and not yet popped

vars == <<queue, front, tail, pcProd, arg, index, pcCons, val, fifo>>

\* Unsigned subtraction: what Size() returns.
Count == (tail - front) % M
Slot(counter) == counter % Size

Init ==
  /\ queue = [i \in 0 .. Size - 1 |-> Garbage]
  /\ front = 0 /\ tail = 0
  /\ pcProd = "idle" /\ arg = Garbage /\ index = 0
  /\ pcCons = "idle" /\ val = Garbage
  /\ fifo = <<>>

(***************************************************************************)
(* The producer.                                                           *)
(***************************************************************************)
prodOnly == <<front, pcCons, val>>

Bug_Push ==
  /\ pcProd = "idle" /\ Count <= Size
  /\ arg' \in Events
  /\ pcProd' = "write"
  /\ UNCHANGED <<queue, tail, index, fifo, prodOnly>>

\* Push finds room; a full queue makes it return false and changes nothing.
Push ==
  /\ pcProd = "idle" /\ Count < Size
  /\ arg' \in Events
  /\ pcProd' = "write"
  /\ UNCHANGED <<queue, tail, index, fifo, prodOnly>>

PushWrite ==
  /\ pcProd = "write"
  /\ queue' = [queue EXCEPT ![Slot(tail)] = arg]
  /\ pcProd' = "advance"
  /\ UNCHANGED <<tail, arg, index, fifo, prodOnly>>

PushAdvance ==
  /\ pcProd = "advance"
  /\ tail' = (tail + 1) % M
  /\ fifo' = Append(fifo, arg)
  /\ pcProd' = "idle"
  /\ UNCHANGED <<queue, arg, index, prodOnly>>

\* TryPush is called; it sleeps and looks again while the queue is full.
TryPush ==
  /\ pcProd = "idle"
  /\ arg' \in Events
  /\ pcProd' = "wait"
  /\ UNCHANGED <<queue, tail, index, fifo, prodOnly>>

TryRoom ==
  /\ pcProd = "wait" /\ Count < Size
  /\ pcProd' = "take"
  /\ UNCHANGED <<queue, tail, arg, index, fifo, prodOnly>>

\* _tail++: from here on the consumer may read the slot.
TryTake ==
  /\ pcProd = "take"
  /\ index' = Slot(tail)
  /\ tail' = (tail + 1) % M
  /\ fifo' = Append(fifo, arg)
  /\ pcProd' = "fill"
  /\ UNCHANGED <<queue, arg, prodOnly>>

Bug_TryFill ==
  /\ pcProd = "fill"
  /\ queue' = [queue EXCEPT ![Slot(tail)] = arg]
  /\ pcProd' = "idle"
  /\ UNCHANGED <<tail, arg, index, fifo, prodOnly>>

TryFill ==
  /\ pcProd = "fill"
  /\ queue' = [queue EXCEPT ![index] = arg]
  /\ pcProd' = "idle"
  /\ UNCHANGED <<tail, arg, index, fifo, prodOnly>>

(***************************************************************************)
(* The consumer: Pop.                                                      *)
(***************************************************************************)
consOnly == <<queue, tail, pcProd, arg, index>>

Pop ==
  /\ pcCons = "idle" /\ front # tail
  /\ pcCons' = "read"
  /\ UNCHANGED <<front, val, fifo, consOnly>>

PopRead ==
  /\ pcCons = "read"
  /\ val' = queue[Slot(front)]
  /\ pcCons' = "advance"
  /\ UNCHANGED <<front, fifo, consOnly>>

Bug_PopAdvance ==
  /\ pcCons = "advance"
  /\ front' = (front + 1) % Size
  /\ fifo' = Tail(fifo)
  /\ pcCons' = "idle"
  /\ UNCHANGED <<val, consOnly>>

PopAdvance ==
  /\ pcCons = "advance"
  /\ front' = (front + 1) % M
  /\ fifo' = Tail(fifo)
  /\ pcCons' = "idle"
  /\ UNCHANGED <<val, consOnly>>

Producer == \/ PushWrite \/ PushAdvance
            \/ TryRoom \/ TryTake \/ TryFill
Consumer == Pop \/ PopRead \/ PopAdvance

Next == Push \/ TryPush \/ Producer \/ Consumer

Spec == Init /\ [][Next]_vars

\* A producer that only uses Push.
PushSpec == Init /\ [][Push \/ PushWrite \/ PushAdvance \/ Consumer]_vars

(***************************************************************************)
(* Properties.                                                             *)
(***************************************************************************)
\* Every variable has its type.
TypeOK ==
  /\ queue \in [0 .. Size - 1 -> Events \cup {Garbage}]
  /\ front \in 0 .. M - 1 /\ tail \in 0 .. M - 1
  /\ pcProd \in {"idle", "write", "advance", "wait", "take", "fill"}
  /\ arg \in Events \cup {Garbage}
  /\ index \in 0 .. Size - 1
  /\ pcCons \in {"idle", "read", "advance"}
  /\ val \in Events \cup {Garbage}
  /\ fifo \in Seq(Events)

\* The counters, though they wrap, always tell how many events are queued, and there are
\* never more than slots (the tests `_tail - _front >= _size` and `_front == _tail`).
CountersTell == Count = Len(fifo) /\ Len(fifo) <= Size

\* The event TryPush has made visible and not written yet, as a position in the queue.
Unwritten == IF pcProd = "fill" THEN {Len(fifo)} ELSE {}

\* Every queued event is in its slot, unharmed by the pushes after it, except the one
\* that TryPush is about to write (Push, TryPush).
QueuedEventsIntact ==
  \A i \in 1 .. Len(fifo) : i \in Unwritten \/ queue[Slot(front + i - 1)] = fifo[i]

\* While Pop reads a slot, Push never writes it: the two threads do not race for a slot
\* unless TryPush is between its two stores.
NoSlotRace ==
  pcProd = "write" /\ pcCons = "read" => Slot(tail) # Slot(front)

\* What Pop hands out is the oldest event in the queue, so that no event is handled
\* twice or before it was sent (the assertions with which its users look events up).
PopsTheOldest ==
  pcCons = "advance" => val = Head(fifo)
=============================================================================
