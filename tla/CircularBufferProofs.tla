------------------------ MODULE CircularBufferProofs ------------------------
(***************************************************************************)
(* Proofs about CircularBuffer, for every size that the constructor makes  *)
(* a buffer for and every width of the counters of which it is a divisor:  *)
(* the writer never overwrites a byte that is not read, and the reader     *)
(* takes the bytes in the order in which they were written, though each    *)
(* side decides from counters that the other side goes on changing.        *)
(***************************************************************************)
EXTENDS CircularBuffer, TLAPS

\* The first n bytes from the reader's place are the ones it expects there.
Holds(n) == \A k \in 0 .. n - 1 : buff[Plus(rcount, k) % Size] = Plus(rcount, k)

\* What the writer has settled on stays true while the reader moves on: there is room,
\* and the bytes put in and not yet published follow those that are published.
WriterInv ==
  /\ pcW = "room" => DataSize < Size
  /\ pcW = "publish" => Holds(DataSize + wlen)

\* What the reader has settled on stays true while the writer moves on: its packet and the
\* length it was given are there, in one piece unless the counter was loaded twice.
ReaderInv ==
  /\ pcR # "idle" => DataSize > 0 /\ want <= DataSize
  /\ pcR = "ahead" => reload
  /\ pcR = "have" => rlen <= DataSize /\ (~reload => RealR + rlen <= Size)
  /\ pcR = "took" => Len(taken) <= DataSize
  /\ pcR # "took" => taken = <<>>

BufferInv == TypeOK /\ UnreadIntact /\ ReadsInOrder /\ WriterInv /\ ReaderInv

(***************************************************************************)
(* Remainders.                                                             *)
(***************************************************************************)

\* A number is its quotient times the divisor plus its remainder, in one way only.
LEMMA Remainder ==
  ASSUME NEW s \in Nat \ {0}, NEW x \in Int
  PROVE  /\ x % s \in 0 .. s - 1
         /\ \E q \in Int : x = q * s + (x % s)
         /\ \A q \in Int, r \in 0 .. s - 1 : x = q * s + r => x % s = r
<1>1. x \div s \in Int /\ x % s \in 0 .. s - 1 /\ x = s * (x \div s) + (x % s)
  OBVIOUS
<1>2. x = (x \div s) * s + (x % s)
  BY <1>1
<1>3. ASSUME NEW q \in Int, NEW r \in 0 .. s - 1, x = q * s + r
      PROVE  x % s = r
  BY <1>1, <1>3
<1> QED BY <1>1, <1>2, <1>3

\* Adding a multiple of the divisor keeps the remainder.
LEMMA Periodic ==
  ASSUME NEW s \in Nat \ {0}, NEW x \in Int, NEW k \in Int
  PROVE  (x + k * s) % s = x % s
<1>1. PICK q \in Int : x % s \in 0 .. s - 1 /\ x = q * s + (x % s)
  BY Remainder
<1>2. PICK p \in Int : p = q + k
  OBVIOUS
<1>3. x + k * s = p * s + (x % s) /\ x + k * s \in Int
  BY <1>1, <1>2
<1> QED BY <1>1, <1>3, Remainder, ZenonT(40)

\* The remainder of a number in the first two periods.
LEMMA TwoPeriods ==
  ASSUME NEW s \in Nat \ {0}, NEW x \in 0 .. 2 * s - 1
  PROVE  x % s = IF x < s THEN x ELSE x - s
<1>1. CASE x < s
  <2>1. x = 0 * s + x /\ x \in 0 .. s - 1 /\ x \in Int
    BY <1>1
  <2> QED BY <1>1, <2>1, Remainder
<1>2. CASE ~ (x < s)
  <2>1. PICK r \in 0 .. s - 1 : r = x - s /\ x = 1 * s + r
    BY <1>2
  <2>2. x \in Int /\ 1 \in Int
    OBVIOUS
  <2>3. x % s = r
    <3>1. \A q \in Int, t \in 0 .. s - 1 : x = q * s + t => x % s = t
      BY <2>2, Remainder
    <3> QED BY <2>1, <2>2, <3>1, Zenon
  <2> QED BY <1>2, <2>1, <2>3
<1> QED BY <1>1, <1>2

\* The remainder at a distance d from x, in terms of the remainder of x.
LEMMA Offset ==
  ASSUME NEW s \in Nat \ {0}, NEW x \in Int, NEW d \in 0 .. s
  PROVE  /\ x % s \in 0 .. s - 1
         /\ (x + d) % s = IF (x % s) + d < s THEN (x % s) + d ELSE (x % s) + d - s
<1>1. PICK q \in Int : x % s \in 0 .. s - 1 /\ x = q * s + (x % s)
  BY Remainder
<1>2. (x % s) + d \in 0 .. 2 * s - 1 /\ (x % s) + d \in Int /\ x + d = ((x % s) + d) + q * s
  BY <1>1
<1>3. (((x % s) + d) + q * s) % s = ((x % s) + d) % s
  BY <1>2, Periodic, Zenon
<1>4. ((x % s) + d) % s = IF (x % s) + d < s THEN (x % s) + d ELSE (x % s) + d - s
  <2>1. PICK y \in 0 .. 2 * s - 1 : y = (x % s) + d
    BY <1>2
  <2>2. y % s = IF y < s THEN y ELSE y - s
    BY TwoPeriods
  <2> QED BY <2>1, <2>2
<1> QED BY <1>1, <1>2, <1>3, <1>4

(***************************************************************************)
(* Counters and places.                                                    *)
(***************************************************************************)

\* The size divides the number of counter values.
LEMMA Sizes ==
  /\ Size \in Nat \ {0} /\ Wrap \in Nat \ {0} /\ 2 * Size <= Wrap
  /\ \E m \in Int : Wrap = m * Size
<1>1. Size \in Nat \ {0} /\ Wrap \in Nat /\ Wrap % Size = 0 /\ Wrap >= 2 * Size
  BY SizeAssumption, WrapAssumption
<1>2. PICK m \in Int : Wrap = m * Size + (Wrap % Size)
  <2> Wrap \in Int
    BY <1>1
  <2> QED BY <1>1, Remainder
<1>3. Wrap = m * Size
  <2>1. m * Size \in Int
    BY <1>1
  <2> QED BY <1>1, <1>2, <2>1
<1> QED BY <1>1, <1>3

\* A counter that goes on by n, and the place it stands for.
LEMMA PlusProperties ==
  ASSUME NEW a \in 0 .. Wrap - 1, NEW n \in 0 .. Size
  PROVE  /\ Plus(a, n) \in 0 .. Wrap - 1
         /\ Plus(a, n) = IF a + n < Wrap THEN a + n ELSE a + n - Wrap
         /\ a % Size \in 0 .. Size - 1
         /\ Plus(a, n) % Size = IF (a % Size) + n < Size THEN (a % Size) + n
                                ELSE (a % Size) + n - Size
<1>1. Size \in Nat \ {0} /\ Wrap \in Nat \ {0} /\ 2 * Size <= Wrap
  BY Sizes
<1>2. PICK m \in Int : Wrap = m * Size
  BY Sizes
<1>3. a \in Int /\ a + n \in Int /\ a + n \in 0 .. 2 * Wrap - 1
  BY <1>1
<1>4. Plus(a, n) = IF a + n < Wrap THEN a + n ELSE a + n - Wrap
  <2>1. PICK y \in 0 .. 2 * Wrap - 1 : y = a + n
    BY <1>3
  <2>2. y % Wrap = IF y < Wrap THEN y ELSE y - Wrap
    BY <1>1, TwoPeriods
  <2>3. Plus(a, n) = y % Wrap
    BY <2>1 DEF Plus
  <2> QED BY <1>1, <2>1, <2>2, <2>3
<1>5. /\ a % Size \in 0 .. Size - 1
      /\ (a + n) % Size = IF (a % Size) + n < Size THEN (a % Size) + n
                          ELSE (a % Size) + n - Size
  BY <1>1, <1>3, Offset
<1>6. Plus(a, n) % Size = (a + n) % Size
  <2>1. CASE a + n < Wrap
    BY <1>4, <2>1
  <2>2. CASE ~ (a + n < Wrap)
    <3>1. PICK k \in Int : k = 0 - m
      BY <1>2
    <3>2. k * Size = 0 - m * Size
      BY <1>1, <3>1
    <3>3. a + n - Wrap = (a + n) + k * Size
      BY <1>1, <1>2, <1>3, <3>2
    <3>4. ((a + n) + k * Size) % Size = (a + n) % Size
      BY <1>1, <1>3, Periodic, Zenon
    <3> QED BY <1>4, <2>2, <3>3, <3>4
  <2> QED BY <2>1, <2>2
<1>7. Plus(a, n) \in 0 .. Wrap - 1
  BY <1>1, <1>3, <1>4
<1> QED BY <1>4, <1>5, <1>6, <1>7

\* Two moves of a counter make one.
LEMMA PlusTwice ==
  ASSUME NEW a \in 0 .. Wrap - 1, NEW n \in 0 .. Size, NEW k \in 0 .. Size, n + k <= Size
  PROVE  Plus(Plus(a, n), k) = Plus(a, n + k)
<1>1. Size \in Nat \ {0} /\ Wrap \in Nat \ {0} /\ 2 * Size <= Wrap
  BY Sizes
<1>2. n + k \in 0 .. Size
  BY <1>1
<1>3. Plus(a, n + k) = IF a + (n + k) < Wrap THEN a + (n + k) ELSE a + (n + k) - Wrap
  BY <1>2, PlusProperties
<1>4. /\ Plus(a, n) = IF a + n < Wrap THEN a + n ELSE a + n - Wrap
      /\ Plus(a, n) \in 0 .. Wrap - 1
  BY PlusProperties
<1> DEFINE b == Plus(a, n)
<1> HIDE DEF b
<1>5. Plus(b, k) = IF b + k < Wrap THEN b + k ELSE b + k - Wrap
  BY <1>4, PlusProperties DEF b
<1>6. Plus(b, k) = Plus(a, n + k)
  BY <1>1, <1>3, <1>4, <1>5 DEF b
<1> QED BY <1>6 DEF b

\* The distance of two counters is what takes one to the other.
LEMMA MinusProperties ==
  ASSUME NEW a \in 0 .. Wrap - 1, NEW b \in 0 .. Wrap - 1
  PROVE  Minus(a, b) = IF a >= b THEN a - b ELSE a - b + Wrap
<1>1. Wrap \in Nat \ {0}
  BY Sizes
<1>2. a - b + Wrap \in 0 .. 2 * Wrap - 1
  BY <1>1
<1>3. PICK x \in 0 .. 2 * Wrap - 1 : x = a - b + Wrap
  BY <1>2
<1>4. x % Wrap = IF x < Wrap THEN x ELSE x - Wrap
  BY <1>1, TwoPeriods, Zenon
<1>5. Minus(a, b) = x % Wrap
  BY <1>3 DEF Minus
<1> QED BY <1>1, <1>3, <1>4, <1>5

\* The writer is DataSize ahead of the reader, and where that is in the memory.
LEMMA Distance ==
  ASSUME TypeOK
  PROVE  /\ Size \in Nat \ {0} /\ Wrap \in Nat \ {0} /\ 2 * Size <= Wrap
         /\ rcount \in 0 .. Wrap - 1 /\ wcount \in 0 .. Wrap - 1
         /\ DataSize \in 0 .. Size
         /\ wcount = Plus(rcount, DataSize)
         /\ RealR \in 0 .. Size - 1 /\ RealW \in 0 .. Size - 1
         /\ RealW = IF RealR + DataSize < Size THEN RealR + DataSize ELSE RealR + DataSize - Size
<1>1. Size \in Nat \ {0} /\ Wrap \in Nat \ {0} /\ 2 * Size <= Wrap
  BY Sizes
<1>2. rcount \in 0 .. Wrap - 1 /\ wcount \in 0 .. Wrap - 1 /\ DataSize <= Size
  BY DEF TypeOK
<1>3. DataSize = IF wcount >= rcount THEN wcount - rcount ELSE wcount - rcount + Wrap
  BY <1>2, MinusProperties DEF DataSize
<1>4. DataSize \in 0 .. Size
  BY <1>1, <1>2, <1>3
<1>5. PICK d \in 0 .. Size : d = DataSize
  BY <1>4
<1>6. /\ Plus(rcount, d) = IF rcount + d < Wrap THEN rcount + d ELSE rcount + d - Wrap
      /\ rcount % Size \in 0 .. Size - 1
      /\ Plus(rcount, d) % Size = IF (rcount % Size) + d < Size THEN (rcount % Size) + d
                                  ELSE (rcount % Size) + d - Size
  BY <1>2, PlusProperties
<1>7. wcount = Plus(rcount, d)
  BY <1>1, <1>2, <1>3, <1>5, <1>6
<1>8. /\ RealR \in 0 .. Size - 1
      /\ RealW = IF RealR + d < Size THEN RealR + d ELSE RealR + d - Size
  BY <1>6, <1>7 DEF RealR, RealW
<1>9. RealW \in 0 .. Size - 1
  BY <1>1, <1>5, <1>8
<1> QED BY <1>1, <1>2, <1>4, <1>5, <1>7, <1>8, <1>9

\* Counting on from the reader, by what there is and n more.
LEMMA DistanceAfter ==
  ASSUME NEW r \in 0 .. Wrap - 1, NEW d \in 0 .. Size
  PROVE  Minus(Plus(r, d), r) = d
<1>1. Size \in Nat \ {0} /\ Wrap \in Nat \ {0} /\ 2 * Size <= Wrap
  BY Sizes
<1>2. /\ Plus(r, d) \in 0 .. Wrap - 1
      /\ Plus(r, d) = IF r + d < Wrap THEN r + d ELSE r + d - Wrap
  BY PlusProperties
<1>3. PICK w \in 0 .. Wrap - 1 : w = Plus(r, d)
  BY <1>2
<1>4. Minus(w, r) = IF w >= r THEN w - r ELSE w - r + Wrap
  BY MinusProperties
<1> QED BY <1>1, <1>2, <1>3, <1>4

\* What the writer puts in leaves the d bytes before it alone and is what the reader
\* will expect, for n bytes that fit.
LEMMA FilledHolds ==
  ASSUME TypeOK, Holds(DataSize), NEW n \in 0 .. Size, DataSize + n <= Size,
         NEW j \in 0 .. DataSize + n - 1
  PROVE  /\ Plus(rcount, j) % Size \in 0 .. Size - 1
         /\ Filled(n)[Plus(rcount, j) % Size] = Plus(rcount, j)
<1>1. /\ Size \in Nat \ {0} /\ Wrap \in Nat \ {0}
      /\ rcount \in 0 .. Wrap - 1 /\ wcount \in 0 .. Wrap - 1
      /\ DataSize \in 0 .. Size
      /\ wcount = Plus(rcount, DataSize)
      /\ RealR \in 0 .. Size - 1 /\ RealW \in 0 .. Size - 1
      /\ RealW = IF RealR + DataSize < Size THEN RealR + DataSize ELSE RealR + DataSize - Size
  BY Distance
<1>2. PICK d \in 0 .. Size : d = DataSize
  BY <1>1
<1>3. j \in 0 .. Size /\ j < d + n
  BY <1>1, <1>2
<1>4. PICK i \in 0 .. Size - 1 :
        /\ i = Plus(rcount, j) % Size
        /\ i = IF RealR + j < Size THEN RealR + j ELSE RealR + j - Size
  <2>1. /\ rcount % Size \in 0 .. Size - 1
        /\ Plus(rcount, j) % Size = IF (rcount % Size) + j < Size THEN (rcount % Size) + j
                                    ELSE (rcount % Size) + j - Size
    BY <1>1, <1>3, PlusProperties
  <2>2. Plus(rcount, j) % Size = IF RealR + j < Size THEN RealR + j ELSE RealR + j - Size
    BY <2>1 DEF RealR
  <2>3. Plus(rcount, j) % Size \in 0 .. Size - 1
    BY <1>1, <1>2, <1>3, <2>2
  <2> QED BY <2>2, <2>3
<1>5. PICK x \in 0 .. 2 * Size - 1 : x = i - RealW + Size
  BY <1>1, <1>4
<1>6. x % Size = IF x < Size THEN x ELSE x - Size
  BY <1>1, TwoPeriods
<1>7. Filled(n)[i] = IF x % Size < n THEN Plus(wcount, x % Size) ELSE buff[i]
  BY <1>5 DEF Filled
<1>8. CASE j < d
  <2>1. x % Size = Size - d + j
    BY <1>1, <1>2, <1>3, <1>4, <1>5, <1>6, <1>8
  <2>2. ~ (x % Size < n)
    BY <1>1, <1>2, <1>3, <1>8, <2>1
  <2>3. buff[i] = Plus(rcount, j)
    <3>1. j \in 0 .. DataSize - 1
      BY <1>2, <1>3, <1>8
    <3> QED BY <1>4, <3>1 DEF Holds
  <2> QED BY <1>4, <1>7, <2>2, <2>3
<1>9. CASE ~ (j < d)
  <2>1. PICK m \in 0 .. Size : m = j - d
    BY <1>1, <1>2, <1>3, <1>9
  <2>2. x % Size = m /\ m < n
    BY <1>1, <1>2, <1>3, <1>4, <1>5, <1>6, <1>9, <2>1
  <2>3. Plus(Plus(rcount, d), m) = Plus(rcount, d + m)
    <3>1. d + m <= Size
      BY <1>1, <1>2, <1>3, <2>1
    <3> QED BY <1>1, <3>1, PlusTwice
  <2>4. d + m = j
    BY <1>2, <1>3, <2>1
  <2> QED BY <1>1, <1>2, <1>4, <1>7, <2>2, <2>3, <2>4
<1> QED BY <1>8, <1>9

\* A copy of n bytes that are there, in one piece or in two, has them in order; in one
\* piece it has a byte behind the end only if the end of the memory comes first.
LEMMA TakenBytes ==
  ASSUME TypeOK, Holds(DataSize), NEW n \in 0 .. DataSize
  PROVE  /\ Straight(n) \in Seq(0 .. Wrap - 1 \cup {Beyond}) /\ Len(Straight(n)) = n
         /\ Copied(n) \in Seq(0 .. Wrap - 1 \cup {Beyond}) /\ Len(Copied(n)) = n
         /\ \A i \in 1 .. n : /\ Copied(n)[i] = Plus(rcount, i - 1)
                              /\ Straight(n)[i] = IF RealR + i - 1 < Size THEN Plus(rcount, i - 1)
                                                  ELSE Beyond
                              /\ Plus(rcount, i - 1) # Beyond
<1>1. /\ Size \in Nat \ {0} /\ Wrap \in Nat \ {0}
      /\ rcount \in 0 .. Wrap - 1
      /\ DataSize \in 0 .. Size
      /\ RealR \in 0 .. Size - 1
  BY Distance
<1>2. n \in Nat /\ DOMAIN Straight(n) = 1 .. n /\ DOMAIN Copied(n) = 1 .. n
  BY <1>1 DEF Straight, Copied
<1>3. ASSUME NEW i \in 1 .. n
      PROVE  /\ Copied(n)[i] = Plus(rcount, i - 1)
             /\ Straight(n)[i] = IF RealR + i - 1 < Size THEN Plus(rcount, i - 1) ELSE Beyond
             /\ Plus(rcount, i - 1) # Beyond
             /\ Plus(rcount, i - 1) \in 0 .. Wrap - 1
  <2>1. PICK k \in 0 .. DataSize - 1 : k = i - 1
    BY <1>1
  <2>2. k \in 0 .. Size
    BY <1>1, <2>1
  <2>3. /\ Plus(rcount, k) \in 0 .. Wrap - 1
        /\ Plus(rcount, k) % Size = IF RealR + k < Size THEN RealR + k ELSE RealR + k - Size
    BY <1>1, <2>2, PlusProperties DEF RealR
  <2>4. buff[Plus(rcount, k) % Size] = Plus(rcount, k)
    BY <2>1 DEF Holds
  <2>5. (RealR + k) % Size = IF RealR + k < Size THEN RealR + k ELSE RealR + k - Size
    <3>1. PICK y \in 0 .. 2 * Size - 1 : y = RealR + k
      BY <1>1, <2>2
    <3>2. y % Size = IF y < Size THEN y ELSE y - Size
      BY <1>1, TwoPeriods
    <3> QED BY <1>1, <2>2, <3>1, <3>2
  <2>6. RealR + i - 1 = RealR + k
    BY <1>1, <2>1
  <2>7. Copied(n)[i] = buff[(RealR + k) % Size]
    BY <2>6 DEF Copied
  <2>8. Straight(n)[i] = IF RealR + k < Size THEN buff[RealR + k] ELSE Beyond
    BY <2>6 DEF Straight
  <2>9. Plus(rcount, k) # Beyond
    BY <2>3, BeyondAssumption
  <2> QED BY <2>1, <2>3, <2>4, <2>5, <2>6, <2>7, <2>8, <2>9
<1>4. \A i \in 1 .. n : /\ Straight(n)[i] \in 0 .. Wrap - 1 \cup {Beyond}
                        /\ Copied(n)[i] \in 0 .. Wrap - 1 \cup {Beyond}
  BY <1>3
<1>5. Straight(n) \in Seq(0 .. Wrap - 1 \cup {Beyond}) /\ Len(Straight(n)) = n
  <2>1. Straight(n) = [i \in 1 .. n |-> Straight(n)[i]]
    BY DEF Straight
  <2> QED BY <1>2, <1>4, <2>1
<1>6. Copied(n) \in Seq(0 .. Wrap - 1 \cup {Beyond}) /\ Len(Copied(n)) = n
  <2>1. Copied(n) = [i \in 1 .. n |-> Copied(n)[i]]
    BY DEF Copied
  <2> QED BY <1>2, <1>4, <2>1
<1> QED BY <1>3, <1>5, <1>6

(***************************************************************************)
(* The invariant.                                                          *)
(***************************************************************************)

\* The constructor makes an empty buffer.
LEMMA InitBufferInv == Init => BufferInv
<1> SUFFICES ASSUME Init PROVE BufferInv
  OBVIOUS
<1>1. Size \in Nat \ {0} /\ Wrap \in Nat \ {0} /\ 2 * Size <= Wrap
  BY Sizes
<1>2. DataSize = 0
  <2>1. 0 \in 0 .. Wrap - 1
    BY <1>1
  <2>2. Minus(0, 0) = 0
    BY <2>1, MinusProperties
  <2> QED BY <2>2 DEF Init, DataSize
<1>3. TypeOK
  <2>1. <<>> \in Seq(0 .. Wrap - 1 \cup {Beyond})
    OBVIOUS
  <2> QED BY <1>1, <1>2, <2>1 DEF Init, TypeOK
<1>4. UnreadIntact /\ ReadsInOrder
  BY <1>1, <1>2 DEF Init, UnreadIntact, ReadsInOrder, GetUnUsed
<1>5. WriterInv /\ ReaderInv
  BY DEF Init, WriterInv, ReaderInv
<1> QED BY <1>3, <1>4, <1>5 DEF BufferInv

\* The writer's steps.
LEMMA WriterSteps ==
  ASSUME BufferInv,
         \/ \E n \in 0 .. Size + 1 : WriteBegin(n)
         \/ CanWriteBegin \/ CanWriteEnd \/ Fill \/ Publish
  PROVE  BufferInv'
<1>1. TypeOK
  BY DEF BufferInv
<1>2. /\ Size \in Nat \ {0} /\ Wrap \in Nat \ {0} /\ 2 * Size <= Wrap
      /\ rcount \in 0 .. Wrap - 1 /\ wcount \in 0 .. Wrap - 1
      /\ DataSize \in 0 .. Size
      /\ wcount = Plus(rcount, DataSize)
      /\ RealR \in 0 .. Size - 1 /\ RealW \in 0 .. Size - 1
      /\ RealW = IF RealR + DataSize < Size THEN RealR + DataSize ELSE RealR + DataSize - Size
  BY <1>1, Distance
<1>3. Holds(DataSize) /\ wlen <= Size - DataSize /\ wlen \in 0 .. Size
  BY <1>1 DEF BufferInv, UnreadIntact, Holds, GetUnUsed, TypeOK
\* A step of the writer that only settles on a length.
<1>4. ASSUME UNCHANGED <<buff, wcount, reader, reload>>, pcW' \in {"room", "fill"},
             wlen' \in 0 .. Size, wlen' <= Size - DataSize, pcW' = "room" => DataSize < Size
      PROVE  BufferInv'
  <2>1. UNCHANGED <<DataSize, RealR>>
    BY <1>4 DEF DataSize, RealR, reader
  <2>2. TypeOK'
    BY <1>1, <1>4, <2>1 DEF TypeOK, reader
  <2>3. UnreadIntact'
    <3>1. Holds(DataSize)'
      BY <1>3, <1>4, <2>1 DEF Holds, reader
    <3> QED BY <1>4, <2>1, <3>1 DEF UnreadIntact, Holds, GetUnUsed
  <2>4. ReadsInOrder'
    BY <1>4 DEF BufferInv, ReadsInOrder, reader
  <2>5. WriterInv' /\ ReaderInv'
    BY <1>4, <2>1 DEF BufferInv, WriterInv, ReaderInv, reader
  <2> QED BY <2>2, <2>3, <2>4, <2>5 DEF BufferInv
<1>5. ASSUME NEW n \in 0 .. Size + 1, WriteBegin(n)
      PROVE  BufferInv'
  <2>1. wlen' \in 0 .. Size /\ wlen' <= Size - DataSize
    BY <1>2, <1>5 DEF WriteBegin, Lesser, GetUnUsed
  <2> QED BY <1>4, <1>5, <2>1 DEF WriteBegin
<1>6. CASE CanWriteBegin
  <2>1. DataSize < Size
    BY <1>2, <1>6 DEF CanWriteBegin, GetUnUsed
  <2> QED BY <1>3, <1>4, <1>6, <2>1 DEF CanWriteBegin
\* The room up to the end of the memory, or up to the reader, is all free: the reader
\* makes it larger only.
<1>7. CASE CanWriteEnd
  <2>1. DataSize < Size
    BY <1>7 DEF CanWriteEnd, BufferInv, WriterInv
  <2>2. CanWrite <= Size - DataSize /\ CanWrite \in 0 .. Size
    BY <1>2, <2>1 DEF CanWrite
  <2>3. PICK n \in 1 .. CanWrite : wlen' = n
    BY <1>7 DEF CanWriteEnd
  <2>4. wlen' \in 0 .. Size /\ wlen' <= Size - DataSize
    BY <1>2, <2>2, <2>3
  <2> QED BY <1>4, <1>7, <2>4 DEF CanWriteEnd
<1>8. CASE Fill
  <2>1. /\ buff' = Filled(wlen) /\ pcW' = "publish"
        /\ UNCHANGED <<wlen, wcount, pcR, want, rlen, taken, rcount, reload>>
    BY <1>8 DEF Fill, reader
  <2>2. UNCHANGED <<DataSize, RealR>>
    BY <2>1 DEF DataSize, RealR
  <2>3. DataSize + wlen <= Size
    BY <1>2, <1>3
  <2>4. \A j \in 0 .. DataSize + wlen - 1 : Filled(wlen)[Plus(rcount, j) % Size] = Plus(rcount, j)
    BY <1>1, <1>3, <2>3, FilledHolds
  <2>5. Holds(DataSize + wlen)' /\ Holds(DataSize)'
    BY <1>2, <1>3, <2>1, <2>2, <2>4 DEF Holds
  <2>6. buff' \in [0 .. Size - 1 -> 0 .. Wrap - 1 \cup {Beyond}]
    <3>1. ASSUME NEW i \in 0 .. Size - 1
          PROVE  Filled(wlen)[i] \in 0 .. Wrap - 1 \cup {Beyond}
      <4>1. PICK x \in Int : x = i - RealW + Size
        <5>1. i \in Int /\ RealW \in Int /\ Size \in Int
          BY <1>2, <3>1
        <5> QED BY <5>1
      <4>2. x % Size \in 0 .. Size
        <5>1. Size \in Nat \ {0}
          BY <1>2
        <5>2. x % Size \in 0 .. Size - 1
          BY <4>1, <5>1, Remainder
        <5> QED BY <5>1, <5>2
      <4>3. Plus(wcount, x % Size) \in 0 .. Wrap - 1
        BY <1>2, <4>2, PlusProperties
      <4>4. Filled(wlen)[i] = IF x % Size < wlen THEN Plus(wcount, x % Size) ELSE buff[i]
        BY <4>1 DEF Filled
      <4> QED BY <1>1, <4>3, <4>4 DEF TypeOK
    <3>2. Filled(wlen) = [i \in 0 .. Size - 1 |-> Filled(wlen)[i]]
      BY DEF Filled
    <3> QED BY <2>1, <3>1, <3>2
  <2>7. TypeOK'
    BY <1>1, <2>1, <2>2, <2>6 DEF TypeOK
  <2>8. UnreadIntact'
    BY <1>3, <2>1, <2>2, <2>5 DEF UnreadIntact, Holds, GetUnUsed
  <2>9. ReadsInOrder'
    BY <2>1 DEF BufferInv, ReadsInOrder
  <2>10. WriterInv' /\ ReaderInv'
    BY <2>1, <2>2, <2>5 DEF BufferInv, WriterInv, ReaderInv
  <2> QED BY <2>7, <2>8, <2>9, <2>10 DEF BufferInv
<1>9. CASE Publish
  <2>1. /\ wcount' = Plus(wcount, wlen) /\ pcW' = "idle" /\ wlen' = 0
        /\ UNCHANGED <<buff, pcR, want, rlen, taken, rcount, reload>>
    BY <1>9 DEF Publish, reader
  <2>2. PICK d \in 0 .. Size : d = DataSize /\ d + wlen \in 0 .. Size
    BY <1>2, <1>3
  <2>3. wcount' = Plus(rcount, d + wlen)
    <3>1. Plus(Plus(rcount, d), wlen) = Plus(rcount, d + wlen)
      <4>1. d + wlen <= Size
        BY <2>2, <1>2, <1>3
      <4> QED BY <1>2, <1>3, <4>1, PlusTwice
    <3> QED BY <1>2, <2>1, <2>2, <3>1
  <2>4. DataSize' = d + wlen
    BY <1>2, <2>1, <2>2, <2>3, DistanceAfter DEF DataSize
  <2>5. wcount' \in 0 .. Wrap - 1
    BY <1>2, <2>2, <2>3, PlusProperties
  <2>6. Holds(DataSize)'
    <3>1. Holds(d + wlen)
      BY <1>9, <2>2 DEF Publish, BufferInv, WriterInv
    <3> QED BY <2>1, <2>4, <3>1 DEF Holds
  <2>7. DataSize <= DataSize' /\ DataSize' \in 0 .. Size
    BY <1>2, <1>3, <2>2, <2>4
  <2>8. TypeOK'
    BY <1>1, <1>2, <2>1, <2>5, <2>7 DEF TypeOK
  <2>9. UnreadIntact'
    <3>1. wlen' <= Size - DataSize'
      <4>1. Size \in Nat /\ d + wlen \in 0 .. Size
        BY <1>2, <2>2
      <4>2. \A x \in 0 .. Size : 0 <= Size - x
        BY <4>1
      <4> QED BY <2>1, <2>4, <4>1, <4>2
    <3> QED BY <2>6, <3>1 DEF UnreadIntact, Holds, GetUnUsed
  <2>10. ReadsInOrder'
    BY <2>1 DEF BufferInv, ReadsInOrder
  <2>11. WriterInv'
    BY <2>1 DEF WriterInv
  <2>12. RealR' = RealR
    BY <2>1 DEF RealR
  <2>13. ReaderInv'
    <3>1. want \in Nat /\ rlen \in Nat /\ Len(taken) \in Nat
      BY <1>1, <1>2 DEF TypeOK
    <3> QED BY <1>2, <2>1, <2>7, <2>12, <3>1 DEF BufferInv, ReaderInv
  <2> QED BY <2>8, <2>9, <2>10, <2>11, <2>13 DEF BufferInv
<1> QED BY <1>5, <1>6, <1>7, <1>8, <1>9

\* The reader's steps.
LEMMA ReaderSteps ==
  ASSUME BufferInv,
         \/ \E p \in 0 .. Size : ReadBegin(p)
         \/ CanRead \/ CanReadLength \/ Take \/ Consume
  PROVE  BufferInv'
<1>1. TypeOK
  BY DEF BufferInv
<1>2. /\ Size \in Nat \ {0} /\ Wrap \in Nat \ {0} /\ 2 * Size <= Wrap
      /\ rcount \in 0 .. Wrap - 1 /\ wcount \in 0 .. Wrap - 1
      /\ DataSize \in 0 .. Size
      /\ wcount = Plus(rcount, DataSize)
      /\ RealR \in 0 .. Size - 1 /\ RealW \in 0 .. Size - 1
      /\ RealW = IF RealR + DataSize < Size THEN RealR + DataSize ELSE RealR + DataSize - Size
  BY <1>1, Distance
<1>3. Holds(DataSize) /\ wlen <= Size - DataSize /\ wlen \in 0 .. Size
  BY <1>1 DEF BufferInv, UnreadIntact, Holds, GetUnUsed, TypeOK
\* A step of the reader that moves no counter changes only what the reader has settled on.
<1>4. ASSUME UNCHANGED <<buff, writer, rcount, reload>>, pcR' \in {"test", "ahead", "have", "took"},
             want' \in 0 .. Size, rlen' \in 0 .. Size,
             taken' \in Seq(0 .. Wrap - 1 \cup {Beyond}), ReadsInOrder', ReaderInv'
      PROVE  BufferInv'
  <2>1. UNCHANGED <<buff, wcount, wlen, pcW, rcount, reload>>
    BY <1>4 DEF writer
  <2>2. UNCHANGED DataSize
    BY <2>1 DEF DataSize
  <2>3. TypeOK'
    BY <1>1, <1>4, <2>1, <2>2 DEF TypeOK
  <2>4. UnreadIntact'
    <3>1. Holds(DataSize)'
      BY <1>3, <2>1, <2>2 DEF Holds
    <3> QED BY <1>3, <2>1, <2>2, <3>1 DEF UnreadIntact, Holds, GetUnUsed
  <2>5. WriterInv'
    BY <2>1, <2>2 DEF BufferInv, WriterInv, Holds
  <2> QED BY <1>4, <2>3, <2>4, <2>5 DEF BufferInv
<1>5. ASSUME NEW p \in 0 .. Size, ReadBegin(p)
      PROVE  BufferInv'
  <2>1. /\ pcR = "idle" /\ DataSize > 0 /\ p <= DataSize /\ pcR' = "test" /\ want' = p
        /\ UNCHANGED <<buff, writer, rlen, taken, rcount, reload>>
    BY <1>5 DEF ReadBegin
  <2>2. UNCHANGED DataSize
    BY <2>1 DEF DataSize, writer
  <2>3. ReadsInOrder' /\ ReaderInv'
    BY <2>1, <2>2 DEF BufferInv, ReadsInOrder, ReaderInv
  <2>4. rlen' \in 0 .. Size /\ taken' \in Seq(0 .. Wrap - 1 \cup {Beyond})
    BY <1>1, <2>1 DEF TypeOK
  <2> QED BY <1>4, <2>1, <2>3, <2>4
\* The writer in front of the reader: all there is, in one piece.  Behind it, or at the
\* same place of a full buffer: what there is up to the end.
<1>6. CASE CanRead
  <2>1. /\ pcR = "test" /\ pcR' \in {"ahead", "have"} /\ DataSize > 0 /\ want <= DataSize
        /\ taken = <<>>
        /\ UNCHANGED <<buff, writer, want, taken, rcount, reload>>
    BY <1>6 DEF CanRead, BufferInv, ReaderInv
  <2>2. UNCHANGED <<DataSize, RealR>>
    BY <2>1 DEF DataSize, RealR, writer
  <2>3. rlen \in 0 .. Size /\ want' \in 0 .. Size /\ taken' \in Seq(0 .. Wrap - 1 \cup {Beyond})
    BY <1>1, <2>1 DEF TypeOK
  <2>4. ReadsInOrder'
    BY <2>1 DEF BufferInv, ReadsInOrder
  <2>5. CASE pcR' = "ahead"
    <3>1. reload /\ rlen' = rlen
      BY <1>6, <2>5 DEF CanRead
    <3>2. ReaderInv'
      BY <2>1, <2>2, <2>5, <3>1 DEF ReaderInv
    <3> QED BY <1>4, <2>1, <2>3, <2>4, <3>1, <3>2
  <2>6. CASE pcR' = "have"
    <3>1. rlen' = IF RealW > RealR THEN DataSize ELSE Size - RealR
      BY <1>6, <2>6 DEF CanRead
    <3>2. rlen' \in 0 .. Size /\ rlen' <= DataSize /\ RealR + rlen' <= Size
      BY <1>2, <2>1, <3>1
    <3>3. ReaderInv'
      BY <2>1, <2>2, <2>6, <3>2 DEF ReaderInv
    <3> QED BY <1>4, <2>1, <2>3, <2>4, <3>2, <3>3
  <2> QED BY <2>1, <2>5, <2>6
<1>7. CASE CanReadLength
  <2>1. /\ reload /\ pcR' = "have" /\ rlen' = DataSize /\ DataSize > 0 /\ want <= DataSize
        /\ taken = <<>>
        /\ UNCHANGED <<buff, writer, want, taken, rcount, reload>>
    BY <1>7 DEF CanReadLength, BufferInv, ReaderInv
  <2>2. UNCHANGED DataSize
    BY <2>1 DEF DataSize, writer
  <2>3. want' \in 0 .. Size /\ taken' \in Seq(0 .. Wrap - 1 \cup {Beyond})
    BY <1>1, <2>1 DEF TypeOK
  <2>4. ReadsInOrder'
    BY <2>1 DEF BufferInv, ReadsInOrder
  <2>5. rlen' <= DataSize'
    BY <1>2, <2>1, <2>2
  <2>6. ReaderInv'
    BY <2>1, <2>2, <2>5 DEF ReaderInv
  <2> QED BY <1>2, <1>4, <2>1, <2>3, <2>4, <2>6
<1>8. CASE Take
  <2>1. /\ pcR' = "took" /\ DataSize > 0 /\ want <= DataSize /\ rlen <= DataSize
        /\ ~reload => RealR + rlen <= Size
        /\ UNCHANGED <<buff, writer, want, rlen, rcount, reload>>
    BY <1>8 DEF Take, BufferInv, ReaderInv
  <2>2. UNCHANGED DataSize
    BY <2>1 DEF DataSize, writer
  <2>3. want \in 0 .. Size /\ rlen \in 0 .. Size /\ reload \in BOOLEAN
    BY <1>1 DEF TypeOK
  \* The bytes of either copy.
  <2>4. ASSUME NEW n \in 0 .. DataSize,
               \/ taken' = Copied(n)
               \/ taken' = Straight(n) /\ (~reload => n <= rlen)
        PROVE  BufferInv'
    <3>1. /\ Straight(n) \in Seq(0 .. Wrap - 1 \cup {Beyond}) /\ Len(Straight(n)) = n
          /\ Copied(n) \in Seq(0 .. Wrap - 1 \cup {Beyond}) /\ Len(Copied(n)) = n
          /\ \A i \in 1 .. n : /\ Copied(n)[i] = Plus(rcount, i - 1)
                               /\ Straight(n)[i] = IF RealR + i - 1 < Size THEN Plus(rcount, i - 1)
                                                   ELSE Beyond
                               /\ Plus(rcount, i - 1) # Beyond
      BY <1>1, <1>3, TakenBytes
    <3>2. taken' \in Seq(0 .. Wrap - 1 \cup {Beyond}) /\ Len(taken') = n
      BY <2>4, <3>1
    <3>3. ASSUME NEW i \in 1 .. n
          PROVE  IF taken'[i] = Beyond THEN reload ELSE taken'[i] = Plus(rcount, i - 1)
      <4>1. CASE taken' = Copied(n)
        BY <3>1, <4>1
      <4>2. CASE taken' = Straight(n) /\ (~reload => n <= rlen)
        <5>1. ~reload => RealR + i - 1 < Size
          BY <1>2, <2>1, <2>3, <4>2
        <5> QED BY <3>1, <4>2, <5>1
      <4> QED BY <2>4, <4>1, <4>2
    <3>4. ReadsInOrder'
      <4>1. DOMAIN taken' = 1 .. n
        BY <3>2
      <4> QED BY <2>1, <3>3, <4>1 DEF ReadsInOrder
    <3>5. ReaderInv'
      <4>1. n <= DataSize
        BY <1>2
      <4> QED BY <2>1, <2>2, <3>2, <4>1 DEF ReaderInv
    <3> QED BY <1>4, <2>1, <2>3, <3>2, <3>4, <3>5
  <2>5. CASE want > 0 /\ taken' = PacketBytes
    <3>1. want \in 0 .. DataSize
      BY <1>2, <2>1, <2>3
    <3>2. \/ taken' = Copied(want)
          \/ taken' = Straight(want) /\ want <= rlen
      BY <2>3, <2>5 DEF PacketBytes
    <3> QED BY <2>4, <3>1, <3>2
  <2>6. CASE want = 0 /\ \E n \in 1 .. rlen : taken' = Straight(n)
    <3>1. PICK n \in 1 .. rlen : taken' = Straight(n)
      BY <2>6
    <3>2. n \in 0 .. DataSize /\ n <= rlen
      BY <1>2, <2>1, <2>3, <3>1
    <3> QED BY <2>4, <3>1, <3>2
  <2> QED BY <1>8, <2>5, <2>6 DEF Take
\* The reader moves on by what it took: what is left was behind that, and there is more room.
<1>9. CASE Consume
  <2>1. /\ pcR' = "idle" /\ want' = 0 /\ rlen' = 0 /\ taken' = <<>>
        /\ rcount' = Plus(rcount, Len(taken)) /\ Len(taken) <= DataSize
        /\ UNCHANGED <<buff, pcW, wlen, wcount, reload>>
    BY <1>9 DEF Consume, BufferInv, ReaderInv, writer
  <2>2. PICK d \in 0 .. Size : d = DataSize
    BY <1>2
  <2>3. PICK n \in 0 .. Size : n = Len(taken) /\ n <= d
    <3>1. Len(taken) \in Nat
      BY <1>1 DEF TypeOK
    <3> QED BY <1>2, <2>1, <2>2, <3>1
  <2>4. PICK e \in 0 .. Size : e = d - n
    <3>1. Size \in Nat
      BY <1>2
    <3>2. n <= d
      BY <2>3
    <3>3. d - n \in 0 .. Size
      BY <3>1, <3>2
    <3> QED BY <3>3
  <2>5. rcount' = Plus(rcount, n) /\ rcount' \in 0 .. Wrap - 1
    BY <1>2, <2>1, <2>3, PlusProperties
  <2>6. ASSUME NEW k \in 0 .. Size, n + k <= Size
        PROVE  Plus(rcount', k) = Plus(rcount, n + k)
    BY <1>2, <2>5, <2>6, PlusTwice
  <2>7. wcount' = Plus(rcount', e)
    <3>1. n + e = d /\ n + e <= Size
      BY <1>2, <2>3, <2>4
    <3> QED BY <1>2, <2>1, <2>2, <2>6, <3>1
  <2>8. DataSize' = e
    <3>1. Minus(Plus(rcount', e), rcount') = e
      BY <2>5, DistanceAfter
    <3> QED BY <2>7, <3>1 DEF DataSize
  <2>9. ASSUME NEW m \in 0 .. Size, n + m <= Size, Holds(n + m)
        PROVE  Holds(m)'
    <3>1. ASSUME NEW k \in 0 .. m - 1
          PROVE  buff'[Plus(rcount', k) % Size] = Plus(rcount', k)
      <4>1. k \in 0 .. Size /\ n + k <= Size /\ n + k \in 0 .. (n + m) - 1
        BY <1>2, <2>3, <2>9
      <4>2. buff[Plus(rcount, n + k) % Size] = Plus(rcount, n + k)
        BY <2>9, <4>1 DEF Holds
      <4>3. Plus(rcount', k) = Plus(rcount, n + k)
        BY <2>6, <4>1
      <4> QED BY <2>1, <4>2, <4>3
    <3> QED BY <3>1 DEF Holds
  <2>10. Holds(DataSize)'
    <3>1. n + e = DataSize /\ n + e <= Size
      BY <1>2, <2>2, <2>3, <2>4
    <3>2. Holds(n + e)
      BY <1>3, <3>1
    <3>3. Holds(e)'
      BY <2>9, <3>1, <3>2
    <3> QED BY <2>8, <3>3 DEF Holds
  <2>11. DataSize' <= DataSize /\ DataSize' \in 0 .. Size
    BY <1>2, <2>2, <2>3, <2>4, <2>8
  <2>12. TypeOK'
    <3>1. DataSize' <= Size
      BY <1>2, <2>11
    <3>2. <<>> \in Seq(0 .. Wrap - 1 \cup {Beyond}) /\ 0 \in 0 .. Size
      BY <1>2
    <3> QED BY <1>1, <2>1, <2>5, <3>1, <3>2 DEF TypeOK
  <2>13. wlen' <= Size - DataSize'
    <3>1. Size \in Nat /\ wlen \in 0 .. Size /\ wlen <= Size - d /\ wlen' = wlen
      BY <1>2, <1>3, <2>1, <2>2
    <3> QED BY <2>2, <2>3, <2>4, <2>8, <3>1
  <2>14. UnreadIntact'
    BY <2>10, <2>13 DEF UnreadIntact, Holds, GetUnUsed
  <2>15. ReadsInOrder' /\ ReaderInv'
    BY <2>1 DEF ReadsInOrder, ReaderInv
  <2>16. WriterInv'
    <3>1. ASSUME pcW' = "room" PROVE DataSize' < Size
      <4>1. DataSize < Size
        BY <2>1, <3>1 DEF BufferInv, WriterInv
      <4> QED BY <1>2, <2>11, <4>1
    <3>2. ASSUME pcW' = "publish" PROVE Holds(DataSize + wlen)'
      <4>1. Holds(d + wlen)
        BY <2>1, <2>2, <3>2 DEF BufferInv, WriterInv
      <4>2. PICK m \in 0 .. Size : m = e + wlen /\ n + m = d + wlen /\ n + m <= Size
        <5>1. Size \in Nat /\ wlen \in 0 .. Size /\ wlen <= Size - d
          BY <1>2, <1>3, <2>2
        <5> QED BY <2>2, <2>3, <2>4, <5>1
      <4>3. Holds(m)'
        BY <2>9, <4>1, <4>2
      <4>4. m = DataSize' + wlen'
        BY <2>1, <2>8, <4>2
      <4> QED BY <4>3, <4>4 DEF Holds
    <3> QED BY <3>1, <3>2 DEF WriterInv
  <2> QED BY <2>12, <2>14, <2>15, <2>16 DEF BufferInv
<1> QED BY <1>5, <1>6, <1>7, <1>8, <1>9

LEMMA BufferInvAlways == Spec => []BufferInv
<1>1. BufferInv /\ [Next]_vars => BufferInv'
  <2> SUFFICES ASSUME BufferInv, [Next]_vars
               PROVE  BufferInv'
    OBVIOUS
  <2>1. CASE \/ \E n \in 0 .. Size + 1 : WriteBegin(n)
             \/ CanWriteBegin \/ CanWriteEnd \/ Fill \/ Publish
    BY <2>1, WriterSteps
  <2>2. CASE \/ \E p \in 0 .. Size : ReadBegin(p)
             \/ CanRead \/ CanReadLength \/ Take \/ Consume
    BY <2>2, ReaderSteps
  <2>3. CASE UNCHANGED vars
    <3>1. UNCHANGED <<buff, wcount, rcount, pcW, wlen, pcR, want, rlen, taken, reload>>
      BY <2>3 DEF vars, writer, reader
    <3>2. UNCHANGED <<DataSize, RealR>>
      BY <3>1 DEF DataSize, RealR
    <3>3. TypeOK' /\ UnreadIntact' /\ ReadsInOrder'
      BY <3>1, <3>2 DEF BufferInv, TypeOK, UnreadIntact, ReadsInOrder, GetUnUsed
    <3>4. WriterInv' /\ ReaderInv'
      BY <3>1, <3>2 DEF BufferInv, WriterInv, ReaderInv, Holds
    <3> QED BY <3>3, <3>4 DEF BufferInv
  <2> QED BY <2>1, <2>2, <2>3 DEF Next
<1> QED BY InitBufferInv, <1>1, PTL DEF Spec

(***************************************************************************)
(* The theorems.                                                           *)
(***************************************************************************)

\* Every variable of the ring of bytes keeps its type, and the wrapping counters of the
\* two threads are never further apart than the size of the memory.
THEOREM TypeCorrect == Spec => []TypeOK
<1>1. BufferInv => TypeOK
  BY DEF BufferInv
<1> QED BY <1>1, BufferInvAlways, PTL

\* Write and recv put bytes only where the reader is done: what was published is where
\* the reader looks for it until it is read, across the wrap of the counters.
THEOREM UnreadBytesIntact == Spec => []UnreadIntact
<1>1. BufferInv => UnreadIntact
  BY DEF BufferInv
<1> QED BY <1>1, BufferInvAlways, PTL

\* OnSend and OnRecv get the bytes in the order they were written, whatever the writer
\* does between the two loads of its counter; behind the end of the memory they read only
\* where GetCanReadBuff loads that counter twice.
THEOREM BytesReadInOrder == Spec => []ReadsInOrder
<1>1. BufferInv => ReadsInOrder
  BY DEF BufferInv
<1> QED BY <1>1, BufferInvAlways, PTL
=============================================================================
