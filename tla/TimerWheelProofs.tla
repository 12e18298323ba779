-------------------------- MODULE TimerWheelProofs --------------------------
(***************************************************************************)
(* Proofs about TimerWheel, for every number of timers, of levels and of   *)
(* slots: no timer is lost or used after its release, none is called after *)
(* its OnTerminate, each is called in exactly the jiffy it is due, and so  *)
(* the wheel implements TimerService.                                      *)
(***************************************************************************)
EXTENDS TimerWheel, WellFoundedInduction, TLAPS

(***************************************************************************)
(* The inductive invariant.                                                *)
(***************************************************************************)

\* A root slot holds a timer that is due before the root comes round to it again.
InRoot(l, due, j) == l = <<0, due % RootSize>> /\ j <= due /\ due < j + RootSize

\* The slot of a level is cascaded in the jiffies c * Span, one of which lies between the
\* jiffy from and the one in which the timer is due.
InLevel(l, due, from) ==
  \E n \in 1 .. Levels, c \in Nat :
    l = <<n, c % NodeSize>> /\ from <= c * Span[n - 1] /\ c * Span[n - 1] <= due

\* The wheel reaches every timer in time; only the root holds timers whose delay was negative.
PlacedInTime(b) ==
  /\ slot[b] \in Slots =>
       \/ InRoot(slot[b], timer[b].due, jiffies)
       \/ InLevel(slot[b], timer[b].due, jiffies) /\ timer[b].expires = timer[b].due
  /\ slot[b] = WorkList => timer[b].due = jiffies - 1 /\ pc # "idle"

\* A timer out of the pool can be reached, one in the pool is as the constructor left it and
\* cannot.
Reachable(b) ==
  IF b \in live THEN slot[b] # NoList \/ b = cur \/ b \in Ending
  ELSE slot[b] = NoList /\ b # cur /\ b \notin Ending /\ timer[b] = Fresh

\* A timer in its callback is in no list, and only that one is not to be released.
ExecHolds(b) == /\ timer[b].canRelease <=> b # cur
                /\ b = cur => b \in live /\ slot[b] = NoList

\* A timer being ended is marked; a marked one is being ended, or was and waits for Exec to
\* release it.
EndHolds(b) == /\ b \in Ending => b \in live /\ timer[b].remove
               /\ timer[b].remove => timer[b].count = 0 /\ (b \in Ending \/ b = cur)

BaseInv(b) == PlacedInTime(b) /\ Reachable(b) /\ ExecHolds(b) /\ EndHolds(b)

\* The calls of End in progress are for different timers.
EndsDiffer == \A i, j \in DOMAIN ends : ends[i] = ends[j] => i = j

IInv == TypeOK /\ EndsDiffer /\ \A b \in Bases : BaseInv(b)

(***************************************************************************)
(* Numbers.                                                                *)
(***************************************************************************)

\* A set of natural numbers that is not empty has a least one.
LEMMA Least ==
  ASSUME NEW T \in SUBSET Nat, T # {}
  PROVE  \E x \in T : \A y \in T : x <= y
<1> DEFINE R == OpToRel(<, Nat)
<1>1. \A x, y \in Nat : y < x => <<y, x>> \in R
  BY DEF OpToRel
<1>2. IsWellFoundedOn(R, Nat)
  BY NatLessThanWellFounded
<1> HIDE DEF R
<1>3. PICK x \in T : \A y \in T : ~ (<<y, x>> \in R)
  BY <1>2, WFMin
<1>4. x \in Nat
  BY <1>3
<1>5. ASSUME NEW y \in T PROVE x <= y
  <2>1. y \in Nat
    OBVIOUS
  <2>2. ~ (<<y, x>> \in R)
    BY <1>3, <1>5
  <2>3. ~ (y < x)
    BY <1>1, <1>4, <2>1, <2>2, Zenon
  <2> QED BY <1>4, <2>1, <2>3
<1> QED BY <1>5

\* Quotient and remainder, and that there is only one way to divide.
LEMMA Division ==
  ASSUME NEW s \in Nat \ {0}, NEW x \in Int
  PROVE  /\ x \div s \in Int /\ x % s \in 0 .. s - 1 /\ x = (x \div s) * s + (x % s)
         /\ \A q \in Int, r \in 0 .. s - 1 : x = q * s + r => x \div s = q /\ x % s = r
<1>1. x \div s \in Int /\ x % s \in 0 .. s - 1 /\ x = s * (x \div s) + (x % s)
  OBVIOUS
<1>2. x = (x \div s) * s + (x % s)
  BY <1>1
<1>3. ASSUME NEW q \in Int, NEW r \in 0 .. s - 1, x = q * s + r
      PROVE  x \div s = q /\ x % s = r
  BY <1>1, <1>3
<1> QED BY <1>1, <1>2, <1>3

\* A product of natural numbers, the second positive, is at least the first.
LEMMA ProductGrows ==
  ASSUME NEW q \in Nat, NEW s \in Nat \ {0}
  PROVE  q * s \in Nat /\ q <= q * s
OBVIOUS

\* The products of three numbers.
LEMMA Associates ==
  ASSUME NEW x \in Int, NEW y \in Int, NEW z \in Int
  PROVE  x * y \in Int /\ (x * y) * z = x * (y * z)
OBVIOUS

\* Two numbers less than s apart with the same remainder are the same.
LEMMA SameRemainder ==
  ASSUME NEW s \in Nat \ {0}, NEW x \in Int, NEW y \in Int,
         x <= y, y < x + s, x % s = y % s
  PROVE  x = y
<1>1. PICK p \in Int : p = x \div s /\ x = p * s + (x % s)
  BY Division
<1>2. PICK q \in Int : q = y \div s /\ y = q * s + (y % s)
  BY Division
<1>3. x % s \in Int
  BY Division
<1>4. y - x = q * s - p * s
  BY <1>1, <1>2, <1>3
<1>5. p <= q
  <2>1. ASSUME q < p PROVE FALSE
    <3>1. q * s + s <= p * s
      BY <2>1
    <3> QED BY <1>4, <3>1
  <2> QED BY <2>1
<1>6. q <= p
  <2>1. ASSUME p < q PROVE FALSE
    <3>1. p * s + s <= q * s
      BY <2>1
    <3> QED BY <1>4, <3>1
  <2> QED BY <2>1
<1>7. p = q
  BY <1>5, <1>6
<1> QED BY <1>1, <1>2, <1>7

(***************************************************************************)
(* The levels.                                                             *)
(***************************************************************************)

\* The sizes of the wheel.
LEMMA Sizes ==
  /\ RootSize \in Nat \ {0} /\ NodeSize \in Nat \ {0, 1} /\ Levels \in Nat \ {0}
  /\ Span \in [0 .. Levels -> Nat] /\ Span[0] = RootSize
  /\ \A n \in 1 .. Levels : Span[n] = NodeSize * Span[n - 1]
BY SizeAssumption, SpanAssumption

\* What a level reaches is a multiple of what a lower one reaches.
LEMMA SpanMultiple ==
  ASSUME NEW m \in 0 .. Levels
  PROVE  \A n \in m .. Levels : \E q \in Nat \ {0} : Span[n] = q * Span[m]
<1> DEFINE Multiple(n) == \E q \in Nat \ {0} : Span[n] = q * Span[m]
           T == {n \in Nat : n \in m .. Levels /\ ~ Multiple(n)}
<1>1. /\ NodeSize \in Nat \ {0} /\ Levels \in Nat \ {0} /\ Span \in [0 .. Levels -> Nat]
      /\ \A n \in 1 .. Levels : Span[n] = NodeSize * Span[n - 1]
  BY Sizes
<1>2. ASSUME T # {} PROVE FALSE
  <2>1. PICK n \in T : \A k \in T : n <= k
    BY <1>2, Least
  <2>2. n \in m .. Levels /\ ~ Multiple(n) /\ m \in Nat
    BY <1>1, <2>1
  <2>3. CASE n = m
    <3>1. Span[m] \in Nat
      BY <1>1
    <3>2. Span[m] = 1 * Span[m]
      BY <3>1
    <3> QED BY <2>2, <2>3, <3>2
  <2>4. CASE n # m
    <3>1. PICK p \in m .. Levels : p = n - 1
      BY <1>1, <2>2, <2>4
    <3>2. p \notin T
      BY <1>1, <2>1, <2>2, <3>1
    <3>3. PICK q \in Nat \ {0} : Span[p] = q * Span[m]
      BY <1>1, <2>2, <3>1, <3>2
    <3>4. Span[n] = NodeSize * Span[p]
      BY <1>1, <2>2, <2>4, <3>1
    <3>5. PICK r \in Nat \ {0} : r = NodeSize * q
      BY <1>1, <3>3
    <3>6. Span[m] \in Int
      BY <1>1
    <3>7. (NodeSize * q) * Span[m] = NodeSize * (q * Span[m])
      BY <1>1, <3>3, <3>6, Associates
    <3>8. Span[n] = r * Span[m]
      BY <3>3, <3>4, <3>5, <3>7
    <3> QED BY <2>2, <3>5, <3>8
  <2> QED BY <2>3, <2>4
<1>3. \A n \in m .. Levels : n \in Nat
  BY <1>1
<1> QED BY <1>2, <1>3

\* Every level reaches somewhere, and no further than a higher one.
LEMMA SpanGrows ==
  ASSUME NEW m \in 0 .. Levels, NEW n \in m .. Levels
  PROVE  Span[m] \in Nat \ {0} /\ Span[m] <= Span[n]
<1>1. /\ RootSize \in Nat \ {0} /\ Levels \in Nat \ {0}
      /\ Span \in [0 .. Levels -> Nat] /\ Span[0] = RootSize
  BY Sizes
<1>2. Span[m] \in Nat \ {0}
  <2>1. 0 \in 0 .. Levels /\ m \in 0 .. Levels
    BY <1>1
  <2>2. PICK q \in Nat \ {0} : Span[m] = q * Span[0]
    BY <2>1, SpanMultiple
  <2>3. q * RootSize \in Nat /\ q <= q * RootSize
    BY <1>1, <2>2, ProductGrows
  <2> QED BY <1>1, <2>2, <2>3
<1>3. PICK q \in Nat \ {0} : Span[n] = q * Span[m]
  BY SpanMultiple
<1>4. \A x \in Nat \ {0} : x <= q * x
  BY <1>3
<1> QED BY <1>2, <1>3, <1>4

\* The least level that reaches as far as idx, or the last one.
LEMMA LevelExists ==
  ASSUME NEW idx \in Int
  PROVE  \E n \in 1 .. Levels : /\ idx < Span[n] \/ n = Levels
                                /\ \A m \in 1 .. n - 1 : idx >= Span[m]
<1> DEFINE T == {n \in Nat : n \in 1 .. Levels /\ (idx < Span[n] \/ n = Levels)}
<1>1. Levels \in Nat \ {0} /\ Span \in [0 .. Levels -> Nat]
  BY Sizes
<1>2. Levels \in T
  BY <1>1
<1>3. PICK n \in T : \A k \in T : n <= k
  BY <1>2, Least
<1>4. n \in 1 .. Levels /\ n \in Nat /\ (idx < Span[n] \/ n = Levels)
  BY <1>3
<1>5. ASSUME NEW m \in 1 .. n - 1
      PROVE  idx >= Span[m]
  <2>1. m \in Nat /\ m \in 1 .. Levels /\ m < n
    BY <1>1, <1>4
  <2>2. m \notin T
    BY <1>3, <1>4, <2>1
  <2>3. ~ (idx < Span[m])
    BY <2>1, <2>2
  <2>4. Span[m] \in Nat
    BY <1>1, <2>1
  <2> QED BY <2>3, <2>4
<1> QED BY <1>4, <1>5

\* AddTimer finds a slot from which the timer is called when it is due: in the root, or in
\* one that is cascaded after this jiffy and not after the one in which it is due.
LEMMA AddTimerPlaces ==
  ASSUME jiffies \in Nat, NEW expires \in Int,
         NEW due \in Int, due = IF expires < jiffies THEN jiffies ELSE expires
  PROVE  /\ AddTimer(expires) \in Slots
         /\ \/ InRoot(AddTimer(expires), due, jiffies)
            \/ InLevel(AddTimer(expires), due, jiffies + 1) /\ expires = due
<1>1. /\ RootSize \in Nat \ {0} /\ NodeSize \in Nat \ {0, 1} /\ Levels \in Nat \ {0}
      /\ Span \in [0 .. Levels -> Nat] /\ Span[0] = RootSize
  BY Sizes
<1>2. PICK idx \in Int : idx = expires - jiffies
  OBVIOUS
<1>3. ASSUME NEW x \in Int
      PROVE  x % RootSize \in 0 .. RootSize - 1 /\ x % NodeSize \in 0 .. NodeSize - 1
  <2>1. NodeSize \in Nat \ {0} /\ RootSize \in Nat \ {0}
    BY <1>1
  <2> QED BY <2>1, Division
<1>4. CASE idx < 0
  <2>1. AddTimer(expires) = <<0, jiffies % RootSize>>
    BY <1>1, <1>2, <1>4 DEF AddTimer
  <2>2. due = jiffies
    BY <1>2, <1>4
  <2>3. <<0, jiffies % RootSize>> \in Slots
    BY <1>3 DEF Slots
  <2>4. InRoot(AddTimer(expires), due, jiffies)
    BY <1>1, <2>1, <2>2 DEF InRoot
  <2> QED BY <2>1, <2>3, <2>4
<1>5. CASE 0 <= idx /\ idx < RootSize
  <2>1. AddTimer(expires) = <<0, expires % RootSize>>
    BY <1>1, <1>2, <1>5 DEF AddTimer
  <2>2. due = expires /\ jiffies <= due /\ due < jiffies + RootSize
    BY <1>1, <1>2, <1>5
  <2>3. <<0, expires % RootSize>> \in Slots
    BY <1>3 DEF Slots
  <2>4. InRoot(AddTimer(expires), due, jiffies)
    BY <2>1, <2>2 DEF InRoot
  <2> QED BY <2>1, <2>3, <2>4
<1>6. CASE idx >= RootSize
  <2>1. due = expires
    BY <1>1, <1>2, <1>6
  <2> DEFINE Level(n) == /\ expires - jiffies < Span[n] \/ n = Levels
                         /\ \A m \in 1 .. n - 1 : expires - jiffies >= Span[m]
             level == CHOOSE n \in 1 .. Levels : Level(n)
             far == IF expires - jiffies > Farthest THEN jiffies + Farthest ELSE expires
  <2>2. level \in 1 .. Levels /\ Level(level)
    <3>1. \E n \in 1 .. Levels : Level(n)
      BY <1>2, LevelExists
    <3> QED BY <3>1, Zenon
  <2>3. AddTimer(expires) = <<level, Index(level, far)>>
    <3>1. /\ ~ (expires - jiffies < 0) /\ ~ (expires - jiffies < RootSize)
          /\ expires - jiffies >= RootSize
      BY <1>1, <1>2, <1>6
    <3> QED BY <3>1, Zenon DEF AddTimer
  <2> HIDE DEF level
  <2>4. PICK s \in Nat \ {0} : s = Span[level - 1]
    <3>1. level - 1 \in 0 .. Levels /\ level - 1 \in level - 1 .. Levels
      BY <1>1, <2>2
    <3> QED BY <3>1, SpanGrows
  <2>5. idx >= s
    <3>1. CASE level = 1
      BY <1>1, <1>6, <2>4, <3>1
    <3>2. CASE level # 1
      <4>1. level - 1 \in 1 .. level - 1
        BY <1>1, <2>2, <3>2
      <4> QED BY <1>2, <2>2, <2>4, <4>1
    <3> QED BY <3>1, <3>2
  \* Cut at the reach of the wheel, it is still later than the slots that are now cascaded.
  <2>6. far \in Int /\ far >= jiffies + s /\ far <= due
    <3>1. CASE idx > Farthest
      <4>1. far = jiffies + Farthest
        BY <1>2, <3>1
      <4>2. Span[Levels] = NodeSize * Span[Levels - 1] /\ Span[Levels] \in Nat
        BY <1>1, Sizes
      <4>3. level - 1 \in 0 .. Levels /\ Levels - 1 \in level - 1 .. Levels
        BY <1>1, <2>2
      <4>4. s <= Span[Levels - 1] /\ Span[Levels - 1] \in Nat
        BY <1>1, <2>4, <4>3, SpanGrows
      <4>5. 2 * Span[Levels - 1] <= NodeSize * Span[Levels - 1]
        BY <1>1, <4>4
      <4>6. Farthest \in Nat /\ Farthest >= s
        BY <2>4, <4>2, <4>4, <4>5 DEF Farthest
      <4> QED BY <1>2, <2>1, <2>4, <3>1, <4>1, <4>6
    <3>2. CASE ~ (idx > Farthest)
      <4>1. far = expires
        BY <1>2, <3>2
      <4> QED BY <1>2, <2>1, <2>4, <2>5, <4>1
    <3> QED BY <3>1, <3>2
  <2> HIDE DEF far
  <2>7. PICK c \in Int : /\ c = far \div s
                         /\ far = c * s + (far % s)
                         /\ far % s \in 0 .. s - 1
    BY <2>4, <2>6, Division
  <2>8. PICK y \in Int : y = c * s /\ y <= due /\ jiffies + 1 <= y
    <3>1. PICK z \in Int : z = c * s
      BY <2>4, <2>7
    <3>2. PICK r \in 0 .. s - 1 : r = far % s
      BY <2>7
    <3>3. far = z + r
      BY <2>7, <3>1, <3>2
    <3>4. z <= due /\ jiffies + 1 <= z
      BY <2>4, <2>6, <3>1, <3>2, <3>3
    <3> QED BY <3>1, <3>4
  <2>9. c \in Nat
    <3>1. ASSUME c < 0 PROVE FALSE
      <4>1. \A x \in Int, t \in Nat : x < 0 => x * t <= 0
        OBVIOUS
      <4>2. c * s <= 0
        BY <2>4, <2>7, <3>1, <4>1
      <4> QED BY <2>8, <4>2
    <3> QED BY <2>7, <3>1
  <2>10. AddTimer(expires) = <<level, c % NodeSize>>
    BY <2>3, <2>4, <2>7 DEF Index
  <2>11. AddTimer(expires) \in Slots
    BY <1>3, <2>2, <2>7, <2>10, SMTT(40) DEF Slots
  <2>12. InLevel(AddTimer(expires), due, jiffies + 1)
    BY <2>2, <2>4, <2>8, <2>9, <2>10 DEF InLevel
  <2> QED BY <2>1, <2>11, <2>12
<1> QED BY <1>1, <1>2, <1>4, <1>5, <1>6

\* In a jiffy that is a multiple of its span, a level is cascaded: all the lower ones are.
LEMMA CascadeReaches ==
  ASSUME NEW n \in 1 .. Levels, NEW c \in Nat, NEW j \in Nat, j = c * Span[n - 1]
  PROVE  <<n, c % NodeSize>> \in Cascading(j)
<1>1. /\ RootSize \in Nat \ {0} /\ NodeSize \in Nat \ {0} /\ Levels \in Nat \ {0}
      /\ Span \in [0 .. Levels -> Nat] /\ Span[0] = RootSize
      /\ \A m \in 1 .. Levels : Span[m] = NodeSize * Span[m - 1]
  BY Sizes
<1>2. PICK s \in Nat \ {0} : s = Span[n - 1]
  <2>1. n - 1 \in 0 .. Levels /\ n - 1 \in n - 1 .. Levels
    BY <1>1
  <2> QED BY <2>1, SpanGrows
\* What j is a multiple of, it has no remainder for.
<1>3. ASSUME NEW t \in Nat \ {0}, NEW k \in Int, j = k * t
      PROVE  j \div t = k /\ j % t = 0
  <2>1. j = k * t + 0 /\ 0 \in 0 .. t - 1 /\ j \in Int
    BY <1>3
  <2>2. \A q \in Int, r \in 0 .. t - 1 : j = q * t + r => j \div t = q /\ j % t = r
    BY <2>1, Division
  <2> QED BY <2>1, <2>2, Zenon
<1>4. ASSUME NEW m \in 0 .. n - 1
      PROVE  \E k \in Int : j = k * Span[m]
  <2>1. m \in 0 .. Levels /\ n - 1 \in m .. Levels
    BY <1>1
  <2>2. PICK q \in Nat \ {0} : Span[n - 1] = q * Span[m]
    BY <2>1, SpanMultiple
  <2>3. Span[m] \in Int
    BY <1>1, <2>1
  <2>4. (c * q) * Span[m] = c * (q * Span[m]) /\ c * q \in Int
    BY <2>2, <2>3, Associates
  <2> QED BY <2>2, <2>4
<1>5. j % RootSize = 0
  <2>1. 0 \in 0 .. n - 1
    BY <1>1
  <2>2. PICK k \in Int : j = k * Span[0]
    BY <1>4, <2>1
  <2> QED BY <1>1, <1>3, <2>2
<1>6. ASSUME NEW m \in 1 .. n - 1
      PROVE  Index(m, j) = 0
  <2>1. m \in 0 .. n - 1 /\ m \in 1 .. Levels
    BY <1>1
  <2>2. PICK k \in Int : j = k * Span[m]
    BY <1>4, <2>1
  <2>3. PICK t \in Nat \ {0} : t = Span[m - 1]
    <3>1. m - 1 \in 0 .. Levels /\ m - 1 \in m - 1 .. Levels
      BY <1>1
    <3> QED BY <3>1, SpanGrows
  <2>4. Span[m] = NodeSize * t
    BY <1>1, <2>1, <2>3
  <2>5. (k * NodeSize) * t = k * (NodeSize * t) /\ k * NodeSize \in Int
    BY <1>1, <2>2, <2>3, Associates
  <2>6. j \div t = k * NodeSize
    BY <1>3, <2>2, <2>3, <2>4, <2>5
  <2>7. (k * NodeSize) % NodeSize = 0
    <3>1. PICK x \in Int : x = k * NodeSize
      BY <2>5
    <3>2. x = k * NodeSize + 0 /\ 0 \in 0 .. NodeSize - 1
      BY <1>1, <3>1
    <3>3. \A q \in Int, r \in 0 .. NodeSize - 1 : x = q * NodeSize + r => x % NodeSize = r
      <4>1. NodeSize \in Nat \ {0} /\ x \in Int
        BY <1>1, <3>1
      <4>2. \A q \in Int, r \in 0 .. NodeSize - 1 :
              x = q * NodeSize + r => x \div NodeSize = q /\ x % NodeSize = r
        BY <4>1, Division, Zenon
      <4> QED BY <4>2, Zenon
    <3>4. x % NodeSize = 0
      BY <2>2, <3>2, <3>3, Zenon
    <3> QED BY <3>1, <3>4
  <2> QED BY <2>3, <2>6, <2>7 DEF Index
<1>7. Index(n, j) = c % NodeSize
  <2>1. j \div s = c
    BY <1>2, <1>3
  <2> QED BY <1>2, <2>1 DEF Index
<1> QED BY <1>5, <1>6, <1>7 DEF Cascading

(***************************************************************************)
(* Lists, ends and timers.                                                 *)
(***************************************************************************)

\* The two other lists are not slots of the wheel.
LEMMA OtherLists == NoList \notin Slots /\ WorkList \notin Slots /\ NoList # WorkList
BY DEF NoList, WorkList, Slots

\* A slot that is cascaded later than from is cascaded from then on.
LEMMA InLevelFrom ==
  ASSUME NEW l, NEW due \in Int, NEW j \in Nat, InLevel(l, due, j + 1)
  PROVE  InLevel(l, due, j)
<1>1. PICK n \in 1 .. Levels, c \in Nat :
        l = <<n, c % NodeSize>> /\ j + 1 <= c * Span[n - 1] /\ c * Span[n - 1] <= due
  BY DEF InLevel
<1>2. Levels \in Nat /\ Span \in [0 .. Levels -> Nat]
  BY Sizes
<1>3. Span[n - 1] \in Nat
  BY <1>1, <1>2
<1>4. PICK y \in Nat : y = c * Span[n - 1]
  BY <1>1, <1>3
<1>5. j <= y
  BY <1>1, <1>4
<1> QED BY <1>1, <1>4, <1>5 DEF InLevel

\* KillTimer puts a call of End in front.
LEMMA EndPushed ==
  ASSUME ends \in Seq(Bases), EndsDiffer, NEW b \in Bases, b \notin Ending,
         ends' = <<b>> \o ends
  PROVE  /\ ends' \in Seq(Bases) /\ ends' # <<>> /\ EndsDiffer'
         /\ \A o \in Bases : o \in Ending' <=> o \in Ending \/ o = b
<1>1. Len(ends) \in Nat /\ DOMAIN ends = 1 .. Len(ends)
  OBVIOUS
<1>2. /\ ends' \in Seq(Bases) /\ Len(ends') = Len(ends) + 1
      /\ DOMAIN ends' = 1 .. Len(ends) + 1
      /\ ends'[1] = b
      /\ \A i \in 1 .. Len(ends) : ends'[i + 1] = ends[i]
  BY <1>1
<1>3. \A i \in 2 .. Len(ends) + 1 : i - 1 \in 1 .. Len(ends) /\ ends'[i] = ends[i - 1]
  BY <1>1, <1>2
<1>4. ASSUME NEW i \in DOMAIN ends', NEW j \in DOMAIN ends', ends'[i] = ends'[j]
      PROVE  i = j
  <2>1. \A k \in 1 .. Len(ends) : ends[k] # b
    BY <1>1 DEF Ending
  <2>2. CASE i = 1 \/ j = 1
    BY <1>1, <1>2, <1>3, <1>4, <2>1, <2>2
  <2>3. CASE i # 1 /\ j # 1
    <3>1. /\ i - 1 \in DOMAIN ends /\ j - 1 \in DOMAIN ends /\ i \in Nat /\ j \in Nat
          /\ ends[i - 1] = ends[j - 1]
      BY <1>1, <1>2, <1>3, <1>4, <2>3
    <3>2. i - 1 = j - 1
      BY <3>1 DEF EndsDiffer
    <3> QED BY <3>1, <3>2
  <2> QED BY <2>2, <2>3
<1>5. ASSUME NEW o \in Bases
      PROVE  o \in Ending' <=> o \in Ending \/ o = b
  <2>1. ASSUME o \in Ending' PROVE o \in Ending \/ o = b
    <3>1. PICK i \in DOMAIN ends' : o = ends'[i]
      BY <2>1 DEF Ending
    <3> QED BY <1>1, <1>2, <1>3, <3>1 DEF Ending
  <2>2. ASSUME o \in Ending \/ o = b PROVE o \in Ending'
    <3>1. CASE o = b
      <4>1. 1 \in DOMAIN ends'
        BY <1>1, <1>2
      <4> QED BY <1>2, <3>1, <4>1 DEF Ending
    <3>2. CASE o \in Ending
      <4>1. PICK i \in DOMAIN ends : o = ends[i]
        BY <3>2 DEF Ending
      <4>2. i + 1 \in DOMAIN ends' /\ ends'[i + 1] = o
        BY <1>1, <1>2, <4>1
      <4> QED BY <4>2 DEF Ending
    <3> QED BY <2>2, <3>1, <3>2
  <2> QED BY <2>1, <2>2
<1>6. ends' # <<>>
  BY <1>1, <1>2
<1> QED BY <1>2, <1>4, <1>5, <1>6 DEF EndsDiffer

\* The end of End takes the first call away, and no other one is for the same timer.
LEMMA EndPopped ==
  ASSUME ends \in Seq(Bases), EndsDiffer, ends # <<>>, ends' = Tail(ends)
  PROVE  /\ ends' \in Seq(Bases) /\ EndsDiffer'
         /\ Head(ends) \in Bases /\ Head(ends) \in Ending
         /\ \A o \in Bases : o \in Ending' <=> o \in Ending /\ o # Head(ends)
<1>1. Len(ends) \in Nat \ {0} /\ DOMAIN ends = 1 .. Len(ends)
  OBVIOUS
<1>2. /\ ends' \in Seq(Bases) /\ Len(ends') = Len(ends) - 1
      /\ DOMAIN ends' = 1 .. Len(ends) - 1
      /\ \A i \in 1 .. Len(ends) - 1 : ends'[i] = ends[i + 1]
  BY <1>1
<1>3. Head(ends) = ends[1] /\ 1 \in DOMAIN ends /\ ends[1] \in Bases
  BY <1>1
<1>4. \A i \in 1 .. Len(ends) - 1 : i \in Nat /\ i + 1 \in DOMAIN ends /\ i + 1 # 1
  BY <1>1
<1>5. ASSUME NEW i \in DOMAIN ends', NEW j \in DOMAIN ends', ends'[i] = ends'[j]
      PROVE  i = j
  <2>1. /\ i \in Nat /\ j \in Nat /\ i + 1 \in DOMAIN ends /\ j + 1 \in DOMAIN ends
        /\ ends[i + 1] = ends[j + 1]
    BY <1>2, <1>4, <1>5
  <2>2. i + 1 = j + 1
    BY <2>1 DEF EndsDiffer
  <2> QED BY <2>1, <2>2
<1>6. ASSUME NEW o \in Bases
      PROVE  o \in Ending' <=> o \in Ending /\ o # Head(ends)
  <2>1. ASSUME o \in Ending' PROVE o \in Ending /\ o # Head(ends)
    <3>1. PICK i \in DOMAIN ends' : o = ends'[i]
      BY <2>1 DEF Ending
    <3>2. i + 1 \in DOMAIN ends /\ i + 1 # 1 /\ o = ends[i + 1]
      BY <1>2, <1>4, <3>1
    <3>3. o # ends[1]
      BY <1>3, <3>2 DEF EndsDiffer
    <3> QED BY <1>3, <3>2, <3>3 DEF Ending
  <2>2. ASSUME o \in Ending, o # Head(ends) PROVE o \in Ending'
    <3>1. PICK i \in DOMAIN ends : o = ends[i]
      BY <2>2 DEF Ending
    <3>2. i # 1
      BY <1>3, <2>2, <3>1
    <3>3. PICK k \in 1 .. Len(ends) - 1 : i = k + 1
      BY <1>1, <3>1, <3>2, SMTT(40)
    <3> QED BY <1>2, <3>1, <3>3 DEF Ending
  <2> QED BY <2>1, <2>2
<1>7. ends[1] \in Ending
  BY <1>3 DEF Ending
<1> QED BY <1>2, <1>3, <1>5, <1>6, <1>7 DEF EndsDiffer

\* A step that has nothing to do with a timer.
LEMMA Untouched ==
  ASSUME NEW o \in Bases, BaseInv(o), timer'[o] = timer[o], slot'[o] = slot[o],
         jiffies' = jiffies, pc' = "idle" => slot[o] # WorkList,
         o \in live' <=> o \in live, o = cur' <=> o = cur, o \in Ending' <=> o \in Ending
  PROVE  BaseInv(o)'
<1>1. PlacedInTime(o)'
  BY DEF BaseInv, PlacedInTime, InRoot, InLevel
<1>2. Reachable(o)' /\ ExecHolds(o)' /\ EndHolds(o)'
  BY DEF BaseInv, Reachable, ExecHolds, EndHolds
<1> QED BY <1>1, <1>2 DEF BaseInv

(***************************************************************************)
(* One jiffy.                                                              *)
(***************************************************************************)

\* Process takes exactly the timers that are due into the work list, and leaves the others
\* where it will find them in time.
LEMMA JiffyPlaces ==
  ASSUME IInv, NextJiffy, NEW b \in Bases
  PROVE  /\ slot[b] # WorkList
         /\ slot[b] = NoList => slot'[b] = NoList
         /\ slot[b] \in Slots =>
              /\ timer[b].due >= jiffies
              /\ timer[b].due = jiffies => slot'[b] = WorkList
              /\ timer[b].due # jiffies =>
                   /\ slot'[b] \in Slots
                   /\ \/ InRoot(slot'[b], timer[b].due, jiffies + 1)
                      \/ /\ InLevel(slot'[b], timer[b].due, jiffies + 1)
                         /\ timer[b].expires = timer[b].due
<1>1. /\ RootSize \in Nat \ {0} /\ Levels \in Nat \ {0}
      /\ Span \in [0 .. Levels -> Nat]
  BY Sizes
<1>2. jiffies \in Nat /\ pc = "idle" /\ BaseInv(b) /\ timer[b] \in TimerFields
  BY DEF IInv, TypeOK, NextJiffy
<1>3. timer[b].due \in Int /\ timer[b].expires \in Int
  BY <1>2 DEF TimerFields
<1>4. slot[b] # WorkList
  BY <1>2 DEF BaseInv, PlacedInTime
<1> DEFINE moved == IF slot[b] \in Cascading(jiffies) THEN AddTimer(timer[b].expires) ELSE slot[b]
<1>5. slot'[b] = IF moved = <<0, jiffies % RootSize>> THEN WorkList ELSE moved
  BY DEF NextJiffy
<1>6. \A l \in Cascading(jiffies) : \E n \in 1 .. Levels : \E i : l = <<n, i>>
  BY DEF Cascading
<1>7. ASSUME slot[b] = NoList PROVE slot'[b] = NoList
  <2>1. NoList \notin Cascading(jiffies)
    BY <1>1, <1>6 DEF NoList
  <2>2. NoList # <<0, jiffies % RootSize>>
    BY DEF NoList
  <2> QED BY <1>5, <1>7, <2>1, <2>2
<1>8. ASSUME slot[b] \in Slots
      PROVE  /\ timer[b].due >= jiffies
             /\ timer[b].due = jiffies => slot'[b] = WorkList
             /\ timer[b].due # jiffies =>
                  /\ slot'[b] \in Slots
                  /\ \/ InRoot(slot'[b], timer[b].due, jiffies + 1)
                     \/ /\ InLevel(slot'[b], timer[b].due, jiffies + 1)
                        /\ timer[b].expires = timer[b].due
  <2> DEFINE due == timer[b].due
  <2>1. \/ InRoot(slot[b], due, jiffies)
        \/ InLevel(slot[b], due, jiffies) /\ timer[b].expires = due
    BY <1>2, <1>8 DEF BaseInv, PlacedInTime
  \* A slot of a level is found in the jiffy c * Span, if not before.
  <2>2. ASSUME InLevel(slot[b], due, jiffies)
        PROVE  due >= jiffies /\ (slot[b] \in Cascading(jiffies) \/ InLevel(slot[b], due, jiffies + 1))
    <3>1. PICK n \in 1 .. Levels, c \in Nat :
            /\ slot[b] = <<n, c % NodeSize>>
            /\ jiffies <= c * Span[n - 1] /\ c * Span[n - 1] <= due
      BY <2>2 DEF InLevel
    <3>2. PICK y \in Nat : y = c * Span[n - 1]
      <4>1. Span[n - 1] \in Nat
        BY <1>1, <3>1
      <4> QED BY <3>1, <4>1
    <3>3. jiffies <= y /\ y <= due
      BY <3>1, <3>2
    <3>4. due >= jiffies
      BY <1>2, <1>3, <3>2, <3>3
    <3>5. CASE y = jiffies
      <4>1. <<n, c % NodeSize>> \in Cascading(jiffies)
        BY <1>2, <3>1, <3>2, <3>5, CascadeReaches
      <4> QED BY <3>1, <3>4, <4>1
    <3>6. CASE y # jiffies
      <4>1. jiffies + 1 <= y
        BY <1>2, <3>2, <3>3, <3>6
      <4> QED BY <3>1, <3>2, <3>4, <4>1 DEF InLevel
    <3> QED BY <3>5, <3>6
  <2>3. due >= jiffies
    BY <1>2, <1>3, <2>1, <2>2 DEF InRoot
  <2>4. /\ moved \in Slots
        /\ InRoot(moved, due, jiffies) \/ (InLevel(moved, due, jiffies + 1) /\ timer[b].expires = due)
    <3>1. CASE slot[b] \in Cascading(jiffies)
      <4>1. ~ InRoot(slot[b], due, jiffies)
        BY <1>1, <1>6, <3>1 DEF InRoot
      <4>2. timer[b].expires = due
        BY <2>1, <4>1
      <4>3. due = IF timer[b].expires < jiffies THEN jiffies ELSE timer[b].expires
        BY <1>2, <1>3, <2>3, <4>2
      <4>4. PICK e \in Int : e = timer[b].expires
        BY <1>3
      <4>5. PICK d \in Int : d = due
        BY <1>3
      <4>6. /\ AddTimer(e) \in Slots
            /\ InRoot(AddTimer(e), d, jiffies) \/ (InLevel(AddTimer(e), d, jiffies + 1) /\ e = d)
        BY <1>2, <4>3, <4>4, <4>5, AddTimerPlaces
      <4> QED BY <3>1, <4>4, <4>5, <4>6
    <3>2. CASE slot[b] \notin Cascading(jiffies)
      BY <1>8, <2>1, <2>2, <3>2
    <3> QED BY <3>1, <3>2
  <2> HIDE DEF moved
  <2>5. CASE InRoot(moved, due, jiffies)
    <3>1. moved = <<0, due % RootSize>> /\ jiffies <= due /\ due < jiffies + RootSize
      BY <2>5 DEF InRoot
    <3>2. CASE due = jiffies
      BY <1>5, <2>3, <3>1, <3>2
    <3>3. CASE due # jiffies
      <4>1. PICK d \in Int : d = due
        BY <1>3
      <4>2. d % RootSize # jiffies % RootSize
        <5>1. PICK j \in Int : j = jiffies
          BY <1>2
        <5>2. j <= d /\ d < j + RootSize /\ j # d
          BY <3>1, <3>3, <4>1, <5>1
        <5>3. RootSize \in Nat \ {0}
          BY <1>1
        <5>4. j % RootSize # d % RootSize
          BY <4>1, <5>1, <5>2, <5>3, SameRemainder
        <5> QED BY <5>1, <5>4
      <4>3. moved # <<0, jiffies % RootSize>>
        BY <3>1, <4>1, <4>2
      <4>4. slot'[b] = moved
        BY <1>5, <4>3
      <4>5. jiffies + 1 <= due /\ due < jiffies + 1 + RootSize
        BY <1>1, <1>2, <1>3, <3>1, <3>3
      <4> QED BY <2>3, <2>4, <3>1, <3>3, <4>4, <4>5 DEF InRoot
    <3> QED BY <3>2, <3>3
  <2>6. CASE InLevel(moved, due, jiffies + 1) /\ timer[b].expires = due
    <3>1. PICK n \in 1 .. Levels, c \in Nat :
            /\ moved = <<n, c % NodeSize>>
            /\ jiffies + 1 <= c * Span[n - 1] /\ c * Span[n - 1] <= due
      BY <2>6 DEF InLevel
    <3>2. PICK y \in Nat : y = c * Span[n - 1]
      <4>1. Span[n - 1] \in Nat
        BY <1>1, <3>1
      <4> QED BY <3>1, <4>1
    <3>3. due # jiffies
      BY <1>2, <1>3, <3>1, <3>2
    <3>4. moved # <<0, jiffies % RootSize>>
      BY <1>1, <3>1
    <3> QED BY <1>5, <2>3, <2>4, <2>6, <3>3, <3>4
  <2> QED BY <2>4, <2>5, <2>6
<1> QED BY <1>4, <1>7, <1>8

(***************************************************************************)
(* The invariant.                                                          *)
(***************************************************************************)

\* The constructor of the wheel.
LEMMA InitIInv == Init => IInv
<1> SUFFICES ASSUME Init PROVE IInv
  OBVIOUS
<1>1. ends = <<>> /\ ends \in Seq(Bases) /\ DOMAIN ends = {}
  BY DEF Init
<1>2. Ending = {} /\ EndsDiffer
  BY <1>1 DEF Ending, EndsDiffer
<1>3. Fresh \in TimerFields
  BY DEF Fresh, TimerFields
<1>4. TypeOK
  BY <1>1, <1>3 DEF Init, TypeOK
<1>5. ASSUME NEW b \in Bases PROVE BaseInv(b)
  <2>1. slot[b] = NoList /\ timer[b] = Fresh /\ b # cur /\ b \notin live
    BY NoneAssumption DEF Init
  <2>2. PlacedInTime(b) /\ Reachable(b)
    BY <1>2, <2>1, OtherLists DEF PlacedInTime, Reachable
  <2>3. Fresh.canRelease = TRUE /\ Fresh.remove = FALSE
    BY DEF Fresh
  <2>4. ExecHolds(b) /\ EndHolds(b)
    BY <1>2, <2>1, <2>3 DEF ExecHolds, EndHolds
  <2> QED BY <2>2, <2>4 DEF BaseInv
<1> QED BY <1>2, <1>4, <1>5 DEF IInv

\* A new timer is placed in time.
LEMMA StartTimerIInv ==
  ASSUME IInv, NEW b \in Bases, StartTimer(b)
  PROVE  IInv'
<1>1. /\ TypeOK /\ EndsDiffer /\ \A o \in Bases : BaseInv(o)
      /\ jiffies \in Nat /\ live \subseteq Bases /\ b \notin live
  BY DEF IInv, TypeOK, StartTimer
<1>2. PICK delay \in Delays, interval \in Intervals, count \in Counts :
        /\ timer' = [timer EXCEPT ![b] =
             [Fresh EXCEPT !.expires = jiffies + delay, !.interval = interval,
                           !.count = count,
                           !.due = IF delay < 0 THEN jiffies ELSE jiffies + delay]]
        /\ slot' = [slot EXCEPT ![b] = AddTimer(jiffies + delay)]
  BY DEF StartTimer
<1>3. live' = live \cup {b} /\ UNCHANGED <<jiffies, cur, ends, pc>>
  BY DEF StartTimer
<1>4. delay \in Int /\ interval \in Nat /\ count \in Nat \cup {FOREVER}
  BY <1>2, ClientAssumption
<1>5. PICK e \in Int : e = jiffies + delay
  BY <1>1, <1>4
<1>6. PICK d \in Int : d = IF delay < 0 THEN jiffies ELSE jiffies + delay
  BY <1>1, <1>4
<1>7. /\ AddTimer(e) \in Slots
      /\ InRoot(AddTimer(e), d, jiffies) \/ (InLevel(AddTimer(e), d, jiffies + 1) /\ e = d)
  <2>1. d = IF e < jiffies THEN jiffies ELSE e
    BY <1>1, <1>4, <1>5, <1>6
  <2> QED BY <1>1, <2>1, AddTimerPlaces
<1>8. timer'[b] = [Fresh EXCEPT !.expires = e, !.interval = interval, !.count = count, !.due = d]
  BY <1>1, <1>2, <1>5, <1>6 DEF TypeOK
<1>9. /\ timer'[b] \in TimerFields /\ timer'[b].expires = e /\ timer'[b].due = d
      /\ timer'[b].canRelease = TRUE /\ timer'[b].remove = FALSE
  BY <1>4, <1>5, <1>6, <1>8 DEF Fresh, TimerFields
<1>10. slot'[b] = AddTimer(e)
  BY <1>1, <1>2, <1>5 DEF TypeOK
<1>11. /\ \A o \in Bases : o # b => timer'[o] = timer[o] /\ slot'[o] = slot[o]
       /\ DOMAIN timer' = Bases /\ DOMAIN slot' = Bases
       /\ timer' = [o \in Bases |-> timer'[o]] /\ slot' = [o \in Bases |-> slot'[o]]
  BY <1>1, <1>2 DEF TypeOK
<1>12. Ending' = Ending
  BY <1>3 DEF Ending
<1>13. TypeOK'
  <2>1. timer' \in [Bases -> TimerFields]
    BY <1>1, <1>9, <1>11 DEF TypeOK
  <2>2. slot' \in [Bases -> Slots \cup {NoList, WorkList}]
    BY <1>1, <1>7, <1>10, <1>11 DEF TypeOK
  <2> QED BY <1>1, <1>3, <2>1, <2>2 DEF TypeOK
<1>14. BaseInv(b)'
  <2>1. b # cur /\ b \notin Ending
    BY <1>1 DEF BaseInv, Reachable
  <2>2. slot'[b] # NoList /\ slot'[b] # WorkList
    BY <1>7, <1>10, OtherLists
  <2>3. InRoot(slot'[b], d, jiffies) \/ (InLevel(slot'[b], d, jiffies) /\ e = d)
    BY <1>1, <1>6, <1>7, <1>10, InLevelFrom
  <2>4. PlacedInTime(b)'
    BY <1>3, <1>9, <2>2, <2>3 DEF PlacedInTime, InRoot, InLevel
  <2>5. Reachable(b)' /\ ExecHolds(b)' /\ EndHolds(b)'
    BY <1>3, <1>9, <1>12, <2>1, <2>2 DEF Reachable, ExecHolds, EndHolds
  <2> QED BY <2>4, <2>5 DEF BaseInv
<1>15. ASSUME NEW o \in Bases, o # b PROVE BaseInv(o)'
  <2>1. pc' = "idle" => slot[o] # WorkList
    BY <1>1, <1>3 DEF BaseInv, PlacedInTime
  <2> QED BY <1>1, <1>3, <1>11, <1>12, <1>15, <2>1, Untouched
<1>16. EndsDiffer'
  BY <1>1, <1>3 DEF EndsDiffer
<1> QED BY <1>13, <1>14, <1>15, <1>16 DEF IInv

\* A timer is marked, and its End begins.
LEMMA KillTimerIInv ==
  ASSUME IInv, NEW b \in Bases, KillTimer(b)
  PROVE  IInv'
<1>1. /\ TypeOK /\ EndsDiffer /\ \A o \in Bases : BaseInv(o)
      /\ b \in live /\ ~ timer[b].remove /\ timer[b] \in TimerFields /\ ends \in Seq(Bases)
  BY DEF IInv, TypeOK, KillTimer
<1>2. /\ timer' = [timer EXCEPT ![b].count = 0, ![b].remove = TRUE]
      /\ ends' = <<b>> \o ends /\ UNCHANGED <<jiffies, slot, live, cur, pc>>
  BY DEF KillTimer
<1>3. timer'[b] = [timer[b] EXCEPT !.count = 0, !.remove = TRUE]
  BY <1>1, <1>2 DEF TypeOK
<1>4. /\ timer'[b] \in TimerFields
      /\ timer'[b].expires = timer[b].expires /\ timer'[b].due = timer[b].due
      /\ timer'[b].canRelease = timer[b].canRelease /\ timer'[b].remove = TRUE
      /\ timer'[b].count = 0
  <2>1. PICK t \in TimerFields : t = timer[b]
    BY <1>1
  <2>2. PICK u : u = [t EXCEPT !.count = 0]
    OBVIOUS
  <2>3. /\ u \in TimerFields /\ u.count = 0 /\ u.expires = t.expires /\ u.due = t.due
        /\ u.canRelease = t.canRelease
    BY <2>1, <2>2 DEF TimerFields
  <2>4. timer'[b] = [u EXCEPT !.remove = TRUE]
    BY <1>3, <2>1, <2>2
  <2> QED BY <2>1, <2>3, <2>4 DEF TimerFields
<1>5. /\ \A o \in Bases : o # b => timer'[o] = timer[o]
      /\ timer' = [o \in Bases |-> timer'[o]]
  BY <1>1, <1>2 DEF TypeOK
<1>6. b \notin Ending
  BY <1>1 DEF BaseInv, EndHolds
<1>7. /\ ends' \in Seq(Bases) /\ EndsDiffer'
      /\ \A o \in Bases : o \in Ending' <=> o \in Ending \/ o = b
  BY <1>1, <1>2, <1>6, EndPushed
<1>8. TypeOK'
  <2>1. timer' \in [Bases -> TimerFields]
    BY <1>1, <1>4, <1>5 DEF TypeOK
  <2> QED BY <1>1, <1>2, <1>7, <2>1 DEF TypeOK
<1>9. BaseInv(b)'
  <2>1. PlacedInTime(b)'
    BY <1>1, <1>2, <1>4 DEF BaseInv, PlacedInTime, InRoot, InLevel
  <2>2. Reachable(b)' /\ ExecHolds(b)' /\ EndHolds(b)'
    BY <1>1, <1>2, <1>4, <1>7 DEF BaseInv, Reachable, ExecHolds, EndHolds
  <2> QED BY <2>1, <2>2 DEF BaseInv
<1>10. ASSUME NEW o \in Bases, o # b PROVE BaseInv(o)'
  <2>1. pc' = "idle" => slot[o] # WorkList
    BY <1>1, <1>2 DEF BaseInv, PlacedInTime
  <2> QED BY <1>1, <1>2, <1>5, <1>7, <1>10, <2>1, Untouched
<1> QED BY <1>7, <1>8, <1>9, <1>10 DEF IInv

\* A timer goes back to the pool, unless Exec will do that.
LEMMA EndFinishIInv ==
  ASSUME IInv, EndFinish
  PROVE  IInv'
<1>1. /\ TypeOK /\ EndsDiffer /\ \A o \in Bases : BaseInv(o)
      /\ ends \in Seq(Bases) /\ ends # <<>> /\ ends' = Tail(ends)
  BY DEF IInv, TypeOK, EndFinish
<1>2. PICK b \in Bases : b = Head(ends)
  BY <1>1, EndPopped
<1>3. /\ ends' \in Seq(Bases) /\ EndsDiffer' /\ b \in Ending
      /\ \A o \in Bases : o \in Ending' <=> o \in Ending /\ o # b
  BY <1>1, <1>2, EndPopped
<1>4. /\ slot' = [slot EXCEPT ![b] = NoList]
      /\ live' = IF timer[b].canRelease THEN live \ {b} ELSE live
      /\ timer' = IF timer[b].canRelease THEN [timer EXCEPT ![b] = Fresh] ELSE timer
      /\ UNCHANGED <<jiffies, cur, pc>>
  BY <1>2 DEF EndFinish
<1>5. /\ slot'[b] = NoList
      /\ \A o \in Bases : o # b => timer'[o] = timer[o] /\ slot'[o] = slot[o]
  BY <1>1, <1>4 DEF TypeOK
<1>6. Fresh \in TimerFields /\ Fresh.canRelease = TRUE /\ Fresh.remove = FALSE
  BY DEF Fresh, TimerFields
<1>7. TypeOK'
  <2>1. timer' \in [Bases -> TimerFields]
    BY <1>1, <1>4, <1>6 DEF TypeOK
  <2>2. slot' \in [Bases -> Slots \cup {NoList, WorkList}]
    BY <1>1, <1>4 DEF TypeOK
  <2> QED BY <1>1, <1>3, <1>4, <2>1, <2>2 DEF TypeOK
<1>8. BaseInv(b)'
  <2>1. PlacedInTime(b)'
    BY <1>5, OtherLists DEF PlacedInTime
  <2>2. CASE timer[b].canRelease
    <3>1. b # cur /\ timer'[b] = Fresh
      BY <1>1, <1>4, <2>2 DEF BaseInv, ExecHolds, TypeOK
    <3> QED BY <1>3, <1>4, <1>5, <1>6, <2>1, <2>2, <3>1 DEF BaseInv, Reachable, ExecHolds, EndHolds
  <2>3. CASE ~ timer[b].canRelease
    <3>1. b = cur /\ timer'[b] = timer[b] /\ live' = live
      BY <1>1, <1>4, <2>3 DEF BaseInv, ExecHolds
    <3> QED BY <1>1, <1>3, <1>4, <1>5, <2>1, <3>1 DEF BaseInv, Reachable, ExecHolds, EndHolds
  <2> QED BY <2>2, <2>3
<1>9. ASSUME NEW o \in Bases, o # b PROVE BaseInv(o)'
  <2>1. pc' = "idle" => slot[o] # WorkList
    BY <1>1, <1>4 DEF BaseInv, PlacedInTime
  <2>2. o \in live' <=> o \in live
    BY <1>4, <1>9
  <2> QED BY <1>1, <1>3, <1>4, <1>5, <1>9, <2>1, <2>2, Untouched
<1> QED BY <1>3, <1>7, <1>8, <1>9 DEF IInv

\* The timers that are due come into the work list.
LEMMA NextJiffyIInv ==
  ASSUME IInv, NextJiffy
  PROVE  IInv'
<1>1. /\ TypeOK /\ EndsDiffer /\ \A o \in Bases : BaseInv(o)
      /\ jiffies \in Nat
  BY DEF IInv, TypeOK
<1>2. jiffies' = jiffies + 1 /\ pc' = "work" /\ UNCHANGED <<timer, live, cur, ends>> /\ pc = "idle"
  BY DEF NextJiffy
<1>3. slot' = [o \in Bases |-> slot'[o]]
  BY DEF NextJiffy
<1>4. Ending' = Ending /\ EndsDiffer'
  BY <1>1, <1>2 DEF Ending, EndsDiffer
<1>5. ASSUME NEW b \in Bases
      PROVE  /\ slot'[b] \in Slots \cup {NoList, WorkList}
             /\ slot[b] = NoList <=> slot'[b] = NoList
             /\ PlacedInTime(b)'
  <2>1. /\ slot[b] # WorkList
        /\ slot[b] = NoList => slot'[b] = NoList
        /\ slot[b] \in Slots =>
             /\ timer[b].due = jiffies => slot'[b] = WorkList
             /\ timer[b].due # jiffies =>
                  /\ slot'[b] \in Slots
                  /\ \/ InRoot(slot'[b], timer[b].due, jiffies + 1)
                     \/ /\ InLevel(slot'[b], timer[b].due, jiffies + 1)
                        /\ timer[b].expires = timer[b].due
    BY JiffyPlaces
  <2>2. slot[b] = NoList \/ slot[b] \in Slots
    BY <1>1, <2>1 DEF TypeOK
  <2>3. CASE slot[b] = NoList
    BY <2>1, <2>3, OtherLists DEF PlacedInTime
  <2>4. CASE slot[b] \in Slots /\ timer[b].due = jiffies
    <3>1. jiffies = (jiffies + 1) - 1
      BY <1>1
    <3> QED BY <1>2, <2>1, <2>4, <3>1, OtherLists DEF PlacedInTime
  <2>5. CASE slot[b] \in Slots /\ timer[b].due # jiffies
    BY <1>2, <2>1, <2>5, OtherLists DEF PlacedInTime, InRoot, InLevel
  <2> QED BY <2>2, <2>3, <2>4, <2>5
<1>6. TypeOK'
  <2>1. slot' \in [Bases -> Slots \cup {NoList, WorkList}]
    BY <1>3, <1>5
  <2>2. jiffies' \in Nat
    BY <1>1, <1>2
  <2> QED BY <1>1, <1>2, <2>1, <2>2 DEF TypeOK
<1>7. ASSUME NEW b \in Bases PROVE BaseInv(b)'
  <2>1. BaseInv(b) /\ cur = None
    BY <1>1, <1>2 DEF TypeOK
  <2>2. Reachable(b)' /\ ExecHolds(b)' /\ EndHolds(b)'
    BY <1>2, <1>4, <1>5, <2>1 DEF BaseInv, Reachable, ExecHolds, EndHolds
  <2> QED BY <1>5, <2>2 DEF BaseInv
<1> QED BY <1>4, <1>6, <1>7 DEF IInv

\* A timer is taken out of the work list and called.
LEMMA ExecBeginIInv ==
  ASSUME IInv, NEW b \in Bases, ExecBegin(b)
  PROVE  IInv'
<1>1. /\ TypeOK /\ EndsDiffer /\ \A o \in Bases : BaseInv(o)
      /\ pc = "work" /\ ends = <<>> /\ slot[b] = WorkList /\ timer[b] \in TimerFields
  BY DEF IInv, TypeOK, ExecBegin
<1>2. /\ slot' = [slot EXCEPT ![b] = NoList]
      /\ timer' = [timer EXCEPT ![b].canRelease = FALSE]
      /\ cur' = b /\ pc' = "callback" /\ UNCHANGED <<jiffies, live, ends>>
  BY DEF ExecBegin
<1>3. cur = None /\ Ending = {}
  BY <1>1 DEF TypeOK, Ending
<1>4. Ending' = Ending /\ EndsDiffer'
  BY <1>1, <1>2 DEF Ending, EndsDiffer
<1>5. b \in live /\ ~ timer[b].remove
  BY <1>1, <1>3, OtherLists, NoneAssumption DEF BaseInv, Reachable, EndHolds
<1>6. /\ \A o \in Bases : o # b => timer'[o] = timer[o] /\ slot'[o] = slot[o]
      /\ timer' = [o \in Bases |-> timer'[o]] /\ slot'[b] = NoList
      /\ timer'[b] = [timer[b] EXCEPT !.canRelease = FALSE]
  BY <1>1, <1>2 DEF TypeOK
<1>7. /\ timer'[b] \in TimerFields /\ timer'[b].canRelease = FALSE
      /\ timer'[b].remove = timer[b].remove
  BY <1>1, <1>6 DEF TimerFields
<1>8. TypeOK'
  <2>1. timer' \in [Bases -> TimerFields]
    BY <1>1, <1>6, <1>7 DEF TypeOK
  <2>2. slot' \in [Bases -> Slots \cup {NoList, WorkList}]
    BY <1>1, <1>2 DEF TypeOK
  <2> QED BY <1>1, <1>2, <2>1, <2>2, NoneAssumption DEF TypeOK
<1>9. BaseInv(b)'
  <2>1. PlacedInTime(b)'
    BY <1>6, OtherLists DEF PlacedInTime
  <2>2. Reachable(b)' /\ ExecHolds(b)' /\ EndHolds(b)'
    BY <1>2, <1>3, <1>4, <1>5, <1>6, <1>7 DEF Reachable, ExecHolds, EndHolds
  <2> QED BY <2>1, <2>2 DEF BaseInv
<1>10. ASSUME NEW o \in Bases, o # b PROVE BaseInv(o)'
  <2>1. o = cur' <=> o = cur
    BY <1>2, <1>3, <1>10, NoneAssumption
  <2> QED BY <1>1, <1>2, <1>4, <1>6, <1>10, <2>1, Untouched
<1> QED BY <1>4, <1>8, <1>9, <1>10 DEF IInv

\* The callback returns: the timer is armed again, its End begins, or it is released.
LEMMA ExecEndIInv ==
  ASSUME IInv, ExecEnd
  PROVE  IInv'
<1>1. /\ TypeOK /\ EndsDiffer /\ \A o \in Bases : BaseInv(o)
      /\ pc = "callback" /\ ends = <<>> /\ jiffies \in Nat
      /\ cur' = None /\ pc' = "work" /\ UNCHANGED jiffies
  BY DEF IInv, TypeOK, ExecEnd
<1>2. PICK b \in Bases : b = cur
  BY <1>1 DEF TypeOK
<1>3. /\ timer[b] \in TimerFields /\ b \in live /\ slot[b] = NoList
      /\ Ending = {} /\ ends \in Seq(Bases)
  BY <1>1, <1>2 DEF TypeOK, BaseInv, ExecHolds, Ending
<1>4. timer[b].interval \in Nat /\ timer[b].count \in Nat \cup {FOREVER}
  BY <1>3 DEF TimerFields
\* The others, when nothing but b is touched.
<1>5. ASSUME NEW o \in Bases, o # b, timer'[o] = timer[o], slot'[o] = slot[o],
             o \in live' <=> o \in live, o \in Ending' <=> o \in Ending
      PROVE  BaseInv(o)'
  <2>1. o = cur' <=> o = cur
    BY <1>1, <1>2, <1>5, NoneAssumption
  <2> QED BY <1>1, <1>5, <2>1, Untouched
<1>6. CASE /\ timer[b].count # 0
           /\ timer' = [timer EXCEPT ![b] = Again(@)]
           /\ slot' = [slot EXCEPT ![b] = AddTimer(jiffies + timer[b].interval)]
           /\ UNCHANGED <<live, ends>>
  <2>1. PICK e \in Int : e = jiffies + timer[b].interval /\ e >= jiffies
    BY <1>1, <1>4
  <2>2. /\ AddTimer(e) \in Slots
        /\ InRoot(AddTimer(e), e, jiffies) \/ InLevel(AddTimer(e), e, jiffies + 1)
    <3>1. e = IF e < jiffies THEN jiffies ELSE e
      BY <1>1, <2>1
    <3> QED BY <1>1, <3>1, AddTimerPlaces
  <2>3. ~ timer[b].remove
    BY <1>1, <1>6 DEF BaseInv, EndHolds
  <2>4. /\ timer'[b] = Again(timer[b]) /\ slot'[b] = AddTimer(e)
        /\ \A o \in Bases : o # b => timer'[o] = timer[o] /\ slot'[o] = slot[o]
        /\ timer' = [o \in Bases |-> timer'[o]] /\ slot' = [o \in Bases |-> slot'[o]]
    BY <1>1, <1>6, <2>1 DEF TypeOK
  <2>5. /\ timer'[b] \in TimerFields /\ timer'[b].canRelease = TRUE
        /\ timer'[b].remove = timer[b].remove
        /\ timer'[b].expires = e /\ timer'[b].due = e
    <3>1. PICK t \in TimerFields : t = timer[b]
      BY <1>3
    <3>2. PICK n \in Nat \cup {FOREVER} : n = IF t.count = FOREVER THEN t.count ELSE t.count - 1
      <4>1. t.count = FOREVER \/ t.count \in Nat \ {0}
        BY <1>4, <1>6, <3>1
      <4>2. \A k \in Nat \ {0} : k - 1 \in Nat
        OBVIOUS
      <4> QED BY <4>1, <4>2
    <3>3. timer'[b] = [t EXCEPT !.frist = FALSE, !.canRelease = TRUE, !.count = n,
                                !.expires = e, !.due = e]
      BY <2>1, <2>4, <3>1, <3>2 DEF Again
    <3>4. PICK u : u = [t EXCEPT !.frist = FALSE, !.canRelease = TRUE]
      OBVIOUS
    <3>5. u \in TimerFields /\ u.canRelease = TRUE /\ u.remove = t.remove
      BY <3>1, <3>4 DEF TimerFields
    <3>6. PICK v : v = [u EXCEPT !.count = n, !.expires = e]
      OBVIOUS
    <3>7. v \in TimerFields /\ v.canRelease = TRUE /\ v.remove = t.remove /\ v.expires = e
      BY <2>1, <3>2, <3>5, <3>6 DEF TimerFields
    <3>8. timer'[b] = [v EXCEPT !.due = e]
      BY <3>3, <3>4, <3>6
    <3> QED BY <2>1, <3>1, <3>7, <3>8 DEF TimerFields
  <2>6. Ending' = Ending /\ EndsDiffer'
    BY <1>1, <1>6 DEF Ending, EndsDiffer
  <2>7. TypeOK'
    <3>1. timer' \in [Bases -> TimerFields]
      BY <1>1, <2>4, <2>5 DEF TypeOK
    <3>2. slot' \in [Bases -> Slots \cup {NoList, WorkList}]
      BY <1>1, <2>2, <2>4 DEF TypeOK
    <3> QED BY <1>1, <1>6, <3>1, <3>2 DEF TypeOK
  <2>8. BaseInv(b)'
    <3>1. slot'[b] # NoList /\ slot'[b] # WorkList
      BY <2>2, <2>4, OtherLists
    <3>2. InRoot(slot'[b], e, jiffies) \/ InLevel(slot'[b], e, jiffies)
      BY <1>1, <2>1, <2>2, <2>4, InLevelFrom
    <3>3. PlacedInTime(b)'
      BY <1>1, <2>5, <3>1, <3>2 DEF PlacedInTime, InRoot, InLevel
    <3>4. b \in live' /\ b # cur' /\ b \notin Ending'
      BY <1>1, <1>3, <1>6, <2>6, NoneAssumption
    <3>5. Reachable(b)' /\ ExecHolds(b)' /\ EndHolds(b)'
      BY <2>3, <2>5, <3>1, <3>4 DEF Reachable, ExecHolds, EndHolds
    <3> QED BY <3>3, <3>5 DEF BaseInv
  <2>9. ASSUME NEW o \in Bases, o # b PROVE BaseInv(o)'
    BY <1>5, <1>6, <2>4, <2>6, <2>9
  <2> QED BY <2>6, <2>7, <2>8, <2>9 DEF IInv
<1>7. CASE /\ timer[b].count = 0 /\ ~ timer[b].remove
           /\ timer' = [timer EXCEPT ![b].frist = FALSE, ![b].canRelease = TRUE,
                                     ![b].remove = TRUE]
           /\ ends' = <<b>>
           /\ UNCHANGED <<slot, live>>
  <2>1. /\ timer'[b] = [timer[b] EXCEPT !.frist = FALSE, !.canRelease = TRUE, !.remove = TRUE]
        /\ \A o \in Bases : o # b => timer'[o] = timer[o]
        /\ timer' = [o \in Bases |-> timer'[o]]
    BY <1>1, <1>7 DEF TypeOK
  <2>2. /\ timer'[b] \in TimerFields /\ timer'[b].canRelease = TRUE
        /\ timer'[b].remove = TRUE /\ timer'[b].count = 0
    <3>1. PICK t \in TimerFields : t = timer[b]
      BY <1>3
    <3>2. PICK u : u = [t EXCEPT !.frist = FALSE, !.canRelease = TRUE]
      OBVIOUS
    <3>3. u \in TimerFields /\ u.canRelease = TRUE /\ u.count = t.count
      BY <3>1, <3>2 DEF TimerFields
    <3>4. timer'[b] = [u EXCEPT !.remove = TRUE]
      BY <2>1, <3>1, <3>2
    <3>5. t.count = 0
      BY <1>7, <3>1
    <3> QED BY <3>3, <3>4, <3>5 DEF TimerFields
  <2>3. ends' \in Seq(Bases) /\ DOMAIN ends' = {1} /\ ends'[1] = b
    BY <1>7
  <2>4. Ending' = {b} /\ EndsDiffer'
    BY <2>3 DEF Ending, EndsDiffer
  <2>5. TypeOK'
    <3>1. timer' \in [Bases -> TimerFields]
      BY <1>1, <2>1, <2>2 DEF TypeOK
    <3> QED BY <1>1, <1>7, <2>3, <3>1 DEF TypeOK
  <2>6. BaseInv(b)'
    <3>1. PlacedInTime(b)'
      BY <1>3, <1>7, OtherLists DEF PlacedInTime
    <3>2. b \in live' /\ b # cur' /\ b \in Ending'
      BY <1>1, <1>3, <1>7, <2>4, NoneAssumption
    <3>3. Reachable(b)' /\ ExecHolds(b)' /\ EndHolds(b)'
      BY <2>2, <3>2 DEF Reachable, ExecHolds, EndHolds
    <3> QED BY <3>1, <3>3 DEF BaseInv
  <2>7. ASSUME NEW o \in Bases, o # b PROVE BaseInv(o)'
    BY <1>3, <1>5, <1>7, <2>1, <2>4, <2>7
  <2> QED BY <2>4, <2>5, <2>6, <2>7 DEF IInv
<1>8. CASE /\ timer[b].count = 0 /\ timer[b].remove
           /\ timer' = [timer EXCEPT ![b] = Fresh]
           /\ live' = live \ {b}
           /\ UNCHANGED <<slot, ends>>
  <2>1. /\ timer'[b] = Fresh
        /\ \A o \in Bases : o # b => timer'[o] = timer[o]
    BY <1>1, <1>8 DEF TypeOK
  <2>2. Fresh \in TimerFields /\ Fresh.canRelease = TRUE /\ Fresh.remove = FALSE
    BY DEF Fresh, TimerFields
  <2>3. Ending' = Ending /\ EndsDiffer'
    BY <1>1, <1>8 DEF Ending, EndsDiffer
  <2>4. TypeOK'
    <3>1. timer' \in [Bases -> TimerFields]
      BY <1>1, <1>8, <2>2 DEF TypeOK
    <3> QED BY <1>1, <1>8, <3>1 DEF TypeOK
  <2>5. BaseInv(b)'
    <3>1. PlacedInTime(b)'
      BY <1>3, <1>8, OtherLists DEF PlacedInTime
    <3>2. b \notin live' /\ b # cur' /\ b \notin Ending' /\ slot'[b] = NoList
      BY <1>1, <1>3, <1>8, <2>3, NoneAssumption
    <3>3. Reachable(b)' /\ ExecHolds(b)' /\ EndHolds(b)'
      BY <2>1, <2>2, <3>2 DEF Reachable, ExecHolds, EndHolds
    <3> QED BY <3>1, <3>3 DEF BaseInv
  <2>6. ASSUME NEW o \in Bases, o # b PROVE BaseInv(o)'
    BY <1>5, <1>8, <2>1, <2>3, <2>6
  <2> QED BY <2>3, <2>4, <2>5, <2>6 DEF IInv
<1> QED BY <1>2, <1>6, <1>7, <1>8 DEF ExecEnd

LEMMA IInvAlways == Spec => []IInv
<1>1. IInv /\ [Next]_vars => IInv'
  <2> SUFFICES ASSUME IInv, [Next]_vars
               PROVE  IInv'
    OBVIOUS
  <2>1. CASE NextJiffy
    BY <2>1, NextJiffyIInv
  <2>2. CASE JiffyDone
    <3>1. /\ \A b \in Bases : slot[b] # WorkList
          /\ pc = "work" /\ pc' = "idle" /\ UNCHANGED <<jiffies, timer, slot, live, cur, ends>>
      BY <2>2 DEF JiffyDone, InList
    <3>2. Ending' = Ending /\ EndsDiffer'
      BY <3>1 DEF Ending, IInv, EndsDiffer
    <3>3. TypeOK'
      BY <3>1 DEF IInv, TypeOK
    <3>4. ASSUME NEW b \in Bases PROVE BaseInv(b)'
      <4>1. BaseInv(b)
        BY DEF IInv
      <4> QED BY <3>1, <3>2, <4>1, Untouched
    <3> QED BY <3>2, <3>3, <3>4 DEF IInv
  <2>3. CASE ExecEnd
    BY <2>3, ExecEndIInv
  <2>4. CASE EndFinish
    BY <2>4, EndFinishIInv
  <2>5. ASSUME NEW b \in Bases, StartTimer(b) \/ KillTimer(b) \/ ExecBegin(b)
        PROVE  IInv'
    BY <2>5, StartTimerIInv, KillTimerIInv, ExecBeginIInv
  <2>6. CASE UNCHANGED vars
    <3>1. UNCHANGED <<jiffies, timer, slot, live, cur, ends, pc>>
      BY <2>6 DEF vars
    <3>2. Ending' = Ending /\ EndsDiffer'
      BY <3>1 DEF Ending, IInv, EndsDiffer
    <3>3. TypeOK'
      BY <3>1 DEF IInv, TypeOK
    <3>4. ASSUME NEW b \in Bases PROVE BaseInv(b)'
      <4>1. BaseInv(b) /\ (pc' = "idle" => slot[b] # WorkList)
        BY <3>1 DEF IInv, BaseInv, PlacedInTime
      <4> QED BY <3>1, <3>2, <4>1, Untouched
    <3> QED BY <3>2, <3>3, <3>4 DEF IInv
  <2> QED BY <2>1, <2>2, <2>3, <2>4, <2>5, <2>6 DEF Next
<1> QED BY InitIInv, <1>1, PTL DEF Spec

(***************************************************************************)
(* The refinement.                                                         *)
(***************************************************************************)

\* What clients see of a timer.
StateOf(b) ==
  IF b \notin live THEN "idle"
  ELSE IF timer[b].remove THEN (IF timer[b].canRelease THEN "ending" ELSE "killed")
  ELSE IF b = cur THEN "running" ELSE IF slot[b] = WorkList THEN "batch" ELSE "armed"

LEMMA StateIs ==
  ASSUME NEW b \in Bases
  PROVE  AbstractState(b) = StateOf(b) /\ AbstractState(b)' = StateOf(b)'
BY DEF AbstractState, StateOf

\* Clients see the same of a timer that a step does not touch.
SameSeen(o) == /\ AbstractState(o)' = AbstractState(o)
               /\ timer'[o].due = timer[o].due /\ timer'[o].count = timer[o].count
               /\ timer'[o].interval = timer[o].interval

LEMMA SeenUntouched ==
  ASSUME NEW o \in Bases, timer'[o] = timer[o],
         slot'[o] = WorkList <=> slot[o] = WorkList,
         o \in live' <=> o \in live, o = cur' <=> o = cur
  PROVE  SameSeen(o)
BY StateIs DEF SameSeen, StateOf

\* A timer of the pool in the specification.
LEMMA FreshSeen == Fresh.due = 0 /\ Fresh.count = 0 /\ Fresh.interval = 0
BY DEF Fresh

LEMMA StartTimerRefines ==
  ASSUME IInv, NEW b \in Bases, StartTimer(b)
  PROVE  Abstract!Start(b)
<1>1. jiffies \in Nat /\ b \notin live /\ BaseInv(b)
  BY DEF IInv, TypeOK, StartTimer
<1>2. PICK delay \in Delays, interval \in Intervals, count \in Counts :
        /\ timer' = [timer EXCEPT ![b] =
             [Fresh EXCEPT !.expires = jiffies + delay, !.interval = interval,
                           !.count = count,
                           !.due = IF delay < 0 THEN jiffies ELSE jiffies + delay]]
        /\ slot' = [slot EXCEPT ![b] = AddTimer(jiffies + delay)]
  BY DEF StartTimer
<1>3. live' = live \cup {b} /\ UNCHANGED <<jiffies, cur, ends, pc>>
  BY DEF StartTimer
<1>4. delay \in Int
  BY <1>2, ClientAssumption
<1>5. PICK d \in Int : d = IF delay < 0 THEN jiffies ELSE jiffies + delay
  BY <1>1, <1>4
<1>6. /\ timer'[b] = [Fresh EXCEPT !.expires = jiffies + delay, !.interval = interval,
                                   !.count = count, !.due = d]
      /\ slot'[b] = AddTimer(jiffies + delay)
      /\ \A o \in Bases : o # b => timer'[o] = timer[o] /\ slot'[o] = slot[o]
  BY <1>2, <1>5 DEF IInv, TypeOK
<1>7. /\ timer'[b].due = d /\ timer'[b].count = count /\ timer'[b].interval = interval
      /\ timer'[b].remove = FALSE
  BY <1>6 DEF Fresh
<1>8. slot'[b] # WorkList
  <2>1. PICK e \in Int : e = jiffies + delay
    BY <1>1, <1>4
  <2>2. PICK f \in Int : f = IF e < jiffies THEN jiffies ELSE e
    BY <1>1, <2>1
  <2>3. AddTimer(e) \in Slots
    BY <1>1, <2>2, AddTimerPlaces
  <2> QED BY <1>6, <2>1, <2>3, OtherLists
<1>9. AbstractState(b) = "idle" /\ AbstractState(b)' = "armed"
  <2>1. b # cur
    BY <1>1 DEF BaseInv, Reachable
  <2> QED BY <1>1, <1>3, <1>7, <1>8, <2>1, StateIs DEF StateOf
<1>10. \A o \in Bases : o # b => SameSeen(o)
  BY <1>3, <1>6, SeenUntouched
<1>11. d = Abstract!Later(jiffies, jiffies + delay)
  BY <1>1, <1>4, <1>5 DEF Abstract!Later
<1> QED BY <1>2, <1>3, <1>7, <1>9, <1>10, <1>11, ZenonT(40) DEF SameSeen, Abstract!Start

LEMMA KillTimerRefines ==
  ASSUME IInv, NEW b \in Bases, KillTimer(b)
  PROVE  Abstract!Kill(b)
<1>1. /\ BaseInv(b) /\ b \in live /\ ~ timer[b].remove /\ timer[b] \in TimerFields
      /\ timer' = [timer EXCEPT ![b].count = 0, ![b].remove = TRUE]
      /\ UNCHANGED <<jiffies, slot, live, cur, pc>>
  BY DEF IInv, TypeOK, KillTimer
<1>2. /\ timer'[b] = [timer[b] EXCEPT !.count = 0, !.remove = TRUE]
      /\ \A o \in Bases : o # b => timer'[o] = timer[o]
  BY <1>1 DEF IInv, TypeOK
<1>3. /\ timer'[b].due = timer[b].due /\ timer'[b].interval = timer[b].interval
      /\ timer'[b].canRelease = timer[b].canRelease
      /\ timer'[b].count = 0 /\ timer'[b].remove = TRUE
  <2>1. PICK t \in TimerFields : t = timer[b]
    BY <1>1
  <2>2. PICK u : u = [t EXCEPT !.count = 0]
    OBVIOUS
  <2>3. /\ u \in TimerFields /\ u.count = 0 /\ u.interval = t.interval /\ u.due = t.due
        /\ u.canRelease = t.canRelease
    BY <2>1, <2>2 DEF TimerFields
  <2>4. timer'[b] = [u EXCEPT !.remove = TRUE]
    BY <1>2, <2>1, <2>2
  <2> QED BY <2>1, <2>3, <2>4 DEF TimerFields
<1>4. timer[b].canRelease <=> b # cur
  BY <1>1 DEF BaseInv, ExecHolds
<1>5. /\ AbstractState(b) \in {"armed", "batch", "running"}
      /\ AbstractState(b)' = IF AbstractState(b) = "running" THEN "killed" ELSE "ending"
  BY <1>1, <1>3, <1>4, StateIs DEF StateOf
<1>6. \A o \in Bases : o # b => SameSeen(o)
  BY <1>1, <1>2, SeenUntouched
<1> QED BY <1>1, <1>3, <1>5, <1>6, ZenonT(40) DEF SameSeen, Abstract!Kill

\* End releases the timer, or leaves that to Exec, which no client sees.
LEMMA EndFinishRefines ==
  ASSUME IInv, EndFinish
  PROVE  (\E b \in Bases : Abstract!Finish(b)) \/ UNCHANGED Abstract!vars
<1>1. TypeOK /\ EndsDiffer /\ ends \in Seq(Bases) /\ ends # <<>> /\ ends' = Tail(ends)
  BY DEF IInv, TypeOK, EndFinish
<1>2. PICK b \in Bases : b = Head(ends) /\ b \in Ending
  BY <1>1, EndPopped
<1>3. /\ slot' = [slot EXCEPT ![b] = NoList]
      /\ live' = IF timer[b].canRelease THEN live \ {b} ELSE live
      /\ timer' = IF timer[b].canRelease THEN [timer EXCEPT ![b] = Fresh] ELSE timer
      /\ UNCHANGED <<jiffies, cur, pc>>
  BY <1>2 DEF EndFinish
<1>4. b \in live /\ timer[b].remove
  BY <1>2 DEF IInv, BaseInv, EndHolds
<1>5. \A o \in Bases : o # b => SameSeen(o)
  <2>1. \A o \in Bases : o # b => timer'[o] = timer[o] /\ slot'[o] = slot[o] /\ (o \in live' <=> o \in live)
    BY <1>1, <1>3 DEF TypeOK
  <2> QED BY <1>3, <2>1, SeenUntouched
<1>6. CASE timer[b].canRelease
  <2>1. timer'[b] = Fresh /\ b \notin live'
    BY <1>1, <1>3, <1>6 DEF TypeOK
  <2>2. AbstractState(b) = "ending" /\ AbstractState(b)' = "idle"
    BY <1>4, <1>6, <2>1, StateIs DEF StateOf
  <2>3. Abstract!Finish(b)
    BY <1>3, <1>5, <2>1, <2>2, FreshSeen, ZenonT(40) DEF SameSeen, Abstract!Finish
  <2> QED BY <2>3
<1>7. CASE ~ timer[b].canRelease
  <2>1. timer' = timer /\ live' = live
    BY <1>3, <1>7
  <2>2. AbstractState(b) = "killed" /\ AbstractState(b)' = "killed"
    BY <1>4, <1>7, <2>1, StateIs DEF StateOf
  <2>3. \A o \in Bases : AbstractState(o)' = AbstractState(o)
    BY <1>5, <2>2 DEF SameSeen
  <2> QED BY <1>3, <2>1, <2>3 DEF Abstract!vars
<1> QED BY <1>6, <1>7

\* Whatever the slots, a jiffy's batch is the timers that are due in it.
LEMMA NextJiffyRefines ==
  ASSUME IInv, NextJiffy
  PROVE  Abstract!NextJiffy
<1>1. /\ jiffies < MaxJiffies /\ jiffies' = jiffies + 1 /\ pc = "idle" /\ ends = <<>>
      /\ UNCHANGED <<timer, live, cur, ends>> /\ cur = None
  BY DEF NextJiffy, IInv, TypeOK
<1>2. Ending = {}
  BY <1>1 DEF Ending
<1>3. ASSUME NEW b \in Bases
      PROVE  /\ AbstractState(b) \in {"idle", "armed"}
             /\ AbstractState(b) = "armed" => timer[b].due >= jiffies
             /\ AbstractState(b)' = IF AbstractState(b) = "armed" /\ timer[b].due = jiffies
                                    THEN "batch" ELSE AbstractState(b)
  <2>1. BaseInv(b) /\ b # cur /\ b # cur'
    BY <1>1, NoneAssumption DEF IInv
  <2>2. ~ timer[b].remove
    BY <1>2, <2>1 DEF BaseInv, EndHolds
  <2>3. /\ slot[b] # WorkList
        /\ slot[b] = NoList => slot'[b] = NoList
        /\ slot[b] \in Slots =>
             /\ timer[b].due >= jiffies
             /\ timer[b].due = jiffies => slot'[b] = WorkList
             /\ timer[b].due # jiffies => slot'[b] \in Slots
    BY JiffyPlaces
  <2>4. CASE b \notin live
    BY <1>1, <2>4, StateIs DEF StateOf
  <2>5. CASE b \in live
    <3>1. slot[b] \in Slots
      BY <1>2, <2>1, <2>3, <2>5 DEF BaseInv, Reachable, IInv, TypeOK
    <3> QED BY <1>1, <2>1, <2>2, <2>3, <2>5, <3>1, StateIs, OtherLists DEF StateOf
  <2> QED BY <2>4, <2>5
<1> QED BY <1>1, <1>3 DEF Abstract!NextJiffy, Abstract!In

LEMMA ExecBeginRefines ==
  ASSUME IInv, NEW b \in Bases, ExecBegin(b)
  PROVE  Abstract!Call(b)
<1>1. /\ TypeOK /\ pc = "work" /\ ends = <<>> /\ cur = None /\ slot[b] = WorkList
      /\ slot' = [slot EXCEPT ![b] = NoList]
      /\ timer' = [timer EXCEPT ![b].canRelease = FALSE]
      /\ cur' = b /\ UNCHANGED <<jiffies, live, ends>>
  BY DEF ExecBegin, IInv, TypeOK
<1>2. Ending = {}
  BY <1>1 DEF Ending
<1>3. \A o \in Bases : BaseInv(o) /\ o # cur /\ timer[o].canRelease /\ ~ timer[o].remove
  BY <1>1, <1>2, NoneAssumption DEF IInv, BaseInv, ExecHolds, EndHolds
<1>4. b \in live
  BY <1>1, <1>3, OtherLists DEF BaseInv, Reachable
<1>5. /\ timer'[b] = [timer[b] EXCEPT !.canRelease = FALSE] /\ timer[b] \in TimerFields
      /\ \A o \in Bases : o # b => timer'[o] = timer[o] /\ slot'[o] = slot[o]
  BY <1>1 DEF TypeOK
<1>6. /\ timer'[b].due = timer[b].due /\ timer'[b].interval = timer[b].interval
      /\ timer'[b].count = timer[b].count /\ timer'[b].remove = timer[b].remove
  BY <1>5 DEF TimerFields
<1>7. AbstractState(b) = "batch" /\ AbstractState(b)' = "running"
  BY <1>1, <1>3, <1>4, <1>6, StateIs DEF StateOf
<1>8. \A o \in Bases : AbstractState(o) # "running" /\ AbstractState(o) # "killed"
  BY <1>3, StateIs DEF StateOf
<1>9. \A o \in Bases : o # b => SameSeen(o)
  BY <1>1, <1>3, <1>5, SeenUntouched
<1> QED BY <1>1, <1>6, <1>7, <1>8, <1>9 DEF SameSeen, Abstract!Call, Abstract!In

LEMMA ExecEndRefines ==
  ASSUME IInv, ExecEnd
  PROVE  \E b \in Bases : Abstract!Return(b)
<1>1. /\ TypeOK /\ pc = "callback" /\ ends = <<>> /\ jiffies \in Nat
      /\ cur' = None /\ UNCHANGED jiffies
  BY DEF IInv, TypeOK, ExecEnd
<1>2. PICK b \in Bases : b = cur
  BY <1>1 DEF TypeOK
<1>3. /\ BaseInv(b) /\ timer[b] \in TimerFields /\ b \in live /\ slot[b] = NoList
      /\ ~ timer[b].canRelease
  BY <1>1, <1>2 DEF IInv, TypeOK, BaseInv, ExecHolds
<1>4. ASSUME \A o \in Bases : o # b => /\ timer'[o] = timer[o] /\ slot'[o] = slot[o]
                                       /\ o \in live' <=> o \in live
      PROVE  \A o \in Bases : o # b => SameSeen(o)
  <2>1. \A o \in Bases : o # b => (o = cur' <=> o = cur)
    BY <1>1, <1>2, NoneAssumption
  <2> QED BY <1>4, <2>1, SeenUntouched
<1>5. b # cur'
  BY <1>1, NoneAssumption
<1>6. CASE /\ timer[b].count # 0
           /\ timer' = [timer EXCEPT ![b] = Again(@)]
           /\ slot' = [slot EXCEPT ![b] = AddTimer(jiffies + timer[b].interval)]
           /\ UNCHANGED <<live, ends>>
  <2>1. ~ timer[b].remove
    BY <1>3, <1>6 DEF BaseInv, EndHolds
  <2>2. /\ timer'[b] = Again(timer[b]) /\ slot'[b] = AddTimer(jiffies + timer[b].interval)
        /\ \A o \in Bases : o # b => timer'[o] = timer[o] /\ slot'[o] = slot[o]
    BY <1>1, <1>6 DEF TypeOK
  <2>3. /\ timer'[b].due = jiffies + timer[b].interval /\ timer'[b].interval = timer[b].interval
        /\ timer'[b].count = IF timer[b].count = FOREVER THEN timer[b].count ELSE timer[b].count - 1
        /\ timer'[b].remove = timer[b].remove
    BY <1>3, <2>2 DEF Again, TimerFields
  <2>4. slot'[b] # WorkList
    <3>1. PICK e \in Int : e = jiffies + timer[b].interval
      BY <1>1, <1>3 DEF TimerFields
    <3>2. PICK f \in Int : f = IF e < jiffies THEN jiffies ELSE e
      BY <1>1, <3>1
    <3>3. AddTimer(e) \in Slots
      BY <1>1, <3>2, AddTimerPlaces
    <3> QED BY <2>2, <3>1, <3>3, OtherLists
  <2>5. AbstractState(b) = "running" /\ AbstractState(b)' = "armed"
    BY <1>2, <1>3, <1>5, <1>6, <2>1, <2>3, <2>4, StateIs DEF StateOf
  <2>6. \A o \in Bases : o # b => SameSeen(o)
    BY <1>4, <1>6, <2>2
  <2>7. Abstract!Return(b)
    BY <1>1, <1>6, <2>3, <2>5, <2>6, ZenonT(40) DEF SameSeen, Abstract!Return
  <2> QED BY <2>7
<1>7. CASE /\ timer[b].count = 0 /\ ~ timer[b].remove
           /\ timer' = [timer EXCEPT ![b].frist = FALSE, ![b].canRelease = TRUE,
                                     ![b].remove = TRUE]
           /\ UNCHANGED <<slot, live>>
  <2>1. /\ timer'[b] = [timer[b] EXCEPT !.frist = FALSE, !.canRelease = TRUE, !.remove = TRUE]
        /\ \A o \in Bases : o # b => timer'[o] = timer[o]
    BY <1>1, <1>7 DEF TypeOK
  <2>2. /\ timer'[b].due = timer[b].due /\ timer'[b].interval = timer[b].interval
        /\ timer'[b].count = timer[b].count
        /\ timer'[b].remove = TRUE /\ timer'[b].canRelease = TRUE
    BY <1>3, <2>1 DEF TimerFields
  <2>3. AbstractState(b) = "running" /\ AbstractState(b)' = "ending"
    BY <1>2, <1>3, <1>7, <2>2, StateIs DEF StateOf
  <2>4. \A o \in Bases : o # b => SameSeen(o)
    BY <1>4, <1>7, <2>1
  <2>5. Abstract!Return(b)
    BY <1>1, <1>7, <2>2, <2>3, <2>4, ZenonT(40) DEF SameSeen, Abstract!Return
  <2> QED BY <2>5
<1>8. CASE /\ timer[b].count = 0 /\ timer[b].remove
           /\ timer' = [timer EXCEPT ![b] = Fresh]
           /\ live' = live \ {b}
           /\ UNCHANGED <<slot, ends>>
  <2>1. /\ timer'[b] = Fresh
        /\ \A o \in Bases : o # b => timer'[o] = timer[o] /\ (o \in live' <=> o \in live)
    BY <1>1, <1>8 DEF TypeOK
  <2>2. AbstractState(b) = "killed" /\ AbstractState(b)' = "idle"
    BY <1>3, <1>8, StateIs DEF StateOf
  <2>3. \A o \in Bases : o # b => SameSeen(o)
    BY <1>4, <1>8, <2>1
  <2>4. Abstract!Return(b)
    <3>1. timer'[b].due = 0 /\ timer'[b].count = 0 /\ timer'[b].interval = 0
      BY <2>1, FreshSeen
    <3> QED BY <1>1, <2>2, <2>3, <3>1 DEF SameSeen, Abstract!Return
  <2> QED BY <2>4
<1> QED BY <1>2, <1>6, <1>7, <1>8 DEF ExecEnd

(***************************************************************************)
(* The theorems.                                                           *)
(***************************************************************************)

\* Every variable of the wheel keeps its type, and Exec has a timer exactly while in its
\* callback.
THEOREM TypeCorrect == Spec => []TypeOK
<1>1. IInv => TypeOK
  BY DEF IInv
<1> QED BY <1>1, IInvAlways, PTL

\* However KillTimer, callbacks and OnTerminate nest, no list, Exec or End holds a timer that
\* is in the pool, and no timer is out of the pool and lost.
THEOREM NoTimerDangles == Spec => []NoDanglingTimer
<1>1. IInv => NoDanglingTimer
  BY DEF IInv, BaseInv, Reachable, NoDanglingTimer
<1> QED BY <1>1, IInvAlways, PTL

\* Process finds every timer in its jiffy, for wheels of any size and delays of any length,
\* across cascades and for timers put in beyond the reach of the wheel.
THEOREM TimersFireWhenDue == Spec => []FiresWhenDue
<1>1. IInv => FiresWhenDue
  <2> SUFFICES ASSUME IInv, NEW b \in Bases
               PROVE  /\ slot[b] \in Slots => timer[b].due >= jiffies
                      /\ slot[b] = WorkList => timer[b].due = jiffies - 1
    BY DEF FiresWhenDue
  <2>1. BaseInv(b) /\ jiffies \in Nat /\ timer[b].due \in Int
    BY DEF IInv, TypeOK, TimerFields
  <2>2. ASSUME slot[b] \in Slots PROVE timer[b].due >= jiffies
    <3>1. CASE InRoot(slot[b], timer[b].due, jiffies)
      BY <2>1, <3>1 DEF InRoot
    <3>2. CASE InLevel(slot[b], timer[b].due, jiffies)
      <4>1. PICK n \in 1 .. Levels, c \in Nat :
              jiffies <= c * Span[n - 1] /\ c * Span[n - 1] <= timer[b].due
        BY <3>2 DEF InLevel
      <4>2. Span[n - 1] \in Nat
        BY <4>1, Sizes
      <4>3. PICK y \in Nat : y = c * Span[n - 1]
        BY <4>1, <4>2
      <4> QED BY <2>1, <4>1, <4>3
    <3> QED BY <2>1, <2>2, <3>1, <3>2 DEF BaseInv, PlacedInTime
  <2> QED BY <2>1, <2>2 DEF BaseInv, PlacedInTime
<1> QED BY <1>1, IInvAlways, PTL

\* Exec never calls a timer whose OnTerminate has been called.
THEOREM NoCallAfterTerminate == Spec => SilentAfterTerminate
<1>1. IInv => \A b \in Bases : ExecBegin(b) => ~ timer[b].remove
  <2> SUFFICES ASSUME IInv, NEW b \in Bases, ExecBegin(b)
               PROVE  ~ timer[b].remove
    OBVIOUS
  <2>1. BaseInv(b) /\ cur = None /\ Ending = {}
    BY DEF IInv, TypeOK, ExecBegin, Ending
  <2> QED BY <2>1, NoneAssumption DEF BaseInv, EndHolds
<1> QED BY <1>1, IInvAlways, PTL DEF SilentAfterTerminate

\* The wheel of any size is TimerService: its steps are those of a set of timers each armed
\* for a jiffy, or change nothing that clients see.
THEOREM WheelImplementsService == Spec => ImplementsTimerService
<1>1. Init => Abstract!Init
  BY FreshSeen, StateIs DEF Init, StateOf, Abstract!Init
<1>2. IInv /\ [Next]_vars => [Abstract!Next]_(Abstract!vars)
  <2> SUFFICES ASSUME IInv, [Next]_vars
               PROVE  Abstract!Next \/ UNCHANGED Abstract!vars
    OBVIOUS
  <2>1. CASE NextJiffy
    BY <2>1, NextJiffyRefines DEF Abstract!Next
  <2>2. CASE JiffyDone
    <3>1. UNCHANGED <<jiffies, timer, slot, live, cur>>
      BY <2>2 DEF JiffyDone
    <3>2. \A o \in Bases : SameSeen(o)
      BY <3>1, SeenUntouched
    <3> QED BY <3>1, <3>2 DEF SameSeen, Abstract!vars
  <2>3. CASE ExecEnd
    BY <2>3, ExecEndRefines DEF Abstract!Next
  <2>4. CASE EndFinish
    BY <2>4, EndFinishRefines DEF Abstract!Next
  <2>5. ASSUME NEW b \in Bases, StartTimer(b) \/ KillTimer(b) \/ ExecBegin(b)
        PROVE  Abstract!Next
    BY <2>5, StartTimerRefines, KillTimerRefines, ExecBeginRefines DEF Abstract!Next
  <2>6. CASE UNCHANGED vars
    <3>1. UNCHANGED <<jiffies, timer, slot, live, cur>>
      BY <2>6 DEF vars
    <3>2. \A o \in Bases : SameSeen(o)
      BY <3>1, SeenUntouched
    <3> QED BY <3>1, <3>2 DEF SameSeen, Abstract!vars
  <2> QED BY <2>1, <2>2, <2>3, <2>4, <2>5, <2>6 DEF Next
<1> QED BY <1>1, <1>2, IInvAlways, PTL DEF Spec, ImplementsTimerService, Abstract!Spec
=============================================================================
