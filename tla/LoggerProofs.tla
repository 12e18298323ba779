---------------------------- MODULE LoggerProofs ----------------------------
(***************************************************************************)
(* Proofs about Logger: the order of the log nodes on their way through    *)
(* the lists of LogListThreadData and back, for any number of nodes.       *)
(*                                                                         *)
(* LogsInOrder and FreedOnceWritten are inductive together with the types: *)
(* that freeing a prefix of dels.a frees the right nodes needs to know     *)
(* that the file holds 1, 2, 3, ..., which is LogsInOrder.                 *)
(***************************************************************************)
EXTENDS Logger, SequenceTheorems, TLAPS

Inv == TypeOK /\ LogsInOrder /\ FreedOnceWritten

(***************************************************************************)
(* Four lists in a row: what the moves between them leave of the whole.    *)
(***************************************************************************)

\* A node put at the end of the last list is at the end of the whole.
LEMMA AppendToLast ==
  ASSUME NEW S, NEW p \in Seq(S), NEW q \in Seq(S), NEW e \in S
  PROVE  p \o Append(q, e) = Append(p \o q, e)
<1>1. <<e>> \in Seq(S) /\ p \o q \in Seq(S)
  BY ConcatProperties
<1>2. Append(q, e) = q \o <<e>>
  BY AppendIsConcat
<1>3. Append(p \o q, e) = (p \o q) \o <<e>>
  BY <1>1, AppendIsConcat
<1>4. (p \o q) \o <<e>> = p \o (q \o <<e>>)
  BY <1>1, ConcatAssociative
<1> QED BY <1>2, <1>3, <1>4

\* A node moved from the head of a list to the end of the list before it stays in place.
LEMMA MoveHead ==
  ASSUME NEW S, NEW p \in Seq(S), NEW q \in Seq(S), q # <<>>
  PROVE  /\ Append(p, Head(q)) \o Tail(q) = p \o q
         /\ Head(q) \in S /\ Tail(q) \in Seq(S)
<1>1. Head(q) \in S /\ Tail(q) \in Seq(S)
  BY HeadTailProperties
<1>2. <<Head(q)>> \in Seq(S)
  BY <1>1
<1>3. q = <<Head(q)>> \o Tail(q)
  BY <1>1
<1>4. Append(p, Head(q)) = p \o <<Head(q)>>
  BY <1>1, AppendIsConcat
<1>5. (p \o <<Head(q)>>) \o Tail(q) = p \o (<<Head(q)>> \o Tail(q))
  BY <1>1, <1>2, ConcatAssociative
<1> QED BY <1>1, <1>3, <1>4, <1>5

\* Swapping two neighbouring lists of which one is empty does not change the whole.
LEMMA SwapEmpty ==
  ASSUME NEW S, NEW p \in Seq(S), NEW q \in Seq(S), NEW r \in Seq(S), q = <<>> \/ r = <<>>
  PROVE  p \o q \o r = p \o r \o q
<1>1. p \o q \in Seq(S) /\ p \o r \in Seq(S)
  BY ConcatProperties
<1> QED BY <1>1, ConcatEmptySeq

\* The nodes of a stream in the order in which they were logged.
LEMMA UpToProperties ==
  ASSUME NEW n \in 0 .. MaxLogs
  PROVE  /\ UpTo(n) \in Nodes
         /\ Len(UpTo(n)) = n
         /\ \A i \in 1 .. n : UpTo(n)[i] = i
         /\ n < MaxLogs => Append(UpTo(n), n + 1) = UpTo(n + 1)
BY MaxLogsAssumption DEF UpTo, Nodes

\* What is before a cut in 1, 2, 3, ..., n is 1, 2, 3, ... too.
LEMMA PrefixOfUpTo ==
  ASSUME NEW n \in 0 .. MaxLogs, NEW s \in Nodes, NEW t \in Nodes, s \o t = UpTo(n)
  PROVE  /\ Len(s) \in 0 .. n
         /\ s = UpTo(Len(s))
<1>1. /\ Len(s \o t) = Len(s) + Len(t)
      /\ \A i \in 1 .. Len(s) + Len(t) :
           (s \o t)[i] = IF i <= Len(s) THEN s[i] ELSE t[i - Len(s)]
  BY ConcatProperties DEF Nodes
<1>2. Len(s) \in Nat /\ Len(t) \in Nat
  BY LenProperties DEF Nodes
<1>3. Len(s) \in 0 .. n
  BY <1>1, <1>2, UpToProperties
<1>4. Len(s) \in 0 .. MaxLogs
  BY <1>3, MaxLogsAssumption
<1>5. \A i \in 1 .. Len(s) : s[i] = i
  BY <1>1, <1>2, <1>3, UpToProperties
<1>6. UpTo(Len(s)) \in Nodes /\ Len(UpTo(Len(s))) = Len(s)
      /\ \A i \in 1 .. Len(s) : UpTo(Len(s))[i] = i
  BY <1>4, UpToProperties
<1>7. s = UpTo(Len(s))
  BY <1>5, <1>6, SeqEqual DEF Nodes
<1> QED BY <1>3, <1>7

\* Freeing the first k nodes of a list that follows 1, ..., m leaves the whole as it is.
LEMMA FreePrefix ==
  ASSUME NEW m \in 0 .. MaxLogs, NEW a \in Nodes, NEW k \in 0 .. Len(a),
         m + Len(a) <= MaxLogs, UpTo(m) \o a = UpTo(m + Len(a))
  PROVE  /\ SubSeq(a, k + 1, Len(a)) \in Nodes
         /\ UpTo(m + k) \o SubSeq(a, k + 1, Len(a)) = UpTo(m) \o a
<1> DEFINE rest == SubSeq(a, k + 1, Len(a))
<1>1. Len(a) \in Nat /\ k + 1 \in Int /\ m \in Nat /\ k \in Nat
  BY LenProperties DEF Nodes
<1>2. \A i \in k + 1 .. Len(a) : a[i] \in 1 .. MaxLogs
  <2>1. \A i \in 1 .. Len(a) : a[i] \in 1 .. MaxLogs
    BY ElementOfSeq DEF Nodes
  <2> QED BY <1>1, <2>1
<1>3. /\ rest \in Nodes
      /\ Len(rest) = IF k + 1 <= Len(a) THEN Len(a) - (k + 1) + 1 ELSE 0
      /\ \A i \in 1 .. Len(a) - (k + 1) + 1 : rest[i] = a[(k + 1) + i - 1]
  BY <1>1, <1>2, SubSeqProperties DEF Nodes
<1>4. Len(rest) = Len(a) - k
  BY <1>1, <1>3
<1>5. m + k \in 0 .. MaxLogs /\ m + Len(a) \in 0 .. MaxLogs
  BY <1>1, MaxLogsAssumption
<1>6. /\ UpTo(m) \in Nodes /\ Len(UpTo(m)) = m /\ \A i \in 1 .. m : UpTo(m)[i] = i
  BY UpToProperties
<1>7. /\ UpTo(m + k) \in Nodes /\ Len(UpTo(m + k)) = m + k
      /\ \A i \in 1 .. m + k : UpTo(m + k)[i] = i
  BY <1>5, UpToProperties
<1>8. /\ UpTo(m + Len(a)) \in Nodes /\ Len(UpTo(m + Len(a))) = m + Len(a)
      /\ \A i \in 1 .. m + Len(a) : UpTo(m + Len(a))[i] = i
  BY <1>5, UpToProperties
<1>9. \A i \in 1 .. m + Len(a) : (UpTo(m) \o a)[i] = IF i <= m THEN UpTo(m)[i] ELSE a[i - m]
  <2>1. \A i \in 1 .. Len(UpTo(m)) + Len(a) :
          (UpTo(m) \o a)[i] = IF i <= Len(UpTo(m)) THEN UpTo(m)[i] ELSE a[i - Len(UpTo(m))]
    BY <1>6, ConcatProperties DEF Nodes
  <2> QED BY <1>6, <2>1
<1>10. \A i \in 1 .. Len(a) : a[i] = m + i
  <2> TAKE i \in 1 .. Len(a)
  <2>1. m + i \in 1 .. m + Len(a) /\ ~ (m + i <= m) /\ (m + i) - m = i
    BY <1>1
  <2> QED BY <1>8, <1>9, <2>1
<1>11. /\ UpTo(m + k) \o rest \in Nodes
       /\ Len(UpTo(m + k) \o rest) = m + Len(a)
       /\ \A i \in 1 .. m + Len(a) :
            (UpTo(m + k) \o rest)[i] = IF i <= m + k THEN UpTo(m + k)[i] ELSE rest[i - (m + k)]
  <2> DEFINE freedNow == UpTo(m + k)
  <2>1. freedNow \in Seq(1 .. MaxLogs) /\ rest \in Seq(1 .. MaxLogs)
    BY <1>3, <1>7 DEF Nodes
  <2>2. /\ freedNow \o rest \in Seq(1 .. MaxLogs)
        /\ Len(freedNow \o rest) = Len(freedNow) + Len(rest)
        /\ \A i \in 1 .. Len(freedNow) + Len(rest) :
             (freedNow \o rest)[i] = IF i <= Len(freedNow) THEN freedNow[i]
                                     ELSE rest[i - Len(freedNow)]
    <3> HIDE DEF freedNow, rest
    <3> QED BY <2>1, ConcatProperties
  <2>3. Len(freedNow) = m + k /\ Len(freedNow) + Len(rest) = m + Len(a)
    <3> HIDE DEF rest
    <3> QED BY <1>1, <1>4, <1>7
  <2> HIDE DEF rest
  <2> QED BY <2>2, <2>3 DEF Nodes
<1>12. \A i \in 1 .. m + Len(a) : (UpTo(m + k) \o rest)[i] = i
  <2> TAKE i \in 1 .. m + Len(a)
  <2>1. CASE i <= m + k
    <3>1. i \in 1 .. m + k
      BY <1>1, <2>1
    <3> HIDE DEF rest
    <3> QED BY <1>7, <1>11, <2>1, <3>1
  <2>2. CASE ~ (i <= m + k)
    <3>1. (UpTo(m + k) \o rest)[i] = rest[i - (m + k)]
      <4> HIDE DEF rest
      <4> QED BY <1>11, <2>2
    <3>2. rest[i - (m + k)] = a[i - m]
      BY <1>1, <1>3, <2>2
    <3>3. a[i - m] = i
      BY <1>1, <1>10, <2>2
    <3> QED BY <3>1, <3>2, <3>3
  <2> QED BY <2>1, <2>2
<1>13. UpTo(m + k) \o rest = UpTo(m + Len(a))
  BY <1>8, <1>11, <1>12, SeqEqual DEF Nodes
<1> QED BY <1>3, <1>13

(***************************************************************************)
(* The invariant.                                                          *)
(***************************************************************************)

\* The lists are empty at the start, and nothing was logged.
LEMMA InitInv == Init => Inv
<1> SUFFICES ASSUME Init PROVE Inv
  OBVIOUS
<1>1. TypeOK
  <2>1. <<>> \in Nodes /\ Len(<<>>) = 0
    BY DEF Nodes
  <2>2. NoNodes \in Lists
    BY <2>1 DEF NoNodes, Lists
  <2>3. 0 \in 0 .. Len(<<>>) /\ 0 \in 0 .. MaxLogs
    BY <2>1, MaxLogsAssumption
  <2> QED BY <2>1, <2>2, <2>3, Zenon DEF Init, TypeOK
<1>2. UpTo(0) = <<>>
  BY DEF UpTo
<1>3. <<>> \o <<>> \o <<>> \o <<>> = <<>>
  OBVIOUS
<1> QED BY <1>1, <1>2, <1>3 DEF Init, Inv, LogsInOrder, FreedOnceWritten, NoNodes

\* What the two swaps and a change of one list do to a LogListThreadData.
LEMMA ListsProperties ==
  ASSUME NEW l \in Lists, NEW s \in Nodes
  PROVE  /\ l.a \in Nodes /\ l.swap \in Nodes /\ l.b \in Nodes
         /\ FromA(l) \in Lists /\ FromB(l) \in Lists
         /\ FromA(l).a = l.swap /\ FromA(l).swap = l.a /\ FromA(l).b = l.b
         /\ FromB(l).a = l.a /\ FromB(l).swap = l.b /\ FromB(l).b = l.swap
         /\ [l EXCEPT !.a = s] \in Lists /\ [l EXCEPT !.b = s] \in Lists
         /\ [l EXCEPT !.a = s].a = s /\ [l EXCEPT !.a = s].swap = l.swap
         /\ [l EXCEPT !.a = s].b = l.b
         /\ [l EXCEPT !.b = s].b = s /\ [l EXCEPT !.b = s].swap = l.swap
         /\ [l EXCEPT !.b = s].a = l.a
BY DEF Lists, FromA, FromB

\* The lengths and the order behind FreedOnceWritten: the nodes freed and those in dels
\* make up the file, and the file is 1, 2, 3, ...
LEMMA FileInOrder ==
  ASSUME Inv
  PROVE  /\ Len(file) \in 0 .. logged
         /\ file = UpTo(Len(file))
<1>1. /\ write.b \in Nodes /\ write.swap \in Nodes /\ write.a \in Nodes /\ file \in Nodes
      /\ logged \in 0 .. MaxLogs
  BY ListsProperties DEF Inv, TypeOK
<1>2. write.b \o write.swap \in Nodes /\ (write.b \o write.swap) \o write.a \in Nodes
  BY <1>1, ConcatProperties DEF Nodes
<1>3. file \o write.b \o write.swap \o write.a = file \o ((write.b \o write.swap) \o write.a)
  <2>1. \A p, q, r \in Nodes : (p \o q) \o r = p \o (q \o r)
    BY ConcatAssociative DEF Nodes
  <2>2. (file \o write.b) \o write.swap = file \o (write.b \o write.swap)
    BY <1>1, <2>1, Zenon
  <2>3. (file \o (write.b \o write.swap)) \o write.a
          = file \o ((write.b \o write.swap) \o write.a)
    BY <1>1, <1>2, <2>1, Zenon
  <2> QED BY <2>2, <2>3
<1>4. file \o ((write.b \o write.swap) \o write.a) = UpTo(logged)
  BY <1>3 DEF Inv, LogsInOrder
<1> QED BY <1>1, <1>2, <1>4, PrefixOfUpTo

\* A node put at the end of the list of either side.
PutA(l, e) == [l EXCEPT !.a = Append(@, e)]
PutB(l, e) == [l EXCEPT !.b = Append(@, e)]

\* Logging a node puts it at the end of its stream.
LEMMA StreamLog ==
  ASSUME NEW l \in Lists, NEW f \in Nodes, NEW e \in 1 .. MaxLogs
  PROVE  /\ PutA(l, e) \in Lists
         /\ f \o PutA(l, e).b \o PutA(l, e).swap \o PutA(l, e).a
              = Append(f \o l.b \o l.swap \o l.a, e)
<1> DEFINE m == PutA(l, e)
           p == f \o l.b \o l.swap
<1>1. l.a \in Nodes /\ l.swap \in Nodes /\ l.b \in Nodes
  BY ListsProperties
<1>2. p \in Nodes
  BY <1>1, ConcatProperties DEF Nodes
<1>3. Append(l.a, e) \in Nodes
  BY <1>1, AppendProperties DEF Nodes
<1>4. m = [l EXCEPT !.a = Append(l.a, e)]
  BY DEF PutA
<1> HIDE DEF m
<1>5. m \in Lists /\ m.b = l.b /\ m.swap = l.swap /\ m.a = Append(l.a, e)
  BY <1>3, <1>4, ListsProperties
<1>6. p \o Append(l.a, e) = Append(p \o l.a, e)
  <2> HIDE DEF p
  <2> QED BY <1>1, <1>2, AppendToLast, SMTT(40) DEF Nodes
<1> QED BY <1>5, <1>6 DEF m

\* Neither side's swap changes the stream: it is made on an empty list.
LEMMA StreamSwap ==
  ASSUME NEW l \in Lists, NEW f \in Nodes
  PROVE  /\ l.swap = <<>> =>
              LET m == FromA(l)
              IN  f \o m.b \o m.swap \o m.a = f \o l.b \o l.swap \o l.a
         /\ l.b = <<>> =>
              LET m == FromB(l)
              IN  f \o m.b \o m.swap \o m.a = f \o l.b \o l.swap \o l.a
<1>1. l.a \in Nodes /\ l.swap \in Nodes /\ l.b \in Nodes
  BY ListsProperties
<1>2. f \o l.b \in Nodes
  BY <1>1, ConcatProperties DEF Nodes
<1>3. l.swap = <<>> => f \o l.b \o l.a \o l.swap = f \o l.b \o l.swap \o l.a
  BY <1>1, <1>2, SwapEmpty DEF Nodes
<1>4. l.b = <<>> => f \o l.swap \o l.b = f \o l.b \o l.swap
  BY <1>1, SwapEmpty DEF Nodes
<1> QED BY <1>3, <1>4, ListsProperties, Zenon

\* Writing a node moves it from the head of the log thread's list to the file.
LEMMA StreamWrite ==
  ASSUME NEW l \in Lists, NEW f \in Nodes, l.b # <<>>
  PROVE  LET m == [l EXCEPT !.b = Tail(@)]
             g == Append(f, Head(l.b))
         IN  /\ m \in Lists /\ g \in Nodes
             /\ Head(l.b) \in 1 .. MaxLogs
             /\ g \o m.b \o m.swap \o m.a = f \o l.b \o l.swap \o l.a
<1> DEFINE m == [l EXCEPT !.b = Tail(@)]
           g == Append(f, Head(l.b))
<1>1. l.a \in Nodes /\ l.swap \in Nodes /\ l.b \in Nodes
  BY ListsProperties
<1>2. /\ g \o Tail(l.b) = f \o l.b
      /\ Head(l.b) \in 1 .. MaxLogs /\ Tail(l.b) \in Nodes
  BY <1>1, MoveHead DEF Nodes
<1>3. g \in Nodes
  BY <1>2, AppendProperties DEF Nodes
<1>4. m = [l EXCEPT !.b = Tail(l.b)]
  OBVIOUS
<1>5. m \in Lists /\ m.a = l.a /\ m.swap = l.swap /\ m.b = Tail(l.b)
  BY <1>2, <1>4, ListsProperties
<1> HIDE DEF m, g
<1>6. g \o m.b \o m.swap \o m.a = f \o l.b \o l.swap \o l.a
  BY <1>2, <1>5
<1> QED BY <1>2, <1>3, <1>5, <1>6 DEF m, g

\* The same for the lists on the way back: what is freed, dels.a, dels.swap and dels.b.
LEMMA DelsSwap ==
  ASSUME NEW l \in Lists, NEW u \in Nodes
  PROVE  /\ l.a = <<>> =>
              LET m == FromA(l)
              IN  u \o m.a \o m.swap \o m.b = u \o l.a \o l.swap \o l.b
         /\ l.swap = <<>> =>
              LET m == FromB(l)
              IN  u \o m.a \o m.swap \o m.b = u \o l.a \o l.swap \o l.b
<1>1. l.a \in Nodes /\ l.swap \in Nodes /\ l.b \in Nodes
  BY ListsProperties
<1>2. u \o l.a \in Nodes
  BY <1>1, ConcatProperties DEF Nodes
<1>3. l.swap = <<>> => u \o l.a \o l.b \o l.swap = u \o l.a \o l.swap \o l.b
  BY <1>1, <1>2, SwapEmpty DEF Nodes
<1>4. l.a = <<>> => u \o l.swap \o l.a = u \o l.a \o l.swap
  BY <1>1, SwapEmpty DEF Nodes
<1> QED BY <1>3, <1>4, ListsProperties, Zenon

\* A node written goes to the end of dels as to the end of the file.
LEMMA DelsAppend ==
  ASSUME NEW l \in Lists, NEW u \in Nodes, NEW e \in 1 .. MaxLogs
  PROVE  /\ PutB(l, e) \in Lists
         /\ u \o PutB(l, e).a \o PutB(l, e).swap \o PutB(l, e).b
              = Append(u \o l.a \o l.swap \o l.b, e)
<1> DEFINE m == PutB(l, e)
           p == u \o l.a \o l.swap
<1>1. l.a \in Nodes /\ l.swap \in Nodes /\ l.b \in Nodes
  BY ListsProperties
<1>2. p \in Nodes
  BY <1>1, ConcatProperties DEF Nodes
<1>3. Append(l.b, e) \in Nodes
  BY <1>1, AppendProperties DEF Nodes
<1>4. m = [l EXCEPT !.b = Append(l.b, e)]
  BY DEF PutB
<1> HIDE DEF m
<1>5. m \in Lists /\ m.a = l.a /\ m.swap = l.swap /\ m.b = Append(l.b, e)
  BY <1>3, <1>4, ListsProperties
<1>6. p \o Append(l.b, e) = Append(p \o l.b, e)
  <2> HIDE DEF p
  <2> QED BY <1>1, <1>2, AppendToLast, SMTT(40) DEF Nodes
<1> QED BY <1>5, <1>6 DEF m

\* Freeing a prefix of dels.a counts exactly the nodes that were at its head.
LEMMA DelsFree ==
  ASSUME Inv, NEW k \in 0 .. Len(dels.a)
  PROVE  LET m == [dels EXCEPT !.a = SubSeq(@, k + 1, Len(@))]
         IN  /\ m \in Lists
             /\ freed + k \in 0 .. Len(file)
             /\ UpTo(freed + k) \o m.a \o m.swap \o m.b = file
<1> DEFINE rest == SubSeq(dels.a, k + 1, Len(dels.a))
           m == [dels EXCEPT !.a = SubSeq(@, k + 1, Len(@))]
<1>1. /\ dels \in Lists /\ dels.a \in Nodes /\ dels.swap \in Nodes /\ dels.b \in Nodes
      /\ file \in Nodes /\ freed \in 0 .. Len(file) /\ logged \in 0 .. MaxLogs
  BY ListsProperties DEF Inv, TypeOK
<1>2. Len(file) \in 0 .. MaxLogs
  BY <1>1, FileInOrder, MaxLogsAssumption
<1>3. freed \in 0 .. MaxLogs
  BY <1>1, <1>2, MaxLogsAssumption
<1>4. UpTo(freed) \in Nodes /\ Len(UpTo(freed)) = freed
  BY <1>3, UpToProperties
<1>5. UpTo(freed) \o dels.a \in Nodes /\ dels.swap \o dels.b \in Nodes
  BY <1>1, <1>4, ConcatProperties DEF Nodes
<1>6. Len(UpTo(freed) \o dels.a) = freed + Len(dels.a)
  <2>1. \A p, q \in Nodes : Len(p \o q) = Len(p) + Len(q)
    BY ConcatProperties DEF Nodes
  <2> QED BY <1>1, <1>4, <2>1
<1>7. (UpTo(freed) \o dels.a) \o (dels.swap \o dels.b) = UpTo(Len(file))
  <2> DEFINE t == UpTo(freed) \o dels.a
  <2>1. \A p, q, r \in Nodes : (p \o q) \o r = p \o (q \o r)
    BY ConcatAssociative DEF Nodes
  <2>2. t \in Nodes
    BY <1>5
  <2>3. (t \o dels.swap) \o dels.b = t \o (dels.swap \o dels.b)
    <3> HIDE DEF t
    <3> QED BY <1>1, <2>1, <2>2
  <2>4. (t \o dels.swap) \o dels.b = file
    BY DEF Inv, FreedOnceWritten
  <2>5. file = UpTo(Len(file))
    BY FileInOrder
  <2> QED BY <2>3, <2>4, <2>5, Zenon
<1>8. /\ freed + Len(dels.a) \in 0 .. Len(file)
      /\ UpTo(freed) \o dels.a = UpTo(freed + Len(dels.a))
  <2> DEFINE t == UpTo(freed) \o dels.a
  <2>1. Len(t) \in 0 .. Len(file) /\ t = UpTo(Len(t))
    <3>1. t \in Nodes /\ t \o (dels.swap \o dels.b) = UpTo(Len(file))
      BY <1>5, <1>7
    <3> HIDE DEF t
    <3> QED BY <1>2, <1>5, <3>1, PrefixOfUpTo
  <2> QED BY <1>6, <2>1
<1>9. Len(dels.a) \in Nat /\ freed + Len(dels.a) <= MaxLogs
  <2>1. Len(dels.a) \in Nat
    BY <1>1, LenProperties DEF Nodes
  <2>2. freed + Len(dels.a) \in 0 .. Len(file)
    BY <1>8
  <2> QED BY <1>2, <2>1, <2>2, MaxLogsAssumption
<1>10. rest \in Nodes /\ UpTo(freed + k) \o rest = UpTo(freed) \o dels.a
  BY <1>1, <1>3, <1>8, <1>9, FreePrefix
<1>11. freed + k \in 0 .. Len(file)
  BY <1>2, <1>3, <1>8, <1>9
<1>12. m = [dels EXCEPT !.a = rest]
  OBVIOUS
<1> HIDE DEF rest
<1>13. m \in Lists /\ m.a = rest /\ m.swap = dels.swap /\ m.b = dels.b
  <2>1. rest \in Nodes
    BY <1>10
  <2> HIDE DEF m
  <2> QED BY <1>1, <1>12, <2>1, ListsProperties
<1> HIDE DEF m
<1>14. UpTo(freed + k) \o m.a \o m.swap \o m.b = file
  BY <1>10, <1>13 DEF Inv, FreedOnceWritten
<1> QED BY <1>11, <1>13, <1>14 DEF m

\* Every step keeps the invariant.
LEMMA NextInv == Inv /\ [Next]_vars => Inv'
<1> SUFFICES ASSUME Inv, [Next]_vars PROVE Inv'
  OBVIOUS
<1>1. /\ write \in Lists /\ dels \in Lists /\ threadLog \in Lists
      /\ file \in Nodes /\ threadFile \in Nodes
      /\ freed \in 0 .. Len(file)
      /\ logged \in 0 .. MaxLogs /\ threadLogged \in 0 .. MaxLogs
  BY DEF Inv, TypeOK
<1>2. UpTo(freed) \in Nodes
  <2>1. Len(file) \in 0 .. MaxLogs
    BY <1>1, FileInOrder, MaxLogsAssumption
  <2>2. freed \in 0 .. MaxLogs
    BY <1>1, <2>1, MaxLogsAssumption
  <2> QED BY <2>2, UpToProperties
<1>3. /\ file \o write.b \o write.swap \o write.a = UpTo(logged)
      /\ threadFile \o threadLog.b \o threadLog.swap \o threadLog.a = UpTo(threadLogged)
      /\ UpTo(freed) \o dels.a \o dels.swap \o dels.b = file
  BY DEF Inv, LogsInOrder, FreedOnceWritten
<1>4. CASE AsyncLog
  <2>1. logged + 1 \in 1 .. MaxLogs /\ logged + 1 \in 0 .. MaxLogs /\ logged < MaxLogs
    BY <1>1, <1>4, MaxLogsAssumption DEF AsyncLog
  <2>2. write' = PutA(write, logged + 1)
    BY <1>4 DEF AsyncLog, PutA
  <2>3. /\ write' \in Lists
        /\ file \o write'.b \o write'.swap \o write'.a
             = Append(file \o write.b \o write.swap \o write.a, logged + 1)
    BY <1>1, <2>1, <2>2, StreamLog
  <2>4. Append(UpTo(logged), logged + 1) = UpTo(logged + 1)
    BY <1>1, <2>1, UpToProperties
  <2>5. file \o write'.b \o write'.swap \o write'.a = UpTo(logged + 1)
    BY <1>3, <2>3, <2>4
  <2>6. TypeOK'
    BY <1>4, <2>1, <2>3 DEF AsyncLog, Inv, TypeOK
  <2> QED BY <1>3, <1>4, <2>5, <2>6 DEF AsyncLog, Inv, LogsInOrder, FreedOnceWritten
<1>5. CASE ThreadLog
  <2>1. threadLogged + 1 \in 1 .. MaxLogs /\ threadLogged + 1 \in 0 .. MaxLogs /\ threadLogged < MaxLogs
    BY <1>1, <1>5, MaxLogsAssumption DEF ThreadLog
  <2>2. threadLog' = PutA(threadLog, threadLogged + 1)
    BY <1>5 DEF ThreadLog, PutA
  <2>3. /\ threadLog' \in Lists
        /\ threadFile \o threadLog'.b \o threadLog'.swap \o threadLog'.a
             = Append(threadFile \o threadLog.b \o threadLog.swap \o threadLog.a, threadLogged + 1)
    BY <1>1, <2>1, <2>2, StreamLog
  <2>4. Append(UpTo(threadLogged), threadLogged + 1) = UpTo(threadLogged + 1)
    BY <1>1, <2>1, UpToProperties
  <2>5. threadFile \o threadLog'.b \o threadLog'.swap \o threadLog'.a = UpTo(threadLogged + 1)
    BY <1>3, <2>3, <2>4
  <2>6. TypeOK'
    BY <1>5, <2>1, <2>3 DEF ThreadLog, Inv, TypeOK
  <2> QED BY <1>3, <1>5, <2>5, <2>6 DEF ThreadLog, Inv, LogsInOrder, FreedOnceWritten
<1>6. CASE ProcessWrite
  <2>1. /\ write' \in Lists
        /\ file \o write'.b \o write'.swap \o write'.a = UpTo(logged)
    BY <1>1, <1>3, <1>6, StreamSwap, ListsProperties, Zenon DEF ProcessWrite
  <2>2. TypeOK'
    BY <1>6, <2>1 DEF ProcessWrite, Inv, TypeOK
  <2> QED BY <1>3, <1>6, <2>1, <2>2 DEF ProcessWrite, Inv, LogsInOrder, FreedOnceWritten
<1>7. CASE ProcessDels
  <2>1. /\ dels' \in Lists
        /\ UpTo(freed) \o dels'.a \o dels'.swap \o dels'.b = file
    BY <1>1, <1>2, <1>3, <1>7, DelsSwap, ListsProperties, Zenon DEF ProcessDels
  <2>2. TypeOK'
    BY <1>7, <2>1 DEF ProcessDels, Inv, TypeOK
  <2> QED BY <1>3, <1>7, <2>1, <2>2 DEF ProcessDels, Inv, LogsInOrder, FreedOnceWritten
<1>8. CASE ProcessThreads
  <2>1. /\ threadLog' \in Lists
        /\ threadFile \o threadLog'.b \o threadLog'.swap \o threadLog'.a = UpTo(threadLogged)
    BY <1>1, <1>3, <1>8, StreamSwap, ListsProperties, Zenon DEF ProcessThreads
  <2>2. TypeOK'
    BY <1>8, <2>1 DEF ProcessThreads, Inv, TypeOK
  <2> QED BY <1>3, <1>8, <2>1, <2>2 DEF ProcessThreads, Inv, LogsInOrder, FreedOnceWritten
<1>9. CASE ProcessFree
  <2>1. PICK k \in 0 .. Len(dels.a) :
          /\ freed' = freed + k
          /\ dels' = [dels EXCEPT !.a = SubSeq(@, k + 1, Len(@))]
    BY <1>9 DEF ProcessFree
  <2>2. /\ dels' \in Lists
        /\ freed' \in 0 .. Len(file)
        /\ UpTo(freed') \o dels'.a \o dels'.swap \o dels'.b = file
    BY <2>1, DelsFree
  <2>3. TypeOK'
    BY <1>9, <2>2 DEF ProcessFree, Inv, TypeOK
  <2> QED BY <1>3, <1>9, <2>2, <2>3 DEF ProcessFree, Inv, LogsInOrder, FreedOnceWritten
<1>10. CASE Destroy
  <2>1. TypeOK'
    BY <1>10 DEF Destroy, Inv, TypeOK
  <2> QED BY <1>3, <1>10, <2>1 DEF Destroy, Inv, LogsInOrder, FreedOnceWritten
<1>11. CASE Joined
  <2>1. TypeOK'
    BY <1>11 DEF Joined, Inv, TypeOK
  <2> QED BY <1>3, <1>11, <2>1 DEF Joined, Inv, LogsInOrder, FreedOnceWritten
<1>12. CASE WriteNode
  <2>1. /\ write' \in Lists /\ file' \in Nodes /\ Head(write.b) \in 1 .. MaxLogs
        /\ file' \o write'.b \o write'.swap \o write'.a = UpTo(logged)
    BY <1>1, <1>3, <1>12, StreamWrite, ZenonT(40) DEF WriteNode
  <2>2. /\ dels' \in Lists
        /\ UpTo(freed) \o dels'.a \o dels'.swap \o dels'.b = file'
    <3>1. /\ dels' = PutB(dels, Head(write.b))
          /\ file' = Append(file, Head(write.b))
      BY <1>12 DEF WriteNode, PutB
    <3>2. /\ dels' \in Lists
          /\ UpTo(freed) \o dels'.a \o dels'.swap \o dels'.b
               = Append(UpTo(freed) \o dels.a \o dels.swap \o dels.b, Head(write.b))
      BY <1>1, <1>2, <2>1, <3>1, DelsAppend
    <3> QED BY <1>3, <3>1, <3>2
  <2>3. freed \in 0 .. Len(file')
    <3>1. Len(file') = Len(file) + 1
      BY <1>1, <1>12, <2>1, AppendProperties DEF WriteNode, Nodes
    <3> QED BY <1>1, <3>1, LenProperties DEF Nodes
  <2>4. TypeOK'
    BY <1>12, <2>1, <2>2, <2>3 DEF WriteNode, Inv, TypeOK
  <2> QED BY <1>3, <1>12, <2>1, <2>2, <2>4 DEF WriteNode, Inv, LogsInOrder, FreedOnceWritten
<1>13. CASE FetchWrite
  <2>1. /\ write' \in Lists
        /\ file \o write'.b \o write'.swap \o write'.a = UpTo(logged)
    BY <1>1, <1>3, <1>13, StreamSwap, ListsProperties, Zenon DEF FetchWrite
  <2>2. TypeOK'
    BY <1>13, <2>1 DEF FetchWrite, Inv, TypeOK
  <2> QED BY <1>3, <1>13, <2>1, <2>2 DEF FetchWrite, Inv, LogsInOrder, FreedOnceWritten
<1>14. CASE ReturnDels
  <2>1. /\ dels' \in Lists
        /\ UpTo(freed) \o dels'.a \o dels'.swap \o dels'.b = file
    BY <1>1, <1>2, <1>3, <1>14, DelsSwap, ListsProperties, Zenon DEF ReturnDels
  <2>2. TypeOK'
    BY <1>14, <2>1 DEF ReturnDels, Inv, TypeOK
  <2> QED BY <1>3, <1>14, <2>1, <2>2 DEF ReturnDels, Inv, LogsInOrder, FreedOnceWritten
<1>15. CASE Check
  <2>1. TypeOK'
    BY <1>15 DEF Check, Inv, TypeOK
  <2> QED BY <1>3, <1>15, <2>1 DEF Check, Inv, LogsInOrder, FreedOnceWritten
<1>16. CASE WriteThreadNode
  <2>1. /\ threadLog' \in Lists /\ threadFile' \in Nodes
        /\ threadFile' \o threadLog'.b \o threadLog'.swap \o threadLog'.a
             = UpTo(threadLogged)
    BY <1>1, <1>3, <1>16, StreamWrite DEF WriteThreadNode
  <2>2. TypeOK'
    BY <1>16, <2>1 DEF WriteThreadNode, Inv, TypeOK
  <2> QED BY <1>3, <1>16, <2>1, <2>2 DEF WriteThreadNode, Inv, LogsInOrder, FreedOnceWritten
<1>17. CASE FetchThread
  <2>1. /\ threadLog' \in Lists
        /\ threadFile \o threadLog'.b \o threadLog'.swap \o threadLog'.a = UpTo(threadLogged)
    BY <1>1, <1>3, <1>17, StreamSwap, ListsProperties, Zenon DEF FetchThread
  <2>2. TypeOK'
    BY <1>17, <2>1 DEF FetchThread, Inv, TypeOK
  <2> QED BY <1>3, <1>17, <2>1, <2>2 DEF FetchThread, Inv, LogsInOrder, FreedOnceWritten
<1>18. CASE UNCHANGED vars
  <2>1. TypeOK'
    BY <1>18 DEF vars, Inv, TypeOK
  <2> QED BY <1>3, <1>18, <2>1 DEF vars, Inv, LogsInOrder, FreedOnceWritten
<1> QED BY <1>4, <1>5, <1>6, <1>7, <1>8, <1>9, <1>10, <1>11, <1>12, <1>13, <1>14, <1>15,
           <1>16, <1>17, <1>18 DEF Next, Process, Run

\* The invariant holds of every behaviour.
LEMMA InvAlways == Spec => []Inv
<1> QED BY InitInv, NextInv, PTL DEF Spec

(***************************************************************************)
(* The theorems.                                                           *)
(***************************************************************************)

\* The variables of the logger keep their types, and the log thread returns only after
\* Destroy has set _terminate.
THEOREM TypeCorrect == Spec => []TypeOK
<1>1. Inv => TypeOK
  BY DEF Inv
<1> QED BY <1>1, InvAlways, PTL

\* However Process and ThreadRun interleave, a stream's nodes are in the file and in the
\* lists exactly once and in the order in which AsyncLog or ThreadLog got them.
THEOREM NodesStayInOrder == Spec => []LogsInOrder
<1>1. Inv => LogsInOrder
  BY DEF Inv
<1> QED BY <1>1, InvAlways, PTL

\* The nodes that Process has freed and those on their way back in _delLists are exactly
\* the nodes that ThreadRun has written, in that order: none is freed twice or too early.
THEOREM FreedExactlyWhatWasWritten == Spec => []FreedOnceWritten
<1>1. Inv => FreedOnceWritten
  BY DEF Inv
<1> QED BY <1>1, InvAlways, PTL
=============================================================================
