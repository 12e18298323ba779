-------------------------- MODULE NetEngineProofs --------------------------
(***************************************************************************)
(* Proofs about NetEngine, for any set of connections, any set of file     *)
(* descriptors and any queue size: no thread uses a deleted driver, an     *)
(* event that unbinds a descriptor reaches only the connection it was made *)
(* for, and every session is terminated once.                              *)
(*                                                                         *)
(* None of the three is inductive by itself.  What is needed besides is    *)
(* the order of the events: an event of a connection that is in one of the *)
(* queues says where the connection is in its life, and an UNBIND never    *)
(* stands behind a BIND of the same descriptor in the thread's queue.      *)
(***************************************************************************)
EXTENDS NetEngine, SequenceTheorems, TLAPS

\* The events on their way, those in the queue and the one in TryPush.
ThreadEvents == threadQ \o outMain
MainEvents == mainQ \o outWork

\* x stands before y in s.
Before(s, x, y) == \E i, j \in 1 .. Len(s) : i < j /\ s[i] = x /\ s[j] = y

\* A live socket's descriptor is its own.
FdsOwned ==
  \A c \in Conns : conn[c].phase \in {"accepted", "open"} =>
    conn[c].fd \in Fds /\ owner[conn[c].fd] = c

\* The sockets waiting for OnAccept or OnConnect wait once.
ListenOnce ==
  /\ \A c \in InSeq(listenQ) : conn[c].phase = "accepted"
  /\ \A c, d \in Conns : Before(listenQ, c, d) => c # d

\* The epoll thread's map holds live drivers under their descriptors.
BoundAlive ==
  /\ \A f \in Fds : ctlAdd[f] # None => Open(ctlAdd[f]) /\ conn[ctlAdd[f]].fd = f
  /\ pcWork = "bound" <=> cur # None
  /\ cur # None => conn[cur].fd \in Fds /\ ctlAdd[conn[cur].fd] = cur

\* A delayed close belongs to an established connection whose session is gone.
ReadyAlive ==
  \A f \in Fds : ready[f] # None =>
    /\ Open(ready[f]) /\ conn[ready[f]].fd = f
    /\ conn[ready[f]].establish /\ ~conn[ready[f]].session

\* A connection with a BIND on its way to the epoll thread is at the start of its life,
\* and an UNBIND on its way there finds its own connection or none.
ThreadEventsFit ==
  \A e \in InSeq(ThreadEvents) :
    /\ conn[e.conn].phase \in {"open", "freed"} /\ e.fd = conn[e.conn].fd
    /\ e.type = "BIND" =>
         /\ Open(e.conn) /\ ~conn[e.conn].establish /\ ctlAdd[e.fd] # e.conn
         /\ \A m \in InSeq(MainEvents) : m.conn # e.conn
    /\ e.type = "UNBIND" => ctlAdd[e.fd] \in {e.conn, None}

\* One BIND for each connection, and no UNBIND behind a BIND of the same descriptor.
ThreadEventsOrder ==
  \A x, y \in Events : Before(ThreadEvents, x, y) /\ x.type = "BIND" =>
    /\ y.type = "BIND" => x.conn # y.conn
    /\ y.type = "UNBIND" => x.fd # y.fd

\* The main thread is told of live connections, and of the end of those no longer bound.
MainEventsFit ==
  \A e \in InSeq(MainEvents) :
    /\ Open(e.conn) /\ e.type \in {"BIND", "UNBIND"}
    /\ e.type = "UNBIND" => ctlAdd[conn[e.conn].fd] # e.conn

\* It is told of a connection's BIND, then of its UNBIND, and of nothing else.
MainEventsOrder ==
  \A x, y \in Events : Before(MainEvents, x, y) /\ x.conn = y.conn =>
    x.type = "BIND" /\ y.type = "UNBIND"

\* TerminatedOnce, and nobody is told of the end of what has not begun.
ToldFits ==
  /\ TerminatedOnce
  /\ \A c \in Conns : conn[c].phase \in {"new", "accepted", "refused"} => conn[c].told = 0

\* Only an open connection, or one that was open, is established.
EstablishFits ==
  \A c \in Conns : conn[c].phase \in {"new", "accepted", "refused"} => ~conn[c].establish

IInv ==
  /\ TypeOK
  /\ FdsOwned /\ ListenOnce /\ BoundAlive /\ ReadyAlive
  /\ ThreadEventsFit /\ ThreadEventsOrder
  /\ MainEventsFit /\ MainEventsOrder
  /\ ToldFits /\ EstablishFits

(***************************************************************************)
(* What a queue holds, and in which order, after a push and after a pop.   *)
(***************************************************************************)

\* A push adds its event behind all others.
LEMMA Pushed ==
  ASSUME NEW S, NEW s \in Seq(S), NEW e \in S
  PROVE  /\ Append(s, e) \in Seq(S)
         /\ InSeq(Append(s, e)) = InSeq(s) \cup {e}
         /\ \A x, y : Before(Append(s, e), x, y) => Before(s, x, y) \/ (x \in InSeq(s) /\ y = e)
<1>1. /\ Append(s, e) \in Seq(S)
      /\ Len(Append(s, e)) = Len(s) + 1
      /\ \A i \in 1 .. Len(s) : Append(s, e)[i] = s[i]
      /\ Append(s, e)[Len(s) + 1] = e
  BY AppendProperties
<1>2. Len(s) \in Nat /\ DOMAIN s = 1 .. Len(s)
  BY LenProperties
<1>3. DOMAIN Append(s, e) = 1 .. Len(s) + 1
  BY <1>1, LenProperties
<1> DEFINE t == Append(s, e)
<1> HIDE DEF t
<1>4. InSeq(t) = InSeq(s) \cup {e}
  BY <1>1, <1>2, <1>3 DEF InSeq, t
<1>5. ASSUME NEW x, NEW y, Before(t, x, y)
      PROVE  Before(s, x, y) \/ (x \in InSeq(s) /\ y = e)
  <2>1. PICK i \in 1 .. Len(s) + 1, j \in 1 .. Len(s) + 1 : i < j /\ t[i] = x /\ t[j] = y
    BY <1>1, <1>5 DEF Before, t
  <2>2. i \in 1 .. Len(s) /\ s[i] = x
    BY <1>1, <1>2, <2>1 DEF t
  <2>3. CASE j = Len(s) + 1
    BY <1>1, <1>2, <2>1, <2>2, <2>3 DEF InSeq, t
  <2>4. CASE j # Len(s) + 1
    <3>1. j \in 1 .. Len(s) /\ s[j] = y
      BY <1>1, <1>2, <2>1, <2>4 DEF t
    <3> QED BY <2>1, <2>2, <3>1 DEF Before
  <2> QED BY <2>3, <2>4
<1> QED BY <1>1, <1>4, <1>5 DEF t

\* A pop takes the event before all others.
LEMMA Popped ==
  ASSUME NEW S, NEW s \in Seq(S), s # <<>>
  PROVE  /\ Head(s) \in S /\ Tail(s) \in Seq(S) /\ Len(Tail(s)) = Len(s) - 1
         /\ Len(s) \in Nat
         /\ Head(s) \in InSeq(s)
         /\ \A x \in InSeq(Tail(s)) : x \in InSeq(s) /\ Before(s, Head(s), x)
         /\ \A x, y : Before(Tail(s), x, y) => Before(s, x, y)
<1> DEFINE t == Tail(s)
<1>1. /\ Head(s) \in S /\ t \in Seq(S)
      /\ Len(t) = Len(s) - 1
      /\ \A i \in 1 .. Len(t) : t[i] = s[i + 1]
  BY HeadTailProperties
<1>2. Len(s) \in Nat /\ Len(s) > 0 /\ DOMAIN s = 1 .. Len(s)
  BY LenProperties, EmptySeq
<1>3. Len(t) \in Nat /\ DOMAIN t = 1 .. Len(t)
  BY <1>1, LenProperties
<1>4. Head(s) = s[1]
  OBVIOUS
<1> HIDE DEF t
<1>5. Head(s) \in InSeq(s)
  BY <1>2, <1>4 DEF InSeq
<1>6. ASSUME NEW x \in InSeq(t)
      PROVE  x \in InSeq(s) /\ Before(s, Head(s), x)
  <2>1. PICK i \in 1 .. Len(t) : t[i] = x
    BY <1>3 DEF InSeq
  <2>2. i + 1 \in 1 .. Len(s) /\ 1 \in 1 .. Len(s) /\ 1 < i + 1 /\ s[i + 1] = x
    BY <1>1, <1>2, <1>3, <2>1
  <2> QED BY <1>2, <1>4, <2>2 DEF InSeq, Before
<1>7. ASSUME NEW x, NEW y, Before(t, x, y)
      PROVE  Before(s, x, y)
  <2>1. PICK i \in 1 .. Len(t), j \in 1 .. Len(t) : i < j /\ t[i] = x /\ t[j] = y
    BY <1>7 DEF Before
  <2>2. /\ i + 1 \in 1 .. Len(s) /\ j + 1 \in 1 .. Len(s) /\ i + 1 < j + 1
        /\ s[i + 1] = x /\ s[j + 1] = y
    BY <1>1, <1>2, <1>3, <2>1
  <2> QED BY <2>2 DEF Before
<1> QED BY <1>1, <1>2, <1>5, <1>6, <1>7 DEF t

\* A queue and the event in TryPush make one line: the pop takes from its front.
LEMMA QueueLine ==
  ASSUME NEW S, NEW q \in Seq(S), NEW o \in Seq(S)
  PROVE  /\ q \o o \in Seq(S)
         /\ InSeq(q \o o) = InSeq(q) \cup InSeq(o)
         /\ q # <<>> => /\ q \o o # <<>>
                        /\ Head(q \o o) = Head(q) /\ Tail(q \o o) = Tail(q) \o o
         /\ q \o <<>> = q /\ <<>> \o q = q
<1> DEFINE r == q \o o
<1>1. /\ r \in Seq(S) /\ Len(r) = Len(q) + Len(o)
      /\ \A i \in 1 .. Len(q) + Len(o) : r[i] = IF i <= Len(q) THEN q[i] ELSE o[i - Len(q)]
  BY ConcatProperties
<1>2. /\ Len(q) \in Nat /\ Len(o) \in Nat
      /\ DOMAIN q = 1 .. Len(q) /\ DOMAIN o = 1 .. Len(o)
  BY LenProperties
<1>3. DOMAIN r = 1 .. Len(r)
  BY <1>1, LenProperties
<1> HIDE DEF r
<1>4. InSeq(r) = InSeq(q) \cup InSeq(o)
  <2>1. ASSUME NEW x \in InSeq(r) PROVE x \in InSeq(q) \cup InSeq(o)
    <3>1. PICK i \in 1 .. Len(r) : r[i] = x
      BY <1>3 DEF InSeq
    <3>2. CASE i <= Len(q)
      <4>1. i \in 1 .. Len(q) /\ q[i] = x
        BY <1>1, <1>2, <3>1, <3>2
      <4> QED BY <1>2, <4>1 DEF InSeq
    <3>3. CASE ~ (i <= Len(q))
      <4>1. i - Len(q) \in 1 .. Len(o) /\ o[i - Len(q)] = x
        BY <1>1, <1>2, <3>1, <3>3
      <4> QED BY <1>2, <4>1 DEF InSeq
    <3> QED BY <3>2, <3>3
  <2>2. ASSUME NEW x \in InSeq(q) PROVE x \in InSeq(r)
    <3>1. PICK i \in 1 .. Len(q) : q[i] = x
      BY <1>2 DEF InSeq
    <3>2. i \in 1 .. Len(r) /\ r[i] = x
      BY <1>1, <1>2, <3>1
    <3> QED BY <1>3, <3>2 DEF InSeq
  <2>3. ASSUME NEW x \in InSeq(o) PROVE x \in InSeq(r)
    <3>1. PICK i \in 1 .. Len(o) : o[i] = x
      BY <1>2 DEF InSeq
    <3>2. Len(q) + i \in 1 .. Len(r) /\ r[Len(q) + i] = x
      BY <1>1, <1>2, <3>1
    <3> QED BY <1>3, <3>2 DEF InSeq
  <2> QED BY <2>1, <2>2, <2>3
<1>5. ASSUME q # <<>>
      PROVE  /\ r # <<>> /\ Head(r) = Head(q) /\ Tail(r) = Tail(q) \o o
  <2>1. Len(q) > 0 /\ Len(r) > 0
    BY <1>1, <1>2, <1>5, EmptySeq
  <2>2. r # <<>>
    BY <2>1
  <2>3. Head(r) = Head(q)
    BY <1>1, <1>2, <2>1
  <2>4. /\ Tail(q) \in Seq(S) /\ Len(Tail(q)) = Len(q) - 1
        /\ \A i \in 1 .. Len(Tail(q)) : Tail(q)[i] = q[i + 1]
    BY <1>5, HeadTailProperties
  <2>5. /\ Tail(r) \in Seq(S) /\ Len(Tail(r)) = Len(r) - 1
        /\ \A i \in 1 .. Len(Tail(r)) : Tail(r)[i] = r[i + 1]
    BY <1>1, <2>2, HeadTailProperties
  <2> DEFINE tq == Tail(q)
             tr == Tail(r)
             u == tq \o o
  <2> HIDE DEF tq, tr
  <2>6. /\ u \in Seq(S) /\ Len(u) = Len(tq) + Len(o)
        /\ \A i \in 1 .. Len(tq) + Len(o) : u[i] = IF i <= Len(tq) THEN tq[i] ELSE o[i - Len(tq)]
    BY <2>4, ConcatProperties DEF tq
  <2> HIDE DEF u
  <2>7. Len(tr) = Len(u)
    BY <1>1, <1>2, <2>4, <2>5, <2>6 DEF tq, tr
  <2>8. ASSUME NEW i \in 1 .. Len(tr) PROVE tr[i] = u[i]
    <3>1. tr[i] = r[i + 1] /\ i + 1 \in 1 .. Len(q) + Len(o) /\ i \in 1 .. Len(tq) + Len(o)
      BY <1>1, <1>2, <2>4, <2>5 DEF tq, tr
    <3>2. CASE i <= Len(q) - 1
      BY <1>1, <1>2, <2>4, <2>6, <3>1, <3>2 DEF tq
    <3>3. CASE ~ (i <= Len(q) - 1)
      <4>1. r[i + 1] = o[(i + 1) - Len(q)]
        BY <1>1, <1>2, <3>1, <3>3
      <4>2. u[i] = o[i - (Len(q) - 1)]
        BY <1>2, <2>4, <2>6, <3>1, <3>3 DEF tq
      <4> QED BY <1>2, <3>1, <4>1, <4>2
    <3> QED BY <3>2, <3>3
  <2>9. tr = u
    BY <2>5, <2>6, <2>7, <2>8, SeqEqual DEF tr
  <2> QED BY <2>2, <2>3, <2>9 DEF u, tq, tr
<1>6. q \o <<>> = q /\ <<>> \o q = q
  BY ConcatEmptySeq
<1> QED BY <1>1, <1>4, <1>5, <1>6 DEF r

(***************************************************************************)
(* The two lines of events, and how the threads' pushes and pops move them. *)
(***************************************************************************)

\* An outbox holds one event or none.
LEMMA OutboxSeq == Outbox \subseteq Seq(Events)
<1>1. <<>> \in Seq(Events)
  BY EmptySeq
<1>2. \A e \in Events : <<e>> \in Seq(Events)
  OBVIOUS
<1> QED BY <1>1, <1>2 DEF Outbox

\* The lines are sequences of events and hold what ToThread and ToMain hold.
LEMMA Lines ==
  ASSUME TypeOK
  PROVE  /\ threadQ \in Seq(Events) /\ outMain \in Seq(Events)
         /\ mainQ \in Seq(Events) /\ outWork \in Seq(Events)
         /\ ThreadEvents \in Seq(Events) /\ MainEvents \in Seq(Events)
         /\ ToThread = InSeq(ThreadEvents) /\ ToMain = InSeq(MainEvents)
         /\ InSeq(ThreadEvents) \subseteq Events /\ InSeq(MainEvents) \subseteq Events
<1>1. /\ threadQ \in Seq(Events) /\ outMain \in Seq(Events)
      /\ mainQ \in Seq(Events) /\ outWork \in Seq(Events)
  BY OutboxSeq DEF TypeOK
<1>2. ThreadEvents \in Seq(Events) /\ InSeq(ThreadEvents) = InSeq(threadQ) \cup InSeq(outMain)
  BY <1>1, QueueLine DEF ThreadEvents
<1>3. MainEvents \in Seq(Events) /\ InSeq(MainEvents) = InSeq(mainQ) \cup InSeq(outWork)
  BY <1>1, QueueLine DEF MainEvents
<1>4. \A s \in Seq(Events) : InSeq(s) \subseteq Events
  BY LenProperties, ElementOfSeq DEF InSeq
<1> QED BY <1>1, <1>2, <1>3, <1>4 DEF ToThread, ToMain

\* What a push into the outbox does to a line, what a pop does, and what TryPush does.
LEMMA LineMoves ==
  ASSUME NEW q \in Seq(Events), NEW o \in Seq(Events), NEW e \in Events
  PROVE  /\ o = <<>> => q \o <<e>> = Append(q \o o, e)
         /\ q # <<>> => /\ q \o o # <<>> /\ Head(q \o o) = Head(q)
                        /\ Tail(q) \o o = Tail(q \o o)
         /\ (q \o o) \o <<>> = q \o o
<1>1. q \o o \in Seq(Events) /\ q \o <<>> = q
  BY QueueLine
<1>2. Append(q, e) = q \o <<e>>
  BY AppendIsConcat
<1>3. (q \o o) \o <<>> = q \o o
  BY <1>1, ConcatEmptySeq
<1>4. o = <<>> => q \o <<e>> = Append(q \o o, e)
  BY <1>1, <1>2
<1>5. q # <<>> => /\ q \o o # <<>> /\ Head(q \o o) = Head(q)
                  /\ Tail(q) \o o = Tail(q \o o)
  BY QueueLine
<1> QED BY <1>3, <1>4, <1>5

\* A line after a pop, with what is known of the event that was taken.
LEMMA LinePop ==
  ASSUME NEW s \in Seq(Events), NEW t, s # <<>>, t = Tail(s)
  PROVE  /\ t \in Seq(Events) /\ Head(s) \in Events /\ Head(s) \in InSeq(s)
         /\ \A x : x \in InSeq(t) => x \in InSeq(s) /\ Before(s, Head(s), x)
         /\ \A x, y : Before(t, x, y) => Before(s, x, y)
BY Popped

\* The main thread starts to push e: e is the last of its line.
LEMMA MainSends ==
  ASSUME TypeOK, NEW e \in Events, outMain = <<>>, outMain' = <<e>>, threadQ' = threadQ
  PROVE  /\ outMain' \in Outbox
         /\ \A x : x \in InSeq(ThreadEvents') => x \in InSeq(ThreadEvents) \/ x = e
         /\ \A x, y : Before(ThreadEvents', x, y)
                        => Before(ThreadEvents, x, y) \/ (x \in InSeq(ThreadEvents) /\ y = e)
<1>1. ThreadEvents \in Seq(Events) /\ threadQ \in Seq(Events) /\ outMain \in Seq(Events)
  BY Lines
<1>2. threadQ \o <<e>> = Append(threadQ \o outMain, e)
  BY <1>1, LineMoves
<1>3. ThreadEvents' = Append(ThreadEvents, e)
  BY <1>2 DEF ThreadEvents
<1>4. /\ \A x : x \in InSeq(Append(ThreadEvents, e)) => x \in InSeq(ThreadEvents) \/ x = e
      /\ \A x, y : Before(Append(ThreadEvents, e), x, y)
                     => Before(ThreadEvents, x, y) \/ (x \in InSeq(ThreadEvents) /\ y = e)
  BY <1>1, Pushed
<1>5. outMain' \in Outbox
  BY DEF Outbox
<1> QED BY <1>3, <1>4, <1>5

\* The epoll thread starts to push e.
LEMMA WorkSends ==
  ASSUME TypeOK, NEW e \in Events, outWork = <<>>, outWork' = <<e>>, mainQ' = mainQ
  PROVE  /\ outWork' \in Outbox
         /\ \A x : x \in InSeq(MainEvents') => x \in InSeq(MainEvents) \/ x = e
         /\ \A x, y : Before(MainEvents', x, y)
                        => Before(MainEvents, x, y) \/ (x \in InSeq(MainEvents) /\ y = e)
<1>1. MainEvents \in Seq(Events) /\ mainQ \in Seq(Events) /\ outWork \in Seq(Events)
  BY Lines
<1>2. mainQ \o <<e>> = Append(mainQ \o outWork, e)
  BY <1>1, LineMoves
<1>3. MainEvents' = Append(MainEvents, e)
  BY <1>2 DEF MainEvents
<1>4. /\ \A x : x \in InSeq(Append(MainEvents, e)) => x \in InSeq(MainEvents) \/ x = e
      /\ \A x, y : Before(Append(MainEvents, e), x, y)
                     => Before(MainEvents, x, y) \/ (x \in InSeq(MainEvents) /\ y = e)
  BY <1>1, Pushed
<1>5. outWork' \in Outbox
  BY DEF Outbox
<1> QED BY <1>3, <1>4, <1>5

\* The epoll thread takes the first event of its line.
LEMMA WorkTakes ==
  ASSUME TypeOK, threadQ # <<>>, threadQ' = Tail(threadQ), outMain' = outMain
  PROVE  LET e == Head(threadQ)
         IN  /\ threadQ' \in Seq(Events) /\ Len(threadQ') <= QueueSize
             /\ e \in Events /\ e \in InSeq(ThreadEvents)
             /\ \A x : x \in InSeq(ThreadEvents')
                         => x \in InSeq(ThreadEvents) /\ Before(ThreadEvents, e, x)
             /\ \A x, y : Before(ThreadEvents', x, y) => Before(ThreadEvents, x, y)
<1>1. ThreadEvents \in Seq(Events) /\ threadQ \in Seq(Events) /\ outMain \in Seq(Events)
  BY Lines
<1>2. /\ ThreadEvents # <<>> /\ Head(ThreadEvents) = Head(threadQ)
      /\ Tail(ThreadEvents) = Tail(threadQ) \o outMain
  BY <1>1, QueueLine DEF ThreadEvents
<1>3. ThreadEvents' = Tail(ThreadEvents)
  BY <1>2 DEF ThreadEvents
<1>4. /\ Head(ThreadEvents) \in Events /\ Head(ThreadEvents) \in InSeq(ThreadEvents)
      /\ \A x \in InSeq(Tail(ThreadEvents)) :
           x \in InSeq(ThreadEvents) /\ Before(ThreadEvents, Head(ThreadEvents), x)
      /\ \A x, y : Before(Tail(ThreadEvents), x, y) => Before(ThreadEvents, x, y)
  BY <1>1, <1>2, Popped
<1>5. threadQ' \in Seq(Events) /\ Len(threadQ') <= QueueSize
  <2>1. /\ Tail(threadQ) \in Seq(Events) /\ Len(Tail(threadQ)) = Len(threadQ) - 1
        /\ Len(threadQ) \in Nat
    BY <1>1, Popped
  <2> QED BY <2>1, QueueSizeAssumption DEF TypeOK
<1> QED BY <1>2, <1>3, <1>4, <1>5

\* The main thread takes the first event of its line.
LEMMA MainTakes ==
  ASSUME TypeOK, mainQ # <<>>, mainQ' = Tail(mainQ), outWork' = outWork
  PROVE  LET e == Head(mainQ)
         IN  /\ mainQ' \in Seq(Events) /\ Len(mainQ') <= QueueSize
             /\ e \in Events /\ e \in InSeq(MainEvents)
             /\ \A x : x \in InSeq(MainEvents')
                         => x \in InSeq(MainEvents) /\ Before(MainEvents, e, x)
             /\ \A x, y : Before(MainEvents', x, y) => Before(MainEvents, x, y)
<1>1. MainEvents \in Seq(Events) /\ mainQ \in Seq(Events) /\ outWork \in Seq(Events)
  BY Lines
<1>2. /\ MainEvents # <<>> /\ Head(MainEvents) = Head(mainQ)
      /\ Tail(MainEvents) = Tail(mainQ) \o outWork
  BY <1>1, QueueLine DEF MainEvents
<1>3. MainEvents' = Tail(MainEvents)
  BY <1>2 DEF MainEvents
<1>4. /\ Head(MainEvents) \in Events /\ Head(MainEvents) \in InSeq(MainEvents)
      /\ \A x \in InSeq(Tail(MainEvents)) :
           x \in InSeq(MainEvents) /\ Before(MainEvents, Head(MainEvents), x)
      /\ \A x, y : Before(Tail(MainEvents), x, y) => Before(MainEvents, x, y)
  BY <1>1, <1>2, Popped
<1>5. mainQ' \in Seq(Events) /\ Len(mainQ') <= QueueSize
  <2>1. /\ Tail(mainQ) \in Seq(Events) /\ Len(Tail(mainQ)) = Len(mainQ) - 1
        /\ Len(mainQ) \in Nat
    BY <1>1, Popped
  <2> QED BY <2>1, QueueSizeAssumption DEF TypeOK
<1> QED BY <1>2, <1>3, <1>4, <1>5

(***************************************************************************)
(* The initial states, and the steps that move bytes only.                 *)
(***************************************************************************)

\* Nothing is open and nothing is on its way.
LEMMA InitIInv == Init => IInv
<1> SUFFICES ASSUME Init PROVE IInv
  OBVIOUS
<1>1. /\ <<>> \in Seq(Events) /\ <<>> \in Seq(Conns) /\ Len(<<>>) = 0
      /\ <<>> \o <<>> = <<>>
  BY EmptySeq
<1>2. InSeq(<<>>) = {} /\ \A x, y : ~ Before(<<>>, x, y)
  BY <1>1 DEF InSeq, Before
<1>3. ThreadEvents = <<>> /\ MainEvents = <<>>
  BY <1>1 DEF Init, ThreadEvents, MainEvents
<1>4. Fresh \in ConnFields
  BY DEF Fresh, ConnFields
<1>5. TypeOK
  BY <1>1, <1>4, QueueSizeAssumption DEF Init, TypeOK, FdMap, Outbox
<1>6. \A c \in Conns : conn[c] = Fresh
  BY DEF Init
<1>7. FdsOwned /\ ToldFits /\ EstablishFits
  BY <1>6 DEF FdsOwned, ToldFits, TerminatedOnce, EstablishFits, Open, Fresh
<1>8. ListenOnce
  BY <1>2 DEF Init, ListenOnce
<1>9. BoundAlive /\ ReadyAlive
  BY DEF Init, BoundAlive, ReadyAlive
<1>10. ThreadEventsFit /\ ThreadEventsOrder /\ MainEventsFit /\ MainEventsOrder
  BY <1>2, <1>3 DEF ThreadEventsFit, ThreadEventsOrder, MainEventsFit, MainEventsOrder
<1> QED BY <1>5, <1>7, <1>8, <1>9, <1>10 DEF IInv

\* The fields of a connection on which the invariant depends.
SameLife(c) ==
  /\ conn'[c].phase = conn[c].phase /\ conn'[c].fd = conn[c].fd
  /\ conn'[c].session = conn[c].session /\ conn'[c].establish = conn[c].establish
  /\ conn'[c].told = conn[c].told

\* A step that changes no connection's life and at most pops an event for the epoll
\* thread keeps the invariant.
LEMMA Quiet ==
  ASSUME IInv, TypeOK', \A c \in Conns : SameLife(c),
         UNCHANGED <<owner, listenQ, ready, ctlAdd, cur>>,
         pcWork' = "bound" <=> pcWork = "bound",
         \/ ThreadEvents' = ThreadEvents
         \/ ThreadEvents # <<>> /\ ThreadEvents' = Tail(ThreadEvents),
         MainEvents' = MainEvents
  PROVE  IInv'
<1>1. TypeOK
  BY DEF IInv
<1>2. /\ \A x : x \in InSeq(ThreadEvents') => x \in InSeq(ThreadEvents)
      /\ \A x, y : Before(ThreadEvents', x, y) => Before(ThreadEvents, x, y)
  <2>1. ThreadEvents \in Seq(Events)
    BY <1>1, Lines
  <2> QED BY <2>1, LinePop
<1>3. InSeq(ThreadEvents) \subseteq Events /\ InSeq(MainEvents) \subseteq Events
  BY <1>1, Lines
<1>4. \A e \in Events : e.conn \in Conns
  BY DEF Events
<1>5. \A c \in InSeq(listenQ) : c \in Conns
  BY <1>1, LenProperties, ElementOfSeq DEF TypeOK, InSeq
<1>6. \A f \in Fds : /\ ready[f] # None => ready[f] \in Conns
                     /\ ctlAdd[f] # None => ctlAdd[f] \in Conns
  BY <1>1 DEF TypeOK, FdMap
<1>7. cur # None => cur \in Conns
  BY <1>1 DEF TypeOK
<1>8. FdsOwned'
  BY DEF IInv, FdsOwned, SameLife
<1>9. ListenOnce'
  BY <1>5 DEF IInv, ListenOnce, SameLife
<1>10. BoundAlive'
  BY <1>6, <1>7 DEF IInv, BoundAlive, SameLife, Open
<1>11. ReadyAlive'
  BY <1>6 DEF IInv, ReadyAlive, SameLife, Open
<1>12. ThreadEventsFit'
  BY <1>2, <1>3, <1>4 DEF IInv, ThreadEventsFit, SameLife, Open
<1>13. ThreadEventsOrder'
  BY <1>2 DEF IInv, ThreadEventsOrder
<1>14. MainEventsFit'
  BY <1>3, <1>4 DEF IInv, MainEventsFit, SameLife, Open
<1>15. MainEventsOrder'
  BY DEF IInv, MainEventsOrder
<1>16. ToldFits' /\ EstablishFits'
  BY DEF IInv, ToldFits, TerminatedOnce, EstablishFits, SameLife, Open
<1> QED BY <1>8, <1>9, <1>10, <1>11, <1>12, <1>13, <1>14, <1>15, <1>16 DEF IInv

\* The steps that Quiet is about: peers that close, data sent, the loops of both threads,
\* TryPush, and a shutdown of a socket.
LEMMA QuietSteps ==
  ASSUME IInv,
         \/ \E c \in Conns : PeerClose(c) \/ Send(c)
         \/ LoopBegin \/ ListenDone \/ EngineDone \/ ReadyDone \/ MainPush
         \/ FlushData \/ ThreadShutdown \/ DrainDone \/ EpollDone \/ WorkPush
         \/ UNCHANGED vars
  PROVE  IInv'
<1>1. TypeOK
  BY DEF IInv
<1>2. /\ threadQ \in Seq(Events) /\ outMain \in Seq(Events)
      /\ mainQ \in Seq(Events) /\ outWork \in Seq(Events)
      /\ ThreadEvents \in Seq(Events) /\ MainEvents \in Seq(Events)
  BY <1>1, Lines
<1>3. conn \in [Conns -> ConnFields]
  BY <1>1 DEF TypeOK
<1>4. ASSUME NEW c \in Conns, PeerClose(c) PROVE IInv'
  <2>1. conn' \in [Conns -> ConnFields] /\ \A d \in Conns : SameLife(d)
    BY <1>3, <1>4, ZenonT(40) DEF PeerClose, SameLife, ConnFields
  <2>2. TypeOK'
    BY <1>1, <1>4, <2>1 DEF PeerClose, TypeOK, main, work
  <2>3. ThreadEvents' = ThreadEvents /\ MainEvents' = MainEvents
    BY <1>4 DEF PeerClose, ThreadEvents, MainEvents
  <2> QED BY <1>4, <2>1, <2>2, <2>3, Quiet DEF PeerClose, main, work
<1>5. ASSUME NEW c \in Conns, Send(c) PROVE IInv'
  <2>1. conn' \in [Conns -> ConnFields] /\ \A d \in Conns : SameLife(d)
    BY <1>3, <1>5, ZenonT(40) DEF Send, SameLife, ConnFields
  <2>2. TypeOK'
    BY <1>1, <1>5, <2>1 DEF Send, TypeOK, main, work
  <2>3. ThreadEvents' = ThreadEvents /\ MainEvents' = MainEvents
    BY <1>5 DEF Send, ThreadEvents, MainEvents
  <2> QED BY <1>5, <2>1, <2>2, <2>3, Quiet DEF Send, main, work
<1>6. CASE LoopBegin \/ ListenDone \/ EngineDone \/ ReadyDone
  <2>1. \A d \in Conns : SameLife(d)
    BY <1>6 DEF LoopBegin, ListenDone, EngineDone, ReadyDone, Goto, SameLife
  <2>2. TypeOK'
    BY <1>1, <1>6 DEF LoopBegin, ListenDone, EngineDone, ReadyDone, Goto, TypeOK, work
  <2>3. ThreadEvents' = ThreadEvents /\ MainEvents' = MainEvents
    BY <1>6 DEF LoopBegin, ListenDone, EngineDone, ReadyDone, Goto, ThreadEvents, MainEvents
  <2>4. UNCHANGED <<owner, listenQ, ready, ctlAdd, cur, pcWork>>
    BY <1>6 DEF LoopBegin, ListenDone, EngineDone, ReadyDone, Goto, work
  <2> QED BY <2>1, <2>2, <2>3, <2>4, Quiet
<1>7. CASE MainPush
  <2>1. \A d \in Conns : SameLife(d)
    BY <1>7 DEF MainPush, SameLife
  <2>2. ThreadEvents' = ThreadEvents /\ MainEvents' = MainEvents
    <3>1. ThreadEvents' = (threadQ \o outMain) \o <<>>
      BY <1>7 DEF MainPush, ThreadEvents
    <3>2. (threadQ \o outMain) \o <<>> = threadQ \o outMain
      BY <1>2, ConcatEmptySeq DEF ThreadEvents
    <3> QED BY <1>7, <3>1, <3>2 DEF MainPush, ThreadEvents, MainEvents
  <2>3. threadQ' \in Seq(Events) /\ Len(threadQ') <= QueueSize
    <3>1. threadQ' = threadQ \o outMain /\ Len(threadQ) < QueueSize /\ outMain # <<>>
      BY <1>7 DEF MainPush
    <3>2. Len(threadQ \o outMain) = Len(threadQ) + Len(outMain) /\ threadQ \o outMain \in Seq(Events)
      BY <1>2, ConcatProperties
    <3>3. Len(outMain) = 1
      BY <1>1, <3>1 DEF TypeOK, Outbox
    <3>4. Len(threadQ) \in Nat
      BY <1>2, LenProperties
    <3> QED BY <3>1, <3>2, <3>3, <3>4, QueueSizeAssumption
  <2>4. TypeOK'
    BY <1>1, <1>7, <2>3 DEF MainPush, TypeOK, Outbox, main, work
  <2> QED BY <1>7, <2>1, <2>2, <2>4, Quiet DEF MainPush, main, work
<1>8. CASE WorkPush
  <2>1. \A d \in Conns : SameLife(d)
    BY <1>8 DEF WorkPush, SameLife
  <2>2. ThreadEvents' = ThreadEvents /\ MainEvents' = MainEvents
    <3>1. MainEvents' = (mainQ \o outWork) \o <<>>
      BY <1>8 DEF WorkPush, MainEvents
    <3>2. (mainQ \o outWork) \o <<>> = mainQ \o outWork
      BY <1>2, ConcatEmptySeq DEF MainEvents
    <3> QED BY <1>8, <3>1, <3>2 DEF WorkPush, ThreadEvents, MainEvents
  <2>3. mainQ' \in Seq(Events) /\ Len(mainQ') <= QueueSize
    <3>1. mainQ' = mainQ \o outWork /\ Len(mainQ) < QueueSize /\ outWork # <<>>
      BY <1>8 DEF WorkPush
    <3>2. Len(mainQ \o outWork) = Len(mainQ) + Len(outWork) /\ mainQ \o outWork \in Seq(Events)
      BY <1>2, ConcatProperties
    <3>3. Len(outWork) = 1
      BY <1>1, <3>1 DEF TypeOK, Outbox
    <3>4. Len(mainQ) \in Nat
      BY <1>2, LenProperties
    <3> QED BY <3>1, <3>2, <3>3, <3>4, QueueSizeAssumption
  <2>4. TypeOK'
    BY <1>1, <1>8, <2>3 DEF WorkPush, TypeOK, Outbox, main, work
  <2> QED BY <1>8, <2>1, <2>2, <2>4, Quiet DEF WorkPush, main, work
<1>9. CASE FlushData
  <2>1. conn' \in [Conns -> ConnFields] /\ \A d \in Conns : SameLife(d)
    <3>1. PICK sent \in SUBSET {c \in Bound : conn[c].data} :
            conn' = [c \in Conns |->
                       IF c \in sent \/ (c \in Bound /\ ~conn[c].data)
                       THEN [conn[c] EXCEPT !.data = FALSE, !.shut = @ \/ conn[c].activeClose]
                       ELSE conn[c]]
      BY <1>9 DEF FlushData
    <3>2. ASSUME NEW r \in ConnFields
          PROVE  LET q == [r EXCEPT !.data = FALSE, !.shut = @ \/ r.activeClose]
                 IN  /\ q \in ConnFields
                     /\ q.phase = r.phase /\ q.fd = r.fd /\ q.session = r.session
                     /\ q.establish = r.establish /\ q.told = r.told
      BY DEF ConnFields
    <3>3. ASSUME NEW d \in Conns
          PROVE  conn'[d] \in ConnFields /\ SameLife(d)
      <4>1. conn[d] \in ConnFields
        BY <1>3
      <4>2. \/ conn'[d] = conn[d]
            \/ conn'[d] = [conn[d] EXCEPT !.data = FALSE, !.shut = @ \/ conn[d].activeClose]
        BY <3>1
      <4> QED BY <3>2, <4>1, <4>2, Zenon DEF SameLife
    <3> QED BY <3>1, <3>3
  <2>2. TypeOK'
    BY <1>1, <1>9, <2>1 DEF FlushData, TypeOK, main
  <2>3. ThreadEvents' = ThreadEvents /\ MainEvents' = MainEvents
    BY <1>9 DEF FlushData, ThreadEvents, MainEvents
  <2> QED BY <1>9, <2>1, <2>2, <2>3, Quiet DEF FlushData, main
<1>10. CASE DrainDone \/ EpollDone
  <2>1. \A d \in Conns : SameLife(d)
    BY <1>10 DEF DrainDone, EpollDone, SameLife
  <2>2. TypeOK'
    BY <1>1, <1>10 DEF DrainDone, EpollDone, TypeOK, main
  <2>3. ThreadEvents' = ThreadEvents /\ MainEvents' = MainEvents
    BY <1>10 DEF DrainDone, EpollDone, ThreadEvents, MainEvents
  <2>4. UNCHANGED <<owner, listenQ, ready, ctlAdd, cur>> /\ pcWork # "bound" /\ pcWork' # "bound"
    BY <1>10 DEF DrainDone, EpollDone, main
  <2> QED BY <2>1, <2>2, <2>3, <2>4, Quiet
<1>11. CASE ThreadShutdown
  <2>1. conn' \in [Conns -> ConnFields] /\ \A d \in Conns : SameLife(d)
    <3>1. conn' = conn \/ \E c \in Conns : conn' = [conn EXCEPT ![c].shut = TRUE]
      BY <1>11, <1>3 DEF ThreadShutdown
    <3>2. ASSUME NEW c \in Conns, conn' = [conn EXCEPT ![c].shut = TRUE]
          PROVE  conn' \in [Conns -> ConnFields] /\ \A d \in Conns : SameLife(d)
      BY <1>3, <3>2, ZenonT(40) DEF SameLife, ConnFields
    <3> QED BY <1>3, <3>1, <3>2 DEF SameLife
  <2>2. threadQ # <<>> /\ threadQ' = Tail(threadQ)
    BY <1>11 DEF ThreadShutdown, ThreadPop
  <2>3. threadQ' \in Seq(Events) /\ Len(threadQ') <= QueueSize
    <3>1. Tail(threadQ) \in Seq(Events) /\ Len(Tail(threadQ)) = Len(threadQ) - 1 /\ Len(threadQ) \in Nat
      BY <1>2, <2>2, Popped
    <3> QED BY <1>1, <2>2, <3>1, QueueSizeAssumption DEF TypeOK
  <2>4. TypeOK'
    BY <1>1, <1>11, <2>1, <2>3 DEF ThreadShutdown, TypeOK, main, work
  <2>5. ThreadEvents # <<>> /\ ThreadEvents' = Tail(ThreadEvents) /\ MainEvents' = MainEvents
    <3>1. UNCHANGED <<outMain, mainQ, outWork>>
      BY <1>11 DEF ThreadShutdown
    <3>2. threadQ \in Seq(Events) /\ outMain \in Seq(Events)
      BY <1>2
    <3>3. threadQ \o outMain # <<>> /\ Tail(threadQ \o outMain) = Tail(threadQ) \o outMain
      BY <2>2, <3>2, QueueLine, SMTT(40)
    <3> QED BY <2>2, <3>1, <3>3, Zenon DEF ThreadEvents, MainEvents
  <2> QED BY <1>11, <2>1, <2>4, <2>5, Quiet DEF ThreadShutdown, main, work
<1>12. CASE UNCHANGED vars
  <2>1. \A d \in Conns : SameLife(d)
    BY <1>12 DEF vars, SameLife
  <2>2. TypeOK'
    BY <1>1, <1>12 DEF vars, TypeOK, main, work
  <2>3. ThreadEvents' = ThreadEvents /\ MainEvents' = MainEvents
    BY <1>12 DEF vars, ThreadEvents, MainEvents
  <2> QED BY <1>12, <2>1, <2>2, <2>3, Quiet DEF vars, main, work
<1> QED BY <1>4, <1>5, <1>6, <1>7, <1>8, <1>9, <1>10, <1>11, <1>12

(***************************************************************************)
(* The steps of a connection's life.                                       *)
(***************************************************************************)

\* What the type invariant says of the connections that the state names.
LEMMA Named ==
  ASSUME TypeOK
  PROVE  /\ \A e \in InSeq(ThreadEvents) \cup InSeq(MainEvents) : e \in Events
         /\ \A e \in Events : /\ e.conn \in Conns /\ e.fd \in Fds
                              /\ e.type \in {"BIND", "UNBIND", "SHUT_DWON"}
         /\ \A c \in InSeq(listenQ) : c \in Conns
         /\ \A f \in Fds : /\ ready[f] # None => ready[f] \in Conns
                           /\ ctlAdd[f] # None => ctlAdd[f] \in Conns
         /\ cur # None => cur \in Conns
         /\ conn \in [Conns -> ConnFields]
         /\ listenQ \in Seq(Conns)
<1>1. \A e \in InSeq(ThreadEvents) \cup InSeq(MainEvents) : e \in Events
  BY Lines
<1>2. \A e \in Events : /\ e.conn \in Conns /\ e.fd \in Fds
                        /\ e.type \in {"BIND", "UNBIND", "SHUT_DWON"}
  BY DEF Events
<1>3. \A c \in InSeq(listenQ) : c \in Conns
  BY LenProperties, ElementOfSeq DEF TypeOK, InSeq
<1> QED BY <1>1, <1>2, <1>3 DEF TypeOK, FdMap

\* A socket gets a descriptor that no live socket has.
LEMMA AcceptStep ==
  ASSUME IInv, NEW c \in Conns, NEW f \in Fds, Accept(c, f)
  PROVE  IInv'
<1>1. TypeOK
  BY DEF IInv
<1>2. /\ conn' \in [Conns -> ConnFields]
      /\ conn'[c].phase = "accepted" /\ conn'[c].fd = f /\ conn'[c].told = conn[c].told
      /\ conn'[c].establish = conn[c].establish
      /\ \A d \in Conns : d # c => conn'[d] = conn[d]
  <2>1. conn[c] \in ConnFields
    BY <1>1 DEF TypeOK
  <2> QED BY <1>1, <2>1 DEF Accept, TypeOK, ConnFields
<1>3. /\ owner' \in FdMap /\ owner'[f] = c /\ owner[f] = None
      /\ \A g \in Fds : g # f => owner'[g] = owner[g]
  BY <1>1 DEF Accept, TypeOK, FdMap
<1>4. conn[c].phase = "new"
  BY DEF Accept
<1>5. /\ listenQ' \in Seq(Conns)
      /\ InSeq(listenQ') = InSeq(listenQ) \cup {c}
      /\ \A x, y : Before(listenQ', x, y) => Before(listenQ, x, y) \/ (x \in InSeq(listenQ) /\ y = c)
  BY <1>1, Pushed DEF Accept, TypeOK
<1>6. ThreadEvents' = ThreadEvents /\ MainEvents' = MainEvents
  BY DEF Accept, ThreadEvents, MainEvents
<1>7. UNCHANGED <<threadQ, mainQ, pcMain, ready, outMain, pcWork, cur, ctlAdd, outWork>>
  BY DEF Accept, main, work
<1>8. TypeOK'
  BY <1>1, <1>2, <1>3, <1>5, <1>7 DEF TypeOK
<1>9. FdsOwned'
  BY <1>1, <1>2, <1>3, NoneAssumption DEF IInv, FdsOwned
<1>10. ListenOnce'
  BY <1>1, <1>2, <1>4, <1>5, Named DEF IInv, ListenOnce
<1>11. BoundAlive'
  BY <1>1, <1>2, <1>4, <1>7, Named DEF IInv, BoundAlive, Open
<1>12. ReadyAlive'
  BY <1>1, <1>2, <1>4, <1>7, Named DEF IInv, ReadyAlive, Open
<1>13. ThreadEventsFit'
  BY <1>1, <1>2, <1>4, <1>6, <1>7, Named DEF IInv, ThreadEventsFit, Open
<1>14. ThreadEventsOrder'
  BY <1>6 DEF IInv, ThreadEventsOrder
<1>15. MainEventsFit'
  BY <1>1, <1>2, <1>4, <1>6, <1>7, Named DEF IInv, MainEventsFit, Open
<1>16. MainEventsOrder'
  BY <1>6 DEF IInv, MainEventsOrder
<1>17. ToldFits' /\ EstablishFits'
  BY <1>2, <1>4 DEF IInv, ToldFits, TerminatedOnce, EstablishFits, Open
<1> QED BY <1>8, <1>9, <1>10, <1>11, <1>12, <1>13, <1>14, <1>15, <1>16, <1>17 DEF IInv

\* A session closes its connection: now, or when what it sent is gone.
LEMMA CloseStep ==
  ASSUME IInv, NEW c \in Conns, Close(c)
  PROVE  IInv'
<1>1. TypeOK
  BY DEF IInv
<1>2. /\ Open(c) /\ conn[c].session /\ conn[c].establish /\ conn[c].told = 0
      /\ conn[c].fd \in Fds /\ owner[conn[c].fd] = c
  BY DEF Close, IInv, ToldFits, TerminatedOnce, FdsOwned, Open
<1>3. /\ conn' \in [Conns -> ConnFields]
      /\ conn'[c].phase = conn[c].phase /\ conn'[c].fd = conn[c].fd
      /\ conn'[c].establish = conn[c].establish
      /\ ~conn'[c].session /\ conn'[c].told = 1
      /\ \A d \in Conns : d # c => conn'[d] = conn[d]
  <2>1. conn[c] \in ConnFields
    BY <1>1 DEF TypeOK
  <2> QED BY <1>1, <1>2, <2>1 DEF Close, TypeOK, ConnFields
<1>4. /\ ready' \in FdMap
      /\ ready'[conn[c].fd] \in {ready[conn[c].fd], c}
      /\ \A g \in Fds : g # conn[c].fd => ready'[g] = ready[g]
  BY <1>1, <1>2 DEF Close, TypeOK, FdMap
<1>5. UNCHANGED <<owner, listenQ, threadQ, mainQ, pcMain, pcWork, cur, ctlAdd, outWork>>
  BY DEF Close, work
<1>6. MainEvents' = MainEvents
  BY <1>5 DEF MainEvents
<1> DEFINE evt == Event("SHUT_DWON", c, conn[c].fd)
<1>7. evt \in Events /\ evt.type = "SHUT_DWON" /\ evt.conn = c /\ evt.fd = conn[c].fd
  BY <1>2 DEF Event, Events
<1> HIDE DEF evt
<1>8. /\ outMain' \in Outbox
      /\ \A x : x \in InSeq(ThreadEvents') => x \in InSeq(ThreadEvents) \/ x = evt
      /\ \A x, y : Before(ThreadEvents', x, y)
                     => Before(ThreadEvents, x, y) \/ (x \in InSeq(ThreadEvents) /\ y = evt)
  <2>1. CASE conn[c].data
    <3>1. outMain' = outMain /\ ThreadEvents' = ThreadEvents
      BY <1>5, <2>1 DEF Close, ThreadEvents
    <3> QED BY <1>1, <3>1 DEF TypeOK
  <2>2. CASE ~conn[c].data
    <3>1. outMain = <<>> /\ outMain' = <<evt>>
      BY <2>2 DEF Close, InClient, evt
    <3> QED BY <1>1, <1>5, <1>7, <3>1, MainSends
  <2> QED BY <2>1, <2>2
<1>9. TypeOK'
  BY <1>1, <1>3, <1>4, <1>5, <1>8 DEF TypeOK
<1>11. FdsOwned'
  BY <1>3, <1>5 DEF IInv, FdsOwned
<1>12. ListenOnce'
  BY <1>1, <1>3, <1>5, Named DEF IInv, ListenOnce
<1>13. BoundAlive'
  BY <1>1, <1>3, <1>5, Named DEF IInv, BoundAlive, Open
<1>14. ReadyAlive'
  <2> SUFFICES ASSUME NEW g \in Fds, ready'[g] # None
               PROVE  /\ conn'[ready'[g]].phase = "open" /\ conn'[ready'[g]].fd = g
                      /\ conn'[ready'[g]].establish /\ ~conn'[ready'[g]].session
    BY DEF ReadyAlive, Open
  <2>1. CASE ready'[g] = c /\ g = conn[c].fd
    BY <1>2, <1>3, <2>1 DEF Open
  <2>2. CASE ready'[g] = ready[g]
    BY <1>1, <1>2, <1>3, <2>2, Named DEF IInv, ReadyAlive, Open
  <2> QED BY <1>4, <2>1, <2>2
<1>15. ThreadEventsFit'
  BY <1>1, <1>2, <1>3, <1>5, <1>6, <1>7, <1>8, Named DEF IInv, ThreadEventsFit, Open
<1>16. ThreadEventsOrder'
  BY <1>7, <1>8 DEF IInv, ThreadEventsOrder
<1>17. MainEventsFit'
  BY <1>1, <1>3, <1>5, <1>6, Named DEF IInv, MainEventsFit, Open
<1>18. MainEventsOrder'
  BY <1>6 DEF IInv, MainEventsOrder
<1>19. ToldFits' /\ EstablishFits'
  BY <1>2, <1>3 DEF IInv, ToldFits, TerminatedOnce, EstablishFits, Open
<1> QED BY <1>9, <1>11, <1>12, <1>13, <1>14, <1>15, <1>16, <1>17, <1>18, <1>19 DEF IInv

\* A session is made for a socket and its driver is sent to be bound, or the socket is
\* closed again.
LEMMA CreateStep ==
  ASSUME IInv, CreateConnection
  PROVE  IInv'
<1> DEFINE c == Head(listenQ)
<1>1. TypeOK
  BY DEF IInv
<1>2. /\ c \in Conns /\ c \in InSeq(listenQ) /\ listenQ' \in Seq(Conns)
      /\ \A x \in InSeq(listenQ') : x \in InSeq(listenQ) /\ Before(listenQ, c, x)
      /\ \A x, y : Before(listenQ', x, y) => Before(listenQ, x, y)
  <2>1. listenQ \in Seq(Conns) /\ listenQ # <<>> /\ listenQ' = Tail(listenQ)
    BY <1>1 DEF CreateConnection, TypeOK
  <2> QED BY <2>1, Popped
<1>3. /\ conn[c].phase = "accepted" /\ conn[c].told = 0
      /\ conn[c].fd \in Fds /\ owner[conn[c].fd] = c
  BY <1>2 DEF IInv, ListenOnce, ToldFits, FdsOwned
<1>4. conn[c] \in ConnFields /\ conn \in [Conns -> ConnFields]
  BY <1>1, <1>2 DEF TypeOK
<1>5. UNCHANGED <<threadQ, mainQ, pcMain, ready, pcWork, cur, ctlAdd, outWork>>
  BY DEF CreateConnection, main, work
<1>6. MainEvents' = MainEvents
  BY <1>5 DEF MainEvents
<1>7. ASSUME NEW d \in InSeq(listenQ') PROVE d \in Conns /\ d # c /\ conn[d].phase = "accepted"
  BY <1>1, <1>2, Named DEF IInv, ListenOnce
<1>8. CASE /\ conn' = [conn EXCEPT ![c].phase = "open", ![c].session = TRUE]
           /\ outMain' = <<Event("BIND", c, conn[c].fd)>>
           /\ UNCHANGED owner
  <2>1. /\ conn' \in [Conns -> ConnFields]
        /\ conn'[c].phase = "open" /\ conn'[c].fd = conn[c].fd
        /\ conn'[c].establish = conn[c].establish /\ conn'[c].session /\ conn'[c].told = 0
        /\ \A d \in Conns : d # c => conn'[d] = conn[d]
    BY <1>2, <1>3, <1>4, <1>8 DEF ConnFields
  <2> DEFINE evt == Event("BIND", c, conn[c].fd)
  <2>2. evt \in Events /\ evt.type = "BIND" /\ evt.conn = c /\ evt.fd = conn[c].fd
    BY <1>2, <1>3 DEF Event, Events
  <2>3. outMain = <<>> /\ outMain' = <<evt>>
    BY <1>8 DEF CreateConnection
  <2> HIDE DEF evt, c
  <2>4. /\ outMain' \in Outbox
        /\ \A x : x \in InSeq(ThreadEvents') => x \in InSeq(ThreadEvents) \/ x = evt
        /\ \A x, y : Before(ThreadEvents', x, y)
                       => Before(ThreadEvents, x, y) \/ (x \in InSeq(ThreadEvents) /\ y = evt)
    BY <1>1, <1>5, <2>2, <2>3, MainSends
  <2>5. TypeOK'
    BY <1>1, <1>2, <1>5, <1>8, <2>1, <2>4 DEF TypeOK
  <2>6. FdsOwned'
    BY <1>3, <1>8, <2>1 DEF IInv, FdsOwned
  <2>7. ListenOnce'
    BY <1>2, <1>7, <2>1 DEF IInv, ListenOnce
  <2>8. BoundAlive'
    BY <1>1, <1>3, <1>5, <2>1, Named DEF IInv, BoundAlive, Open
  <2>9. ReadyAlive'
    BY <1>1, <1>3, <1>5, <2>1, Named DEF IInv, ReadyAlive, Open
  <2>10. ThreadEventsFit'
    <3>1. ctlAdd[conn[c].fd] # c
      BY <1>1, <1>2, <1>3, Named, NoneAssumption DEF IInv, BoundAlive, Open
    <3>2. \A m \in InSeq(MainEvents) : m.conn # c
      BY <1>3 DEF IInv, MainEventsFit, Open
    <3>3. ~conn[c].establish
      BY <1>2, <1>3 DEF IInv, EstablishFits
    <3>4. ASSUME NEW e \in InSeq(ThreadEvents) PROVE e.conn # c /\ e.conn \in Conns
      BY <1>1, <1>3, Named DEF IInv, ThreadEventsFit
    <3> QED BY <1>5, <1>6, <2>1, <2>2, <2>4, <3>1, <3>2, <3>3, <3>4
            DEF IInv, ThreadEventsFit, Open
  <2>11. ThreadEventsOrder'
    BY <1>1, <1>3, <2>2, <2>4, Named DEF IInv, ThreadEventsOrder, ThreadEventsFit, Open
  <2>12. MainEventsFit'
    BY <1>1, <1>3, <1>5, <1>6, <2>1, Named DEF IInv, MainEventsFit, Open
  <2>13. MainEventsOrder'
    BY <1>6 DEF IInv, MainEventsOrder
  <2>14. ToldFits' /\ EstablishFits'
    BY <2>1 DEF IInv, ToldFits, TerminatedOnce, EstablishFits, Open
  <2> QED BY <2>5, <2>6, <2>7, <2>8, <2>9, <2>10, <2>11, <2>12, <2>13, <2>14 DEF IInv
<1>9. CASE /\ conn' = [conn EXCEPT ![c].phase = "refused"]
           /\ owner' = [owner EXCEPT ![conn[c].fd] = None]
           /\ UNCHANGED outMain
  <2>1. /\ conn' \in [Conns -> ConnFields]
        /\ conn'[c].phase = "refused" /\ conn'[c].told = 0
        /\ conn'[c].establish = conn[c].establish
        /\ \A d \in Conns : d # c => conn'[d] = conn[d]
    BY <1>2, <1>3, <1>4, <1>9 DEF ConnFields
  <2>2. /\ owner' \in FdMap
        /\ \A g \in Fds : g # conn[c].fd => owner'[g] = owner[g]
    BY <1>1, <1>3, <1>9 DEF TypeOK, FdMap
  <2>3. ThreadEvents' = ThreadEvents
    BY <1>5, <1>9 DEF ThreadEvents
  <2> HIDE DEF c
  <2>4. TypeOK'
    BY <1>1, <1>2, <1>5, <1>9, <2>1, <2>2 DEF TypeOK
  <2>5. FdsOwned'
    BY <1>3, <2>1, <2>2 DEF IInv, FdsOwned
  <2>6. ListenOnce'
    BY <1>2, <1>7, <2>1 DEF IInv, ListenOnce
  <2>7. BoundAlive'
    BY <1>1, <1>3, <1>5, <2>1, Named DEF IInv, BoundAlive, Open
  <2>8. ReadyAlive'
    BY <1>1, <1>3, <1>5, <2>1, Named DEF IInv, ReadyAlive, Open
  <2>9. ThreadEventsFit'
    BY <1>1, <1>3, <1>5, <1>6, <2>1, <2>3, Named DEF IInv, ThreadEventsFit, Open
  <2>10. ThreadEventsOrder'
    BY <2>3 DEF IInv, ThreadEventsOrder
  <2>11. MainEventsFit'
    BY <1>1, <1>3, <1>5, <1>6, <2>1, Named DEF IInv, MainEventsFit, Open
  <2>12. MainEventsOrder'
    BY <1>6 DEF IInv, MainEventsOrder
  <2>13. ToldFits' /\ EstablishFits'
    BY <1>2, <1>3, <2>1 DEF IInv, ToldFits, TerminatedOnce, EstablishFits, Open
  <2> QED BY <2>4, <2>5, <2>6, <2>7, <2>8, <2>9, <2>10, <2>11, <2>12, <2>13 DEF IInv
<1> QED BY <1>8, <1>9 DEF CreateConnection

\* The main thread is told that a driver is bound.
LEMMA EstablishStep ==
  ASSUME IInv, OnEstablish
  PROVE  IInv'
<1> DEFINE e == Head(mainQ)
           c == e.conn
<1>1. TypeOK
  BY DEF IInv
<1>2. UNCHANGED <<owner, listenQ, threadQ, pcMain, ready, outMain, pcWork, cur, ctlAdd, outWork>>
  BY DEF OnEstablish, main, work
<1>3. /\ mainQ' \in Seq(Events) /\ Len(mainQ') <= QueueSize
      /\ e \in Events /\ e \in InSeq(MainEvents)
      /\ \A x : x \in InSeq(MainEvents') => x \in InSeq(MainEvents)
      /\ \A x, y : Before(MainEvents', x, y) => Before(MainEvents, x, y)
  BY <1>1, <1>2, MainTakes DEF OnEstablish
<1>4. c \in Conns /\ Open(c)
  BY <1>1, <1>3, Named DEF IInv, MainEventsFit
<1>5. /\ conn' \in [Conns -> ConnFields]
      /\ conn'[c].phase = conn[c].phase /\ conn'[c].fd = conn[c].fd
      /\ conn'[c].session = conn[c].session /\ conn'[c].told = conn[c].told
      /\ conn'[c].establish
      /\ \A d \in Conns : d # c => conn'[d] = conn[d]
  <2>1. conn[c] \in ConnFields /\ conn \in [Conns -> ConnFields]
    BY <1>1, <1>4 DEF TypeOK
  <2>2. conn' = [conn EXCEPT ![c].establish = TRUE]
    BY DEF OnEstablish
  <2> HIDE DEF c
  <2> QED BY <1>4, <2>1, <2>2 DEF ConnFields
<1>6. ThreadEvents' = ThreadEvents
  BY <1>2 DEF ThreadEvents
<1>7. \A x \in InSeq(ThreadEvents) : x.type = "BIND" => x.conn # c
  BY <1>3 DEF IInv, ThreadEventsFit
<1> HIDE DEF e, c
<1>8. TypeOK'
  BY <1>1, <1>2, <1>3, <1>5 DEF TypeOK
<1>9. FdsOwned'
  BY <1>2, <1>5 DEF IInv, FdsOwned
<1>10. ListenOnce'
  BY <1>1, <1>2, <1>5, Named DEF IInv, ListenOnce
<1>11. BoundAlive'
  BY <1>1, <1>2, <1>5, Named DEF IInv, BoundAlive, Open
<1>12. ReadyAlive'
  BY <1>1, <1>2, <1>5, Named DEF IInv, ReadyAlive, Open
<1>13. ThreadEventsFit'
  BY <1>1, <1>2, <1>3, <1>5, <1>6, <1>7, Named DEF IInv, ThreadEventsFit, Open
<1>14. ThreadEventsOrder'
  BY <1>6 DEF IInv, ThreadEventsOrder
<1>15. MainEventsFit'
  BY <1>1, <1>2, <1>3, <1>5, Named DEF IInv, MainEventsFit, Open
<1>16. MainEventsOrder'
  BY <1>3 DEF IInv, MainEventsOrder
<1>17. ToldFits' /\ EstablishFits'
  BY <1>4, <1>5 DEF IInv, ToldFits, TerminatedOnce, EstablishFits, Open
<1> QED BY <1>8, <1>9, <1>10, <1>11, <1>12, <1>13, <1>14, <1>15, <1>16, <1>17 DEF IInv

\* The main thread destroys a connection that the epoll thread has unbound: nothing else
\* that is on its way, bound or waiting names it.
LEMMA DestroyStep ==
  ASSUME IInv, OnClose
  PROVE  IInv'
<1> DEFINE e == Head(mainQ)
           c == e.conn
<1>1. TypeOK
  BY DEF IInv
<1>2. UNCHANGED <<listenQ, threadQ, pcMain, outMain, pcWork, cur, ctlAdd, outWork>>
  BY DEF OnClose, work
<1>3. /\ mainQ' \in Seq(Events) /\ Len(mainQ') <= QueueSize
      /\ e \in Events /\ e \in InSeq(MainEvents)
      /\ \A x : x \in InSeq(MainEvents') => x \in InSeq(MainEvents) /\ Before(MainEvents, e, x)
      /\ \A x, y : Before(MainEvents', x, y) => Before(MainEvents, x, y)
  BY <1>1, <1>2, MainTakes DEF OnClose
<1>4. e.type = "UNBIND"
  BY DEF OnClose
<1>5. /\ c \in Conns /\ Open(c) /\ ctlAdd[conn[c].fd] # c
      /\ conn[c].fd \in Fds /\ owner[conn[c].fd] = c
  BY <1>1, <1>3, <1>4, Named DEF IInv, MainEventsFit, FdsOwned, Open
<1>6. /\ conn' \in [Conns -> ConnFields]
      /\ conn'[c].phase = "freed" /\ conn'[c].fd = conn[c].fd /\ conn'[c].told = 1
      /\ \A d \in Conns : d # c => conn'[d] = conn[d]
  <2>1. conn[c] \in ConnFields /\ conn \in [Conns -> ConnFields]
    BY <1>1, <1>5 DEF TypeOK
  <2>2. conn[c].told = IF conn[c].session THEN 0 ELSE 1
    BY <1>5 DEF IInv, ToldFits, TerminatedOnce
  <2>3. conn' = [conn EXCEPT ![c].phase = "freed", ![c].session = FALSE,
                             ![c].told = IF conn[c].session THEN @ + 1 ELSE @]
    BY DEF OnClose
  <2>4. (IF conn[c].session THEN conn[c].told + 1 ELSE conn[c].told) = 1
    BY <2>2
  <2>5. conn' = [conn EXCEPT ![c].phase = "freed", ![c].session = FALSE, ![c].told = 1]
    BY <2>3, <2>4, Zenon
  <2> HIDE DEF c
  <2> DEFINE r == [conn[c] EXCEPT !.phase = "freed", !.session = FALSE, !.told = 1]
  <2>6. r \in ConnFields /\ r.phase = "freed" /\ r.fd = conn[c].fd /\ r.told = 1
    <3> DEFINE r1 == [conn[c] EXCEPT !.phase = "freed"]
               r2 == [r1 EXCEPT !.session = FALSE]
               r3 == [r2 EXCEPT !.told = 1]
    <3>1. r1 \in ConnFields /\ r1.phase = "freed" /\ r1.fd = conn[c].fd
      BY <2>1 DEF ConnFields
    <3> HIDE DEF r1
    <3>2. r2 \in ConnFields /\ r2.phase = "freed" /\ r2.fd = conn[c].fd
      BY <3>1 DEF ConnFields
    <3> HIDE DEF r2
    <3>3. r3 \in ConnFields /\ r3.phase = "freed" /\ r3.fd = conn[c].fd /\ r3.told = 1
      BY <3>2 DEF ConnFields
    <3> HIDE DEF r3
    <3>4. r = r3
      BY DEF r1, r2, r3
    <3> QED BY <3>3, <3>4
  <2>7. conn' = [conn EXCEPT ![c] = r]
    BY <1>5, <2>1, <2>5
  <2> HIDE DEF r
  <2> QED BY <1>5, <2>1, <2>6, <2>7
<1>7. /\ ready' \in FdMap /\ owner' \in FdMap
      /\ ready'[conn[c].fd] = None
      /\ \A g \in Fds : g # conn[c].fd => ready'[g] = ready[g] /\ owner'[g] = owner[g]
  BY <1>1, <1>5 DEF OnClose, TypeOK, FdMap
<1>8. ThreadEvents' = ThreadEvents
  BY <1>2 DEF ThreadEvents
<1>9. \A x \in InSeq(ThreadEvents) : x.type = "BIND" => x.conn # c
  BY <1>3 DEF IInv, ThreadEventsFit
<1>10. \A x \in InSeq(MainEvents') : x \in InSeq(MainEvents) /\ x.conn # c /\ x.conn \in Conns
  BY <1>1, <1>3, <1>4, Named DEF IInv, MainEventsOrder
<1>11. \A g \in Fds : ctlAdd[g] # c
  BY <1>5, NoneAssumption DEF IInv, BoundAlive
<1>12. cur # c
  BY <1>5, NoneAssumption DEF IInv, BoundAlive
<1> HIDE DEF e, c
<1>13. TypeOK'
  BY <1>1, <1>2, <1>3, <1>6, <1>7 DEF TypeOK
<1>14. FdsOwned'
  BY <1>5, <1>6, <1>7 DEF IInv, FdsOwned
<1>15. ListenOnce'
  BY <1>1, <1>2, <1>5, <1>6, Named DEF IInv, ListenOnce, Open
<1>16. BoundAlive'
  BY <1>1, <1>2, <1>6, <1>11, <1>12, Named DEF IInv, BoundAlive, Open
<1>17. ReadyAlive'
  BY <1>1, <1>6, <1>7, Named DEF IInv, ReadyAlive, Open
<1>18. ThreadEventsFit'
  BY <1>1, <1>2, <1>6, <1>8, <1>9, <1>10, Named DEF IInv, ThreadEventsFit, Open
<1>19. ThreadEventsOrder'
  BY <1>8 DEF IInv, ThreadEventsOrder
<1>20. MainEventsFit'
  BY <1>2, <1>6, <1>10 DEF IInv, MainEventsFit, Open
<1>21. MainEventsOrder'
  BY <1>3 DEF IInv, MainEventsOrder
<1>22. ToldFits' /\ EstablishFits'
  BY <1>6 DEF IInv, ToldFits, TerminatedOnce, EstablishFits, Open
<1> QED BY <1>13, <1>14, <1>15, <1>16, <1>17, <1>18, <1>19, <1>20, <1>21, <1>22 DEF IInv

\* The delay of a close has passed: its descriptor is the connection's own, so whatever
\* the epoll thread has bound under it is this connection, and no BIND of it is pending.
LEMMA ExpireStep ==
  ASSUME IInv, NEW f \in Fds, ReadyExpire(f)
  PROVE  IInv'
<1> DEFINE c == ready[f]
           evt == Event("UNBIND", c, conn[c].fd)
<1>1. TypeOK
  BY DEF IInv
<1>2. /\ c \in Conns /\ Open(c) /\ conn[c].fd = f /\ conn[c].establish /\ owner[f] = c
  BY <1>1, Named DEF ReadyExpire, IInv, ReadyAlive, FdsOwned, Open
<1>3. UNCHANGED <<owner, conn, listenQ, threadQ, mainQ, pcMain, pcWork, cur, ctlAdd, outWork>>
  BY DEF ReadyExpire, work
<1>4. ready' \in FdMap /\ ready'[f] = None /\ \A g \in Fds : g # f => ready'[g] = ready[g]
  BY <1>1 DEF ReadyExpire, TypeOK, FdMap
<1>5. evt \in Events /\ evt.type = "UNBIND" /\ evt.conn = c /\ evt.fd = f
  BY <1>2 DEF Event, Events
<1>6. outMain = <<>> /\ outMain' = <<evt>>
  BY DEF ReadyExpire
<1> HIDE DEF evt, c
<1>7. /\ outMain' \in Outbox
      /\ \A x : x \in InSeq(ThreadEvents') => x \in InSeq(ThreadEvents) \/ x = evt
      /\ \A x, y : Before(ThreadEvents', x, y)
                     => Before(ThreadEvents, x, y) \/ (x \in InSeq(ThreadEvents) /\ y = evt)
  BY <1>1, <1>3, <1>5, <1>6, MainSends
<1>8. MainEvents' = MainEvents
  BY <1>3 DEF MainEvents
<1>9. ctlAdd[f] \in {c, None}
  <2> SUFFICES ASSUME ctlAdd[f] # None PROVE ctlAdd[f] = c
    OBVIOUS
  <2>1. ctlAdd[f] \in Conns /\ Open(ctlAdd[f]) /\ conn[ctlAdd[f]].fd = f
    BY <1>1, Named DEF IInv, BoundAlive
  <2>2. owner[f] = ctlAdd[f]
    BY <2>1 DEF IInv, FdsOwned, Open
  <2> QED BY <1>2, <2>2
<1>10. ASSUME NEW x \in InSeq(ThreadEvents), x.type = "BIND" PROVE x.fd # f
  <2>1. /\ x.conn \in Conns /\ Open(x.conn) /\ x.fd = conn[x.conn].fd
        /\ ~conn[x.conn].establish
    BY <1>1, <1>10, Named DEF IInv, ThreadEventsFit
  <2>2. owner[x.fd] = x.conn
    BY <2>1 DEF IInv, FdsOwned, Open
  <2> QED BY <1>2, <2>1, <2>2
<1>11. TypeOK'
  BY <1>1, <1>3, <1>4, <1>7 DEF TypeOK
<1>12. FdsOwned' /\ ListenOnce' /\ BoundAlive'
  BY <1>3 DEF IInv, FdsOwned, ListenOnce, BoundAlive, Open
<1>13. ReadyAlive'
  BY <1>3, <1>4 DEF IInv, ReadyAlive, Open
<1>14. ThreadEventsFit'
  BY <1>2, <1>3, <1>5, <1>7, <1>8, <1>9 DEF IInv, ThreadEventsFit, Open
<1>15. ThreadEventsOrder'
  BY <1>5, <1>7, <1>10 DEF IInv, ThreadEventsOrder
<1>16. MainEventsFit' /\ MainEventsOrder'
  BY <1>3, <1>8 DEF IInv, MainEventsFit, MainEventsOrder, Open
<1>17. ToldFits' /\ EstablishFits'
  BY <1>3 DEF IInv, ToldFits, TerminatedOnce, EstablishFits, Open
<1> QED BY <1>11, <1>12, <1>13, <1>14, <1>15, <1>16, <1>17 DEF IInv

\* The epoll thread binds a driver, or fails to and says so.  The descriptor is not bound
\* yet, and no UNBIND of it is still to come.
LEMMA BindStep ==
  ASSUME IInv, BindEpoll
  PROVE  IInv'
<1> DEFINE e == Head(threadQ)
           c == e.conn
           f == conn[c].fd
<1>1. TypeOK
  BY DEF IInv
<1>2. UNCHANGED <<owner, conn, listenQ, mainQ, pcMain, ready, outMain>>
  BY DEF BindEpoll, main
<1>3. /\ threadQ # <<>> /\ threadQ' = Tail(threadQ) /\ e.type = "BIND"
      /\ outWork = <<>> /\ pcWork = "drain"
  BY DEF BindEpoll, ThreadPop
<1>4. /\ threadQ' \in Seq(Events) /\ Len(threadQ') <= QueueSize
      /\ e \in Events /\ e \in InSeq(ThreadEvents)
      /\ \A x : x \in InSeq(ThreadEvents')
                  => x \in InSeq(ThreadEvents) /\ Before(ThreadEvents, e, x)
      /\ \A x, y : Before(ThreadEvents', x, y) => Before(ThreadEvents, x, y)
  BY <1>1, <1>2, <1>3, WorkTakes
<1>5. /\ c \in Conns /\ Open(c) /\ e.fd = f /\ f \in Fds
      /\ ~conn[c].establish /\ ctlAdd[f] # c
      /\ \A m \in InSeq(MainEvents) : m.conn # c
  BY <1>1, <1>3, <1>4, Named DEF IInv, ThreadEventsFit
<1>6. ctlAdd[f] = None
  <2> SUFFICES ASSUME ctlAdd[f] # None PROVE FALSE
    OBVIOUS
  <2>1. ctlAdd[f] \in Conns /\ Open(ctlAdd[f]) /\ conn[ctlAdd[f]].fd = f
    BY <1>1, <1>5, Named DEF IInv, BoundAlive
  <2>2. owner[f] = ctlAdd[f] /\ owner[f] = c
    BY <1>5, <2>1 DEF IInv, FdsOwned, Open
  <2> QED BY <1>5, <2>2
<1>7. \A x \in InSeq(ThreadEvents') :
        /\ x \in InSeq(ThreadEvents) /\ x \in Events
        /\ x.type = "BIND" => x.conn # c
        /\ x.type = "UNBIND" => x.fd # f
  BY <1>1, <1>3, <1>4, <1>5, Named DEF IInv, ThreadEventsOrder
<1>8. cur = None
  BY <1>3 DEF IInv, BoundAlive
<1> HIDE DEF e, c, f
<1>9. ASSUME NEW evt \in Events, evt.conn = c, evt.type \in {"BIND", "UNBIND"},
             outWork' = <<evt>>,
             \/ evt.type = "UNBIND" /\ UNCHANGED <<ctlAdd, pcWork, cur>>
             \/ /\ evt.type = "BIND" /\ ctlAdd' = [ctlAdd EXCEPT ![f] = c]
                /\ pcWork' = "bound" /\ cur' = c
      PROVE  IInv'
  <2>1. /\ outWork' \in Outbox
        /\ \A x : x \in InSeq(MainEvents') => x \in InSeq(MainEvents) \/ x = evt
        /\ \A x, y : Before(MainEvents', x, y)
                       => Before(MainEvents, x, y) \/ (x \in InSeq(MainEvents) /\ y = evt)
    BY <1>1, <1>2, <1>3, <1>9, WorkSends
  <2>2. /\ ctlAdd' \in FdMap /\ \A g \in Fds : g # f => ctlAdd'[g] = ctlAdd[g]
        /\ \/ evt.type = "UNBIND" /\ ctlAdd'[f] = None /\ cur' = None /\ pcWork' # "bound"
           \/ evt.type = "BIND" /\ ctlAdd'[f] = c /\ cur' = c /\ pcWork' = "bound"
    BY <1>1, <1>3, <1>5, <1>6, <1>8, <1>9 DEF TypeOK, FdMap
  <2>3. TypeOK'
    BY <1>1, <1>2, <1>4, <1>5, <1>9, <2>1, <2>2 DEF TypeOK
  <2>4. FdsOwned' /\ ListenOnce' /\ ReadyAlive'
    BY <1>2 DEF IInv, FdsOwned, ListenOnce, ReadyAlive, Open
  <2>5. BoundAlive'
    BY <1>2, <1>5, <2>2, NoneAssumption DEF IInv, BoundAlive, Open, f
  <2>6. ThreadEventsFit'
    <3> SUFFICES ASSUME NEW x \in InSeq(ThreadEvents')
                 PROVE  /\ conn[x.conn].phase \in {"open", "freed"} /\ x.fd = conn[x.conn].fd
                        /\ x.type = "BIND" =>
                             /\ Open(x.conn) /\ ~conn[x.conn].establish
                             /\ ctlAdd'[x.fd] # x.conn
                             /\ \A m \in InSeq(MainEvents') : m.conn # x.conn
                        /\ x.type = "UNBIND" => ctlAdd'[x.fd] \in {x.conn, None}
      BY <1>2 DEF ThreadEventsFit, Open
    <3>1. /\ x \in InSeq(ThreadEvents) /\ x.fd \in Fds /\ x.conn \in Conns
          /\ x.type = "BIND" => x.conn # c
          /\ x.type = "UNBIND" => x.fd # f
      BY <1>1, <1>7, Named
    <3>2. /\ conn[x.conn].phase \in {"open", "freed"} /\ x.fd = conn[x.conn].fd
          /\ x.type = "BIND" =>
               /\ Open(x.conn) /\ ~conn[x.conn].establish /\ ctlAdd[x.fd] # x.conn
               /\ \A m \in InSeq(MainEvents) : m.conn # x.conn
          /\ x.type = "UNBIND" => ctlAdd[x.fd] \in {x.conn, None}
      BY <3>1 DEF IInv, ThreadEventsFit
    <3> QED BY <1>9, <2>1, <2>2, <3>1, <3>2, NoneAssumption
  <2>7. ThreadEventsOrder'
    BY <1>4 DEF IInv, ThreadEventsOrder
  <2>8. MainEventsFit'
    <3>1. ASSUME NEW m \in InSeq(MainEvents)
          PROVE  /\ conn[m.conn].phase = "open" /\ m.type \in {"BIND", "UNBIND"}
                 /\ m.type = "UNBIND" => ctlAdd'[conn[m.conn].fd] # m.conn
      <4>1. /\ conn[m.conn].phase = "open" /\ m.type \in {"BIND", "UNBIND"}
            /\ m.type = "UNBIND" => ctlAdd[conn[m.conn].fd] # m.conn
            /\ m.conn \in Conns /\ m.conn # c
        BY <1>1, <1>5, Named DEF IInv, MainEventsFit, Open
      <4>2. conn[m.conn].fd \in Fds
        BY <4>1 DEF IInv, FdsOwned
      <4> QED BY <2>2, <4>1, <4>2, NoneAssumption
    <3>2. /\ conn[evt.conn].phase = "open"
          /\ evt.type = "UNBIND" => ctlAdd'[conn[evt.conn].fd] # evt.conn
      BY <1>5, <1>9, <2>2, NoneAssumption DEF Open, f
    <3> QED BY <1>2, <1>9, <2>1, <3>1, <3>2 DEF MainEventsFit, Open
  <2>9. MainEventsOrder'
    BY <1>5, <1>9, <2>1 DEF IInv, MainEventsOrder
  <2>10. ToldFits' /\ EstablishFits'
    BY <1>2 DEF IInv, ToldFits, TerminatedOnce, EstablishFits, Open
  <2> QED BY <2>3, <2>4, <2>5, <2>6, <2>7, <2>8, <2>9, <2>10 DEF IInv
<1>10. Event("UNBIND", c, e.fd) \in Events /\ Event("UNBIND", c, e.fd).conn = c
       /\ Event("UNBIND", c, e.fd).type = "UNBIND"
  BY <1>5 DEF Event, Events
<1>11. \/ outWork' = <<Event("UNBIND", c, e.fd)>> /\ UNCHANGED <<ctlAdd, pcWork, cur>>
       \/ /\ ctlAdd' = [ctlAdd EXCEPT ![f] = c] /\ outWork' = <<e>>
          /\ pcWork' = "bound" /\ cur' = c
  BY <1>6 DEF BindEpoll, e, c, f
<1>12. CASE outWork' = <<Event("UNBIND", c, e.fd)>> /\ UNCHANGED <<ctlAdd, pcWork, cur>>
  BY <1>9, <1>10, <1>12
<1>13. CASE /\ ctlAdd' = [ctlAdd EXCEPT ![f] = c] /\ outWork' = <<e>>
            /\ pcWork' = "bound" /\ cur' = c
  <2>1. e \in Events /\ e.conn = c /\ e.type = "BIND"
    BY <1>3, <1>4 DEF c
  <2> QED BY <1>9, <1>13, <2>1
<1> QED BY <1>11, <1>12, <1>13

\* The epoll thread unbinds a connection and tells the main thread, for the first time.
LEMMA Unbound ==
  ASSUME IInv, NEW c \in Conns, NEW evt \in Events,
         evt.type = "UNBIND", evt.conn = c,
         conn[c].fd \in Fds, ctlAdd[conn[c].fd] = c,
         ctlAdd' = [ctlAdd EXCEPT ![conn[c].fd] = None],
         outWork = <<>>, outWork' = <<evt>>,
         UNCHANGED <<owner, conn, listenQ, mainQ, pcMain, ready, outMain>>,
         pcWork' \in {"drain", "epoll"}, cur' = None,
         threadQ' \in Seq(Events), Len(threadQ') <= QueueSize,
         \A x : x \in InSeq(ThreadEvents') => x \in InSeq(ThreadEvents),
         \A x, y : Before(ThreadEvents', x, y) => Before(ThreadEvents, x, y)
  PROVE  IInv'
<1>1. TypeOK
  BY DEF IInv
<1>2. /\ outWork' \in Outbox
      /\ \A x : x \in InSeq(MainEvents') => x \in InSeq(MainEvents) \/ x = evt
      /\ \A x, y : Before(MainEvents', x, y)
                     => Before(MainEvents, x, y) \/ (x \in InSeq(MainEvents) /\ y = evt)
  BY <1>1, WorkSends
<1>3. /\ ctlAdd' \in FdMap /\ ctlAdd'[conn[c].fd] = None
      /\ \A g \in Fds : g # conn[c].fd => ctlAdd'[g] = ctlAdd[g]
  BY <1>1 DEF TypeOK, FdMap
<1>4. Open(c)
  BY NoneAssumption DEF IInv, BoundAlive
<1>5. \A m \in InSeq(MainEvents) : m.conn = c => m.type = "BIND"
  BY DEF IInv, MainEventsFit
<1>6. \A x \in InSeq(ThreadEvents') : x.type = "BIND" => x.conn # c
  BY DEF IInv, ThreadEventsFit
<1>7. TypeOK'
  BY <1>1, <1>2, <1>3 DEF TypeOK
<1>8. FdsOwned' /\ ListenOnce' /\ ReadyAlive'
  BY DEF IInv, FdsOwned, ListenOnce, ReadyAlive, Open
<1>9. BoundAlive'
  BY <1>3 DEF IInv, BoundAlive, Open
<1>10. ThreadEventsFit'
  <2> SUFFICES ASSUME NEW x \in InSeq(ThreadEvents')
               PROVE  /\ conn[x.conn].phase \in {"open", "freed"} /\ x.fd = conn[x.conn].fd
                      /\ x.type = "BIND" =>
                           /\ Open(x.conn) /\ ~conn[x.conn].establish
                           /\ ctlAdd'[x.fd] # x.conn
                           /\ \A m \in InSeq(MainEvents') : m.conn # x.conn
                      /\ x.type = "UNBIND" => ctlAdd'[x.fd] \in {x.conn, None}
    BY DEF ThreadEventsFit, Open
  <2>1. /\ x \in InSeq(ThreadEvents) /\ x.fd \in Fds /\ x.conn \in Conns
        /\ x.type = "BIND" => x.conn # c
    BY <1>1, <1>6, Named
  <2>2. /\ conn[x.conn].phase \in {"open", "freed"} /\ x.fd = conn[x.conn].fd
        /\ x.type = "BIND" =>
             /\ Open(x.conn) /\ ~conn[x.conn].establish /\ ctlAdd[x.fd] # x.conn
             /\ \A m \in InSeq(MainEvents) : m.conn # x.conn
        /\ x.type = "UNBIND" => ctlAdd[x.fd] \in {x.conn, None}
    BY <2>1 DEF IInv, ThreadEventsFit
  <2> QED BY <1>2, <1>3, <2>1, <2>2, NoneAssumption
<1>11. ThreadEventsOrder'
  BY DEF IInv, ThreadEventsOrder
<1>12. MainEventsFit'
  <2>1. ASSUME NEW m \in InSeq(MainEvents)
        PROVE  /\ conn[m.conn].phase = "open" /\ m.type \in {"BIND", "UNBIND"}
               /\ m.type = "UNBIND" => ctlAdd'[conn[m.conn].fd] # m.conn
    <3>1. /\ conn[m.conn].phase = "open" /\ m.type \in {"BIND", "UNBIND"}
          /\ m.type = "UNBIND" => ctlAdd[conn[m.conn].fd] # m.conn
          /\ m.conn \in Conns
      BY <1>1, Named DEF IInv, MainEventsFit, Open
    <3>2. conn[m.conn].fd \in Fds
      BY <3>1 DEF IInv, FdsOwned
    <3> QED BY <1>3, <3>1, <3>2, NoneAssumption
  <2>2. conn[evt.conn].phase = "open" /\ ctlAdd'[conn[evt.conn].fd] # evt.conn
    BY <1>3, <1>4, NoneAssumption DEF Open
  <2> QED BY <1>2, <2>1, <2>2 DEF MainEventsFit, Open
<1>13. MainEventsOrder'
  BY <1>2, <1>5 DEF IInv, MainEventsOrder
<1>14. ToldFits' /\ EstablishFits'
  BY DEF IInv, ToldFits, TerminatedOnce, EstablishFits, Open
<1> QED BY <1>7, <1>8, <1>9, <1>10, <1>11, <1>12, <1>13, <1>14 DEF IInv

\* The first read of a driver that was just bound.
LEMMA BindReadStep ==
  ASSUME IInv, BindRead
  PROVE  IInv'
<1>1. TypeOK
  BY DEF IInv
<1>2. /\ cur \in Conns /\ conn[cur].fd \in Fds /\ ctlAdd[conn[cur].fd] = cur
  BY <1>1, Named DEF BindRead, IInv, BoundAlive
<1>3. /\ UNCHANGED <<owner, conn, listenQ, threadQ, mainQ, pcMain, ready, outMain>>
      /\ outWork = <<>> /\ pcWork' = "drain" /\ cur' = None
  BY DEF BindRead, main
<1>4. ThreadEvents' = ThreadEvents
  BY <1>3 DEF ThreadEvents
<1>5. CASE UNCHANGED <<ctlAdd, outWork>>
  <2>1. MainEvents' = MainEvents
    BY <1>3, <1>5 DEF MainEvents
  <2>2. TypeOK'
    BY <1>1, <1>3, <1>5 DEF TypeOK
  <2>3. FdsOwned' /\ ListenOnce' /\ ReadyAlive' /\ BoundAlive'
    BY <1>3, <1>5 DEF IInv, FdsOwned, ListenOnce, ReadyAlive, BoundAlive, Open
  <2>4. ThreadEventsFit' /\ ThreadEventsOrder'
    BY <1>3, <1>4, <1>5, <2>1 DEF IInv, ThreadEventsFit, ThreadEventsOrder, Open
  <2>5. MainEventsFit' /\ MainEventsOrder'
    BY <1>3, <1>5, <2>1 DEF IInv, MainEventsFit, MainEventsOrder, Open
  <2>6. ToldFits' /\ EstablishFits'
    BY <1>3 DEF IInv, ToldFits, TerminatedOnce, EstablishFits, Open
  <2> QED BY <2>2, <2>3, <2>4, <2>5, <2>6 DEF IInv
<1>6. CASE UnBindEpoll(Event("UNBIND", cur, conn[cur].fd))
  <2> DEFINE evt == Event("UNBIND", cur, conn[cur].fd)
  <2>1. evt \in Events /\ evt.type = "UNBIND" /\ evt.conn = cur /\ evt.fd = conn[cur].fd
    BY <1>2 DEF Event, Events
  <2>2. ctlAdd' = [ctlAdd EXCEPT ![conn[cur].fd] = None] /\ outWork' = <<evt>>
    BY <1>2, <1>6, <2>1, NoneAssumption DEF UnBindEpoll
  <2> HIDE DEF evt
  <2>3. threadQ' \in Seq(Events) /\ Len(threadQ') <= QueueSize
    BY <1>1, <1>3 DEF TypeOK
  <2> QED BY <1>2, <1>3, <1>4, <2>1, <2>2, <2>3, Unbound
<1> QED BY <1>5, <1>6 DEF BindRead

\* An event of epoll_wait on which OnEvent fails.
LEMMA EpollEventStep ==
  ASSUME IInv, NEW c \in Conns, EpollEvent(c)
  PROVE  IInv'
<1>1. TypeOK
  BY DEF IInv
<1>2. conn[c].fd \in Fds /\ ctlAdd[conn[c].fd] = c
  BY NoneAssumption DEF EpollEvent, Bound, IInv, BoundAlive
<1>3. /\ UNCHANGED <<owner, conn, listenQ, threadQ, mainQ, pcMain, ready, outMain>>
      /\ outWork = <<>> /\ pcWork = "epoll" /\ UNCHANGED <<pcWork, cur>>
  BY DEF EpollEvent, main
<1>4. cur = None
  BY <1>3 DEF IInv, BoundAlive
<1>5. ThreadEvents' = ThreadEvents
  BY <1>3 DEF ThreadEvents
<1> DEFINE evt == Event("UNBIND", c, conn[c].fd)
<1>6. evt \in Events /\ evt.type = "UNBIND" /\ evt.conn = c /\ evt.fd = conn[c].fd
  BY <1>2 DEF Event, Events
<1>7. ctlAdd' = [ctlAdd EXCEPT ![conn[c].fd] = None] /\ outWork' = <<evt>>
  BY <1>2, <1>6, NoneAssumption DEF EpollEvent, UnBindEpoll
<1> HIDE DEF evt
<1>8. threadQ' \in Seq(Events) /\ Len(threadQ') <= QueueSize
  BY <1>1, <1>3 DEF TypeOK
<1> QED BY <1>2, <1>3, <1>4, <1>5, <1>6, <1>7, <1>8, Unbound

\* The main thread's request to unbind: it finds its connection, or nothing, though the
\* descriptor may have been closed and opened again meanwhile.
LEMMA ThreadUnbindStep ==
  ASSUME IInv, ThreadUnbind
  PROVE  IInv'
<1> DEFINE e == Head(threadQ)
           c == e.conn
<1>1. TypeOK
  BY DEF IInv
<1>2. /\ UNCHANGED <<owner, conn, listenQ, mainQ, pcMain, ready, outMain, pcWork, cur>>
      /\ threadQ # <<>> /\ threadQ' = Tail(threadQ) /\ e.type = "UNBIND"
      /\ outWork = <<>> /\ pcWork = "drain"
  BY DEF ThreadUnbind, ThreadPop, main
<1>3. /\ threadQ' \in Seq(Events) /\ Len(threadQ') <= QueueSize
      /\ e \in Events /\ e \in InSeq(ThreadEvents)
      /\ \A x : x \in InSeq(ThreadEvents') => x \in InSeq(ThreadEvents)
      /\ \A x, y : Before(ThreadEvents', x, y) => Before(ThreadEvents, x, y)
  BY <1>1, <1>2, WorkTakes
<1>4. /\ c \in Conns /\ e.fd \in Fds /\ e.fd = conn[c].fd /\ ctlAdd[e.fd] \in {c, None}
  BY <1>1, <1>2, <1>3, Named DEF IInv, ThreadEventsFit
<1>5. cur = None
  BY <1>2 DEF IInv, BoundAlive
<1>6. CASE ctlAdd[e.fd] = None
  <2>1. UNCHANGED <<ctlAdd, outWork>>
    BY <1>6 DEF ThreadUnbind, UnBindEpoll
  <2>2. TypeOK'
    BY <1>1, <1>2, <1>3, <2>1 DEF TypeOK
  <2>3. \A d \in Conns : SameLife(d)
    BY <1>2 DEF SameLife
  <2>4. MainEvents' = MainEvents
    BY <1>2, <2>1 DEF MainEvents
  <2>5. ThreadEvents # <<>> /\ ThreadEvents' = Tail(ThreadEvents)
    <3>1. threadQ \in Seq(Events) /\ outMain \in Seq(Events)
      BY <1>1, Lines
    <3>2. /\ threadQ \o outMain # <<>>
          /\ Tail(threadQ \o outMain) = Tail(threadQ) \o outMain
      BY <1>2, <3>1, QueueLine
    <3> QED BY <1>2, <3>2 DEF ThreadEvents
  <2> QED BY <1>2, <2>1, <2>2, <2>3, <2>4, <2>5, Quiet
<1>7. CASE ctlAdd[e.fd] # None
  <2>1. ctlAdd' = [ctlAdd EXCEPT ![conn[c].fd] = None] /\ outWork' = <<e>>
    BY <1>4, <1>7 DEF ThreadUnbind, UnBindEpoll
  <2>2. ctlAdd[conn[c].fd] = c /\ conn[c].fd \in Fds
    BY <1>4, <1>7
  <2>3. e.conn = c
    OBVIOUS
  <2> HIDE DEF e, c
  <2> QED BY <1>2, <1>3, <1>4, <1>5, <2>1, <2>2, <2>3, Unbound
<1> QED BY <1>6, <1>7

(***************************************************************************)
(* The theorems.                                                           *)
(***************************************************************************)

\* Every step keeps the invariant.
LEMMA NextIInv == IInv /\ [Next]_vars => IInv'
<1> SUFFICES ASSUME IInv, [Next]_vars PROVE IInv'
  OBVIOUS
<1>1. ASSUME Network PROVE IInv'
  BY <1>1, QuietSteps, AcceptStep DEF Network
<1>2. ASSUME Client PROVE IInv'
  BY <1>2, QuietSteps, CloseStep DEF Client
<1>3. ASSUME Process PROVE IInv'
  BY <1>3, QuietSteps, CreateStep, EstablishStep, DestroyStep DEF Process
<1>4. ASSUME Expire PROVE IInv'
  BY <1>4, ExpireStep DEF Expire
<1>5. ASSUME Run PROVE IInv'
  BY <1>5, QuietSteps, BindStep, BindReadStep, ThreadUnbindStep, EpollEventStep DEF Run
<1>6. CASE UNCHANGED vars
  BY <1>6, QuietSteps
<1> QED BY <1>1, <1>2, <1>3, <1>4, <1>5, <1>6 DEF Next

\* The inductive invariant holds of every behaviour.
LEMMA IInvAlways == Spec => []IInv
<1> QED BY InitIInv, NextIInv, PTL DEF Spec

\* The variables of both threads keep their types, the queues their bound.
THEOREM TypeCorrect == Spec => []TypeOK
<1>1. IInv => TypeOK
  BY DEF IInv
<1> QED BY <1>1, IInvAlways, PTL

\* However the two threads, the sessions and the peers interleave, every driver that the
\* epoll thread has bound or binds, that the main thread is told of or that waits for its
\* delayed close is one that RemoveConnection has not deleted.
THEOREM DriversAlive == Spec => []NoDeletedDriver
<1>1. IInv => NoDeletedDriver
  <2> SUFFICES ASSUME IInv PROVE NoDeletedDriver
    OBVIOUS
  <2>1. TypeOK
    BY DEF IInv
  <2>2. \A c \in Bound \cup ({cur} \ {None}) : Open(c)
    BY <2>1, Named, NoneAssumption DEF Bound, IInv, BoundAlive
  <2>3. \A e \in ToMain : Open(e.conn)
    BY <2>1, Lines DEF IInv, MainEventsFit
  <2>4. \A e \in ToThread : e.type = "BIND" => Open(e.conn)
    BY <2>1, Lines DEF IInv, ThreadEventsFit
  <2>5. \A f \in Fds : ready[f] # None => Open(ready[f]) /\ conn[ready[f]].fd = f
    BY DEF IInv, ReadyAlive
  <2> QED BY <2>2, <2>3, <2>4, <2>5 DEF NoDeletedDriver
<1> QED BY <1>1, IInvAlways, PTL

\* Though descriptors are closed by one thread and reused by the system while the other
\* still has requests for them queued, an UNBIND never reaches a connection other than
\* the one it was made for.
THEOREM UnbindReachesItsOwn == Spec => []UnbindsOnlyItsOwn
<1>1. IInv => UnbindsOnlyItsOwn
  <2> SUFFICES ASSUME IInv PROVE UnbindsOnlyItsOwn
    OBVIOUS
  <2>1. TypeOK
    BY DEF IInv
  <2>2. \A e \in ToThread : e.type = "UNBIND" => ctlAdd[e.fd] \in {e.conn, None}
    BY <2>1, Lines DEF IInv, ThreadEventsFit
  <2>3. \A c \in Conns : Open(c) => owner[conn[c].fd] = c
    BY DEF IInv, FdsOwned, Open
  <2>4. \A f \in Fds : ctlAdd[f] # None => owner[f] = ctlAdd[f]
    BY <2>1, <2>3, Named DEF IInv, BoundAlive
  <2> QED BY <2>2, <2>3, <2>4 DEF UnbindsOnlyItsOwn
<1> QED BY <1>1, IInvAlways, PTL

\* A session is told of the end of its connection once, by Close or by OnClose, and no
\* connection is freed whose session was not told.
THEOREM SessionsTerminatedOnce == Spec => []TerminatedOnce
<1>1. IInv => TerminatedOnce
  BY DEF IInv, ToldFits
<1> QED BY <1>1, IInvAlways, PTL
=============================================================================
