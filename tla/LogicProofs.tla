----------------------------- MODULE LogicProofs -----------------------------
(***************************************************************************)
(* Proofs about four services of the logic layer.                          *)
(*                                                                         *)
(* MysqlMgr, for every number of handlers, of workers and of connections:  *)
(* whoever hears of success has the result of his own statement, and       *)
(* statements pushed with one id are executed in order.                    *)
(*                                                                         *)
(* LoginControl, for every configuration: the number let in keeps to the   *)
(* limit that was looked at, and the tickets in their order are a queue.   *)
(*                                                                         *)
(* Cluster, for any nodes and connections: the master forgets no pair of   *)
(* the nodes that it knows, however nodes, connections and master fail.    *)
(*                                                                         *)
(* SearchUnit, for any people and configuration: a match is made of people *)
(* who accept each other and are enough, and a clean list holds none.      *)
(***************************************************************************)
EXTENDS MysqlMgr, LoginControl, Cluster, SearchUnit, FiniteSetTheorems, WellFoundedInduction, TLAPS

(***************************************************************************)
(* The inductive invariant.                                                *)
(***************************************************************************)
Waits(j, t, i) == i \in DOMAIN ready[t] /\ ready[t][i] = j

\* Every variable has its type; so do the handlers in the order of their pushes.
Types == TypeOK /\ pushed \in Seq(Handlers)

\* A job that waits has been given an id, was not executed, and waits in one place only.
WaitInv ==
  \A t \in Threads, i \in Nat, j \in Jobs : Waits(j, t, i) =>
    /\ id[j] # NULL /\ runs[j] = 0
    /\ \A u \in Threads : running[u] # j
    /\ \A u \in Threads, k \in Nat : Waits(j, u, k) => t = u /\ i = k
    /\ j \in Handlers => connection[j] = t

\* A worker has a job of its own while it executes, on the connection of its own number;
\* how often the server may have executed it so far.
RunInv ==
  \A t \in Threads :
    /\ pc[t] = "idle" <=> running[t] = NULL
    /\ running[t] # NULL =>
         /\ id[running[t]] # NULL
         /\ \A u \in Threads : running[u] = running[t] => u = t
         /\ running[t] \in Handlers => connection[running[t]] = t
    /\ pc[t] \in {"query", "active", "again", "store"} => connection[running[t]] = t
    /\ pc[t] = "query" => runs[running[t]] = 0
    /\ pc[t] \in {"active", "again"} => runs[running[t]] <= 1
    /\ pc[t] = "store" => pending[t] = running[t] /\ runs[running[t]] > 0

\* Nobody ever holds a result but that of his own statement, or none that could be stored.
Got(j) == runs[j] > 0 /\ (j \in Handlers => result[j] \in {"none", j})
OwnInv ==
  \A j \in Jobs : /\ result[j] \in {NULL, "none", j}
                  /\ id[j] = NULL => runs[j] = 0
                  /\ outcome[j] = "OnSuccess" => Got(j)
                  /\ told[j] = "OnSuccess" => Got(j)

\* Of two handlers for one connection, the one pushed later waits behind the other.
Behind(m, n) ==
  LET c == connection[pushed[m]]
  IN  /\ running[c] = pushed[m] => \E k \in Nat : Waits(pushed[n], c, k)
      /\ \A i \in Nat : Waits(pushed[m], c, i) => \E k \in Nat : i < k /\ Waits(pushed[n], c, k)
OrderInv ==
  /\ \A m \in DOMAIN pushed :
       /\ id[pushed[m]] # NULL
       /\ connection[pushed[m]] = GetConnectionThreadIdx(id[pushed[m]])
  /\ \A m, n \in DOMAIN pushed :
       m < n /\ connection[pushed[m]] = connection[pushed[n]] => Behind(m, n)

IInv == Types /\ WaitInv /\ RunInv /\ OwnInv /\ OrderInv

(***************************************************************************)
(* The configuration, and what a push and a pop do to a queue.             *)
(***************************************************************************)
\* There is a connection for the async workers, and each belongs to a worker.
LEMMA ConnectionNum == _asyncConnectionNum \in 1 .. threadcount /\ Connections \subseteq Threads
<1>1. _asyncConnectionNum \in 1 .. threadcount
  BY ConfigAssumption DEF _asyncConnectionNum
<1> QED
  BY <1>1, ConfigAssumption DEF Connections, Threads

\* GetConnectionThreadIdx gives a worker's connection, which StartAsync does not turn into another.
LEMMA ThreadIdx ==
  ASSUME NEW i \in Nat
  PROVE  GetConnectionThreadIdx(i) \in Connections /\ i % threadcount \in Threads
         /\ GetConnectionThreadIdx(i) % threadcount = GetConnectionThreadIdx(i)
<1>1. PICK n \in 1 .. threadcount : n = _asyncConnectionNum
  BY ConnectionNum
<1>2. PICK c \in Nat : c = i % n /\ c \in 0 .. n - 1
  BY <1>1, ConfigAssumption
<1>3. c % threadcount = c /\ i % threadcount \in 0 .. threadcount - 1
  BY <1>1, <1>2, ConfigAssumption
<1> QED
  BY <1>1, <1>2, <1>3 DEF GetConnectionThreadIdx, Connections, Threads

\* What StartAsync adds to the queue of a worker.
LEMMA PushWaits ==
  ASSUME ready \in [Threads -> Seq(Jobs)], NEW t \in Threads, NEW j \in Jobs,
         ready' = [ready EXCEPT ![t] = Append(@, j)]
  PROVE  /\ ready' \in [Threads -> Seq(Jobs)]
         /\ \A u \in Threads, k \in Nat, x \in Jobs :
              Waits(x, u, k)' <=> Waits(x, u, k) \/ (x = j /\ u = t /\ k = Len(ready[t]) + 1)
         /\ \A k \in Nat, x \in Jobs : Waits(x, t, k) => k < Len(ready[t]) + 1
<1>1. ready[t] \in Seq(Jobs) /\ Append(ready[t], j) \in Seq(Jobs)
  OBVIOUS
<1>2. \A u \in Threads : ready'[u] = IF u = t THEN Append(ready[t], j) ELSE ready[u]
  OBVIOUS
<1>3. \A k \in Nat, x \in Jobs : k \in DOMAIN Append(ready[t], j) /\ Append(ready[t], j)[k] = x <=>
        (k \in DOMAIN ready[t] /\ ready[t][k] = x) \/ (x = j /\ k = Len(ready[t]) + 1)
  BY <1>1
<1>4. \A k \in Nat, x \in Jobs : Waits(x, t, k) => k < Len(ready[t]) + 1
  BY <1>1 DEF Waits
<1>5. ready' \in [Threads -> Seq(Jobs)]
  BY <1>1
<1> QED
  BY <1>2, <1>3, <1>4, <1>5 DEF Waits

\* What a worker takes from its queue.
LEMMA PopWaits ==
  ASSUME ready \in [Threads -> Seq(Jobs)], NEW t \in Threads, ready[t] # <<>>,
         ready' = [ready EXCEPT ![t] = Tail(@)]
  PROVE  /\ ready' \in [Threads -> Seq(Jobs)] /\ Head(ready[t]) \in Jobs /\ Waits(Head(ready[t]), t, 1)
         /\ \A u \in Threads, k \in Nat, x \in Jobs :
              Waits(x, u, k)' <=> IF u = t THEN 1 <= k /\ Waits(x, t, k + 1) ELSE Waits(x, u, k)
<1>1. ready[t] \in Seq(Jobs) /\ Tail(ready[t]) \in Seq(Jobs) /\ Len(ready[t]) \in Nat \ {0}
      /\ Head(ready[t]) \in Jobs /\ Head(ready[t]) = ready[t][1]
  OBVIOUS
<1>2. \A u \in Threads : ready'[u] = IF u = t THEN Tail(ready[t]) ELSE ready[u]
  OBVIOUS
<1>3. \A k \in Nat, x \in Jobs : k \in DOMAIN Tail(ready[t]) /\ Tail(ready[t])[k] = x <=>
        1 <= k /\ k + 1 \in DOMAIN ready[t] /\ ready[t][k + 1] = x
  BY <1>1
<1>4. ready' \in [Threads -> Seq(Jobs)]
  BY <1>1
<1>5. Waits(Head(ready[t]), t, 1)
  BY <1>1 DEF Waits
<1> QED
  BY <1>1, <1>2, <1>3, <1>4, <1>5 DEF Waits

\* What append, head and tail do to any queue.
LEMMA QueueFacts ==
  ASSUME NEW S, NEW q \in Seq(S)
  PROVE  /\ \A i \in DOMAIN q : q[i] \in S
         /\ \A e \in S : /\ Append(q, e) \in Seq(S)
                        /\ \A i \in DOMAIN Append(q, e) :
                             (i \in DOMAIN q /\ Append(q, e)[i] = q[i]) \/ Append(q, e)[i] = e
         /\ q # <<>> => /\ Tail(q) \in Seq(S) /\ Head(q) \in S
                       /\ 1 \in DOMAIN q /\ Head(q) = q[1]
                       /\ \A i \in DOMAIN Tail(q) : i + 1 \in DOMAIN q /\ Tail(q)[i] = q[i + 1]
<1> QED
  OBVIOUS

\* Initially nothing is pushed.
LEMMA InitIInv == Init => IInv
<1> SUFFICES ASSUME Init PROVE IInv
  OBVIOUS
<1>0. \A t \in Threads : ready[t] = <<>> /\ running[t] = NULL /\ pc[t] = "idle"
  BY DEF Init
<1>1. Types
  <2>1. << >> \in Seq(Jobs) /\ << >> \in Seq(Handlers)
    OBVIOUS
  <2>2. pc \in [Threads -> PCs]
    BY DEF Init, PCs
  <2>3. /\ id \in [Jobs -> Ids \cup {NULL}] /\ connection \in [Jobs -> Connections \cup {NULL}]
        /\ ready \in [Threads -> Seq(Jobs)] /\ flight \in [Threads -> Seq(Jobs)]
        /\ running \in [Threads -> Jobs \cup {NULL}]
        /\ pending \in [Connections -> Jobs \cup {NULL}]
    BY <2>1 DEF Init
  <2>4. /\ result \in [Jobs -> Jobs \cup {NULL, "none"}]
        /\ outcome \in [Jobs -> {NULL, "OnSuccess", "OnFail"}]
        /\ told \in [Jobs -> {NULL, "OnSuccess", "OnFail"}]
        /\ runs \in [Jobs -> 0 .. 2]
    BY DEF Init
  <2>5. /\ handed \subseteq Jobs /\ linked \subseteq Jobs
        /\ ub \in BOOLEAN /\ serial \in BOOLEAN /\ pushed \in Seq(Handlers)
    BY <2>1 DEF Init
  <2> QED
    BY <2>2, <2>3, <2>4, <2>5 DEF Types, TypeOK
<1>2. WaitInv
  BY <1>0 DEF WaitInv, Waits
<1>3. RunInv
  BY <1>0 DEF RunInv
<1>4. OwnInv
  <2>1. \A j \in Jobs : /\ result[j] = NULL /\ runs[j] = 0 /\ told[j] = NULL
                        /\ outcome[j] = NULL /\ NULL # "OnSuccess"
    BY NameAssumption DEF Init
  <2> QED
    BY <1>0, <2>1 DEF OwnInv
<1>5. OrderInv
  BY DEF Init, OrderInv
<1> QED
  BY <1>1, <1>2, <1>3, <1>4, <1>5 DEF IInv

(***************************************************************************)
(* The main thread pushes.                                                 *)
(***************************************************************************)
\* What StartAsync does besides.
LEMMA StartFacts ==
  ASSUME TypeOK, NEW j \in Jobs, NEW i, i % threadcount \in Threads, StartAsync(i, j)
  PROVE  /\ ready' = [ready EXCEPT ![i % threadcount] = Append(@, j)]
         /\ flight' \in [Threads -> Seq(Jobs)] /\ linked' \subseteq Jobs /\ ub' \in BOOLEAN
         /\ UNCHANGED <<outcome, handed, serial>>
<1>1. /\ flight' \in [Threads -> Seq(Jobs)]
      /\ ready' = [ready EXCEPT ![i % threadcount] = Append(@, j)]
  BY DEF StartAsync, TypeOK
<1>2. linked' \subseteq Jobs /\ ub' \in BOOLEAN
  BY DEF StartAsync, TypeOK
<1> QED
  BY <1>1, <1>2 DEF StartAsync

\* A new job j, with nothing known of it yet, is put behind the queue of thread t; if it is a
\* handler, t is its connection.
LEMMA PushKeeps ==
  ASSUME IInv, NEW j \in Jobs, NEW t \in Threads, NEW i \in Ids, id[j] = NULL,
         id' = [id EXCEPT ![j] = i],
         ready' = [ready EXCEPT ![t] = Append(@, j)],
         connection' \in [Jobs -> Connections \cup {NULL}],
         \A x \in Jobs : x # j => connection'[x] = connection[x],
         j \in Handlers => connection'[j] = t,
         flight' \in [Threads -> Seq(Jobs)], linked' \subseteq Jobs, ub' \in BOOLEAN,
         UNCHANGED <<running, pc, pending, result, outcome, handed, serial, told, runs>>
  PROVE  TypeOK' /\ WaitInv' /\ RunInv' /\ OwnInv'
<1>0. Types /\ WaitInv /\ RunInv /\ OwnInv /\ i # NULL
  BY NameAssumption, IdAssumption DEF IInv
<1>1. ready \in [Threads -> Seq(Jobs)]
  BY <1>0 DEF Types, TypeOK
<1>2. /\ ready' \in [Threads -> Seq(Jobs)]
      /\ \A u \in Threads, k \in Nat, x \in Jobs :
           Waits(x, u, k)' <=> Waits(x, u, k) \/ (x = j /\ u = t /\ k = Len(ready[t]) + 1)
      /\ \A k \in Nat, x \in Jobs : Waits(x, t, k) => k < Len(ready[t]) + 1
  BY <1>1, PushWaits
<1>3. \A x \in Jobs : id'[x] = IF x = j THEN i ELSE id[x]
  BY <1>0 DEF Types, TypeOK
<1>4. \A u \in Threads, k \in Nat : ~Waits(j, u, k)
  BY <1>0 DEF WaitInv
<1>5. \A u \in Threads : running[u] # j
  BY <1>0, NameAssumption DEF RunInv, Jobs
<1>6. TypeOK'
  BY <1>0, <1>2 DEF Types, TypeOK
<1>7. runs[j] = 0
  BY <1>0 DEF OwnInv
<1>8. WaitInv'
  <2> SUFFICES ASSUME NEW u \in Threads, NEW k \in Nat, NEW x \in Jobs, Waits(x, u, k)'
               PROVE  /\ id'[x] # NULL /\ runs'[x] = 0
                      /\ \A v \in Threads : running'[v] # x
                      /\ \A v \in Threads, l \in Nat : Waits(x, v, l)' => u = v /\ k = l
                      /\ x \in Handlers => connection'[x] = u
    BY Zenon DEF WaitInv
  <2>1. CASE x = j
    <3>1. u = t /\ k = Len(ready[t]) + 1
      BY <2>1, <1>2, <1>4
    <3>2. \A v \in Threads, l \in Nat : Waits(x, v, l)' => u = v /\ k = l
      BY <2>1, <3>1, <1>2, <1>4
    <3> QED
      BY <2>1, <3>1, <3>2, <1>0, <1>3, <1>5, <1>7
  <2>2. CASE x # j
    <3>1. Waits(x, u, k)
      BY <2>2, <1>2
    <3>2. /\ id[x] # NULL /\ runs[x] = 0
          /\ \A v \in Threads : running[v] # x
          /\ \A v \in Threads, l \in Nat : Waits(x, v, l) => u = v /\ k = l
          /\ x \in Handlers => connection[x] = u
      BY <3>1, <1>0 DEF WaitInv
    <3>3. \A v \in Threads, l \in Nat : Waits(x, v, l)' => u = v /\ k = l
      BY <2>2, <3>2, <1>2
    <3> QED
      BY <2>2, <3>2, <3>3, <1>3
  <2> QED
    BY <2>1, <2>2
<1>9. RunInv'
  <2>1. \A u \in Threads : running[u] # NULL => running[u] \in Jobs /\ running[u] # j
    BY <1>0, <1>5 DEF Types, TypeOK
  <2>2. \A u \in Threads : pc[u] \in {"query", "active", "again", "store"} => running[u] # NULL
    BY <1>0 DEF RunInv
  <2>3. \A u \in Threads : running[u] # NULL =>
           id'[running[u]] = id[running[u]] /\ connection'[running[u]] = connection[running[u]]
    BY <2>1, <1>3
  <2> QED
    BY <1>0, <2>2, <2>3 DEF RunInv
<1>10. OwnInv'
  <2>1. \A x \in Jobs : id'[x] = NULL => id[x] = NULL
    BY <1>3, <1>0
  <2> QED
    BY <2>1, <1>0 DEF OwnInv, Got
<1> QED
  BY <1>6, <1>8, <1>9, <1>10

LEMMA PushStep ==
  ASSUME IInv, NEW h \in Handlers, NEW i \in Ids, PushMysqlHandler(h, i)
  PROVE  IInv'
<1>0. Types /\ WaitInv /\ RunInv /\ OrderInv /\ i \in Nat /\ h \in Jobs
  BY IdAssumption DEF IInv, Jobs
<1>1. PICK c \in Connections : c = GetConnectionThreadIdx(i) /\ c % threadcount = c
  BY <1>0, ThreadIdx
<1>2. c \in Threads
  BY <1>1, ConnectionNum
<1>3. /\ id[h] = NULL /\ id' = [id EXCEPT ![h] = i]
      /\ connection' = [connection EXCEPT ![h] = c]
      /\ ready' = [ready EXCEPT ![c] = Append(@, h)]
      /\ pushed' = Append(pushed, h)
      /\ UNCHANGED <<running, pc, pending, result, told, runs>>
      /\ flight' \in [Threads -> Seq(Jobs)] /\ linked' \subseteq Jobs /\ ub' \in BOOLEAN
      /\ UNCHANGED <<outcome, handed, serial>>
  <2>1. TypeOK /\ c % threadcount \in Threads /\ StartAsync(c, h)
    BY <1>0, <1>1, <1>2 DEF PushMysqlHandler, Types
  <2> QED
    BY <2>1, <1>0, <1>1, StartFacts DEF PushMysqlHandler
<1>4. /\ connection' \in [Jobs -> Connections \cup {NULL}] /\ connection'[h] = c
      /\ \A x \in Jobs : x # h => connection'[x] = connection[x]
  BY <1>0, <1>1, <1>3 DEF Types, TypeOK
<1>5. TypeOK' /\ WaitInv' /\ RunInv' /\ OwnInv'
  BY <1>0, <1>2, <1>3, <1>4, PushKeeps
<1>6. /\ pushed \in Seq(Handlers) /\ pushed' \in Seq(Handlers) /\ Len(pushed) \in Nat
      /\ \A m \in DOMAIN pushed : pushed'[m] = pushed[m] /\ pushed[m] \in Handlers /\ m < Len(pushed) + 1
      /\ pushed'[Len(pushed) + 1] = h /\ Len(pushed) + 1 \in DOMAIN pushed'
      /\ \A m \in DOMAIN pushed' : m \in DOMAIN pushed \/ m = Len(pushed) + 1
      /\ DOMAIN pushed' \subseteq Nat
  BY <1>0, <1>3 DEF Types
<1>7. \A m \in DOMAIN pushed : pushed[m] # h /\ id[pushed[m]] # NULL
        /\ pushed[m] \in Jobs /\ connection[pushed[m]] = GetConnectionThreadIdx(id[pushed[m]])
  BY <1>0, <1>3, <1>6 DEF OrderInv, Jobs
<1>8. /\ \A u \in Threads, k \in Nat, x \in Jobs :
           Waits(x, u, k)' <=> Waits(x, u, k) \/ (x = h /\ u = c /\ k = Len(ready[c]) + 1)
      /\ \A k \in Nat, x \in Jobs : Waits(x, c, k) => k < Len(ready[c]) + 1
      /\ Len(ready[c]) + 1 \in Nat
  <2>1. ready \in [Threads -> Seq(Jobs)]
    BY <1>0 DEF Types, TypeOK
  <2>2. Len(ready[c]) + 1 \in Nat
    <3>1. ready[c] \in Seq(Jobs)
      BY <2>1, <1>2
    <3> QED
      BY <3>1
  <2> QED
    BY <2>1, <2>2, <1>2, <1>3, <1>0, PushWaits, Zenon
<1>9. \A x \in Jobs : id'[x] = IF x = h THEN i ELSE id[x]
  BY <1>0, <1>3 DEF Types, TypeOK
<1>10. \A m \in DOMAIN pushed' :
         /\ id'[pushed'[m]] # NULL
         /\ connection'[pushed'[m]] = GetConnectionThreadIdx(id'[pushed'[m]])
  <2>0. i # NULL
    BY NameAssumption, IdAssumption
  <2> TAKE m \in DOMAIN pushed'
  <2>1. CASE m \in DOMAIN pushed
    BY <2>1, <1>4, <1>6, <1>7, <1>9
  <2>2. CASE m = Len(pushed) + 1
    BY <2>0, <2>2, <1>0, <1>1, <1>4, <1>6, <1>9
  <2> QED
    BY <2>1, <2>2, <1>6
<1>11. ASSUME NEW m \in DOMAIN pushed', NEW n \in DOMAIN pushed', m < n,
              connection'[pushed'[m]] = connection'[pushed'[n]]
       PROVE  Behind(m, n)'
  <2>1. m \in DOMAIN pushed /\ pushed'[m] = pushed[m] /\ pushed[m] \in Jobs /\ pushed[m] # h
        /\ connection'[pushed[m]] = connection[pushed[m]]
    <3>1. m # Len(pushed) + 1
      BY <1>6, <1>11
    <3> QED
      BY <3>1, <1>4, <1>6, <1>7
  <2>2. PICK d \in Threads : d = connection[pushed[m]]
    <3>1. id[pushed[m]] \in Nat
      BY <1>0, <1>7, <2>1, IdAssumption DEF Types, TypeOK
    <3> QED
      BY <3>1, <2>1, <1>7, ThreadIdx, ConnectionNum
  <2>3. CASE n \in DOMAIN pushed
    <3>1. pushed'[n] = pushed[n] /\ pushed[n] \in Jobs /\ connection[pushed[n]] = d
      BY <1>11, <2>1, <2>2, <2>3, <1>4, <1>6, <1>7
    <3>2. Behind(m, n)
      BY <1>11, <2>1, <2>2, <2>3, <3>1, <1>0 DEF OrderInv
    <3>3. /\ running[d] = pushed[m] => \E k \in Nat : Waits(pushed[n], d, k)
          /\ \A l \in Nat : Waits(pushed[m], d, l) =>
               \E k \in Nat : l < k /\ Waits(pushed[n], d, k)
      BY <3>2, <2>2 DEF Behind
    <3>4. \A l \in Nat : Waits(pushed[m], d, l)' => Waits(pushed[m], d, l)
      BY <1>8, <2>1
    <3>5. \A k \in Nat : Waits(pushed[n], d, k) => Waits(pushed[n], d, k)'
      BY <1>8, <3>1
    <3>6. /\ running[d] = pushed[m] => \E k \in Nat : Waits(pushed[n], d, k)'
          /\ \A l \in Nat : Waits(pushed[m], d, l)' =>
               \E k \in Nat : l < k /\ Waits(pushed[n], d, k)'
      BY <3>3, <3>4, <3>5
    <3> QED
      BY <3>6, <2>1, <2>2, <3>1, <1>3 DEF Behind, Waits
  <2>4. CASE n = Len(pushed) + 1
    <3>1. pushed'[n] = h /\ d = c
      BY <1>11, <2>1, <2>2, <2>4, <1>4, <1>6
    <3>2. PICK b \in Nat : b = Len(ready[c]) + 1
      BY <1>8
    <3>3. \A l \in Nat : Waits(pushed[m], d, l)' => l < Len(ready[c]) + 1
      BY <1>8, <2>1, <3>1
    <3>4. /\ \E k \in Nat : Waits(h, d, k)'
          /\ \A l \in Nat : Waits(pushed[m], d, l)' => \E k \in Nat : l < k /\ Waits(h, d, k)'
      <4>1. Waits(h, d, b)'
        BY <1>0, <1>2, <1>8, <3>1, <3>2
      <4> QED
        BY <4>1, <3>2, <3>3
    <3> QED
      BY <3>4, <3>1, <2>1, <2>2 DEF Behind, Waits
  <2> QED
    BY <2>3, <2>4, <1>6
<1>12. OrderInv'
  BY <1>10, <1>11 DEF OrderInv
<1> QED
  BY <1>5, <1>6, <1>12 DEF IInv, Types

\* The order of the handlers is not disturbed by a step that leaves their queues, their ids and
\* their connections alone, and starts no handler.
LEMMA OrderSame ==
  ASSUME IInv, pushed' = pushed,
         \A x \in Handlers : id'[x] = id[x] /\ connection'[x] = connection[x],
         \A u \in Threads, k \in Nat, x \in Handlers : Waits(x, u, k)' <=> Waits(x, u, k),
         \A u \in Threads : running'[u] \in {running[u], NULL}
  PROVE  OrderInv'
<1>0. Types /\ OrderInv
  BY DEF IInv
<1>1. \A m \in DOMAIN pushed : pushed[m] \in Handlers /\ pushed[m] \in Jobs /\ pushed[m] # NULL
  BY <1>0, NameAssumption DEF Types, Jobs
<1>2. ASSUME NEW m \in DOMAIN pushed, NEW n \in DOMAIN pushed, m < n,
             connection[pushed[m]] = connection[pushed[n]]
      PROVE  Behind(m, n)'
  <2>1. Behind(m, n)
    BY <1>0, <1>2 DEF OrderInv
  <2>2. PICK x \in Handlers : x = pushed[m] /\ x = pushed'[m] /\ x # NULL
    BY <1>1, <1>2
  <2>3. PICK y \in Handlers : y = pushed[n] /\ y = pushed'[n]
    BY <1>1, <1>2
  <2>4. PICK d \in Threads : d = connection[x] /\ d = connection'[x]
    <3>1. id[x] # NULL /\ connection[x] = GetConnectionThreadIdx(id[x])
      BY <1>0, <2>2 DEF OrderInv
    <3>2. id[x] \in Ids \cup {NULL}
      BY <1>0, <1>1, <2>2 DEF Types, TypeOK
    <3>3. id[x] \in Nat
      BY <3>1, <3>2, IdAssumption
    <3> QED
      BY <3>1, <3>3, <2>2, ThreadIdx, ConnectionNum
  <2>5. /\ running[d] = x => \E k \in Nat : Waits(y, d, k)
        /\ \A l \in Nat : Waits(x, d, l) => \E k \in Nat : l < k /\ Waits(y, d, k)
    BY <2>1, <2>2, <2>3, <2>4 DEF Behind
  <2>6. /\ running'[d] = x => \E k \in Nat : Waits(y, d, k)'
        /\ \A l \in Nat : Waits(x, d, l)' => \E k \in Nat : l < k /\ Waits(y, d, k)'
    BY <2>2, <2>5
  <2> QED
    BY <2>2, <2>3, <2>4, <2>6 DEF Behind, Waits
<1> QED
  BY <1>0, <1>1, <1>2 DEF OrderInv

LEMMA StartTaskStep ==
  ASSUME IInv, NEW j \in Tasks, NEW i \in Ids, StartTask(j, i)
  PROVE  IInv'
<1>0. Types /\ j \in Jobs /\ j \notin Handlers
  BY NameAssumption DEF IInv, Jobs
<1>1. PICK t \in Threads : t = i % threadcount
  BY IdAssumption, ThreadIdx
<1>2. /\ id[j] = NULL /\ id' = [id EXCEPT ![j] = i]
      /\ ready' = [ready EXCEPT ![t] = Append(@, j)]
      /\ UNCHANGED <<pushed, connection, running, pc, pending, result, told, runs>>
      /\ flight' \in [Threads -> Seq(Jobs)] /\ linked' \subseteq Jobs /\ ub' \in BOOLEAN
      /\ UNCHANGED <<outcome, handed, serial>>
  <2>1. TypeOK /\ i % threadcount \in Threads /\ StartAsync(i, j)
    BY <1>0, <1>1 DEF StartTask, Types
  <2> QED
    BY <2>1, <1>0, <1>1, StartFacts DEF StartTask
<1>3. TypeOK' /\ WaitInv' /\ RunInv' /\ OwnInv'
  <2>1. connection' \in [Jobs -> Connections \cup {NULL}]
    BY <1>0, <1>2 DEF Types, TypeOK
  <2> QED
    BY <2>1, <1>0, <1>2, PushKeeps
<1>4. \A u \in Threads, k \in Nat, x \in Handlers : Waits(x, u, k)' <=> Waits(x, u, k)
  <2>1. ready \in [Threads -> Seq(Jobs)]
    BY <1>0 DEF Types, TypeOK
  <2>2. \A u \in Threads, k \in Nat, x \in Jobs :
          Waits(x, u, k)' <=> Waits(x, u, k) \/ (x = j /\ u = t /\ k = Len(ready[t]) + 1)
    BY <2>1, <1>0, <1>2, PushWaits
  <2> QED
    BY <2>2, <1>0 DEF Jobs
<1>5. \A x \in Handlers : id'[x] = id[x]
  BY <1>0, <1>2 DEF Types, TypeOK, Jobs
<1>6. OrderInv'
  BY <1>2, <1>4, <1>5, OrderSame
<1> QED
  BY <1>0, <1>2, <1>3, <1>6 DEF IInv, Types

(***************************************************************************)
(* The worker takes the next job: the one that waited longest.             *)
(***************************************************************************)
LEMMA OnExecuteStep ==
  ASSUME IInv, NEW t \in Threads, OnExecute(t)
  PROVE  IInv'
<1>0. Types /\ WaitInv /\ RunInv /\ OwnInv /\ OrderInv
  BY DEF IInv
<1>1. PICK j \in Jobs : j = Head(ready[t]) /\ j # NULL
  BY <1>0, NameAssumption DEF OnExecute, Types, TypeOK, Jobs
<1>2. /\ ready' \in [Threads -> Seq(Jobs)] /\ Waits(j, t, 1)
      /\ \A u \in Threads, k \in Nat, x \in Jobs :
           Waits(x, u, k)' <=> IF u = t THEN 1 <= k /\ Waits(x, t, k + 1) ELSE Waits(x, u, k)
  <2>1. ready \in [Threads -> Seq(Jobs)] /\ ready[t] # <<>> /\ ready' = [ready EXCEPT ![t] = Tail(@)]
    BY <1>0 DEF OnExecute, Types, TypeOK
  <2> QED
    BY <2>1, <1>1, PopWaits
<1>3. /\ pc[t] = "idle"
      /\ \A u \in Threads : running'[u] = IF u = t THEN j ELSE running[u]
      /\ \A u \in Threads : u # t => pc'[u] = pc[u]
      /\ running' \in [Threads -> Jobs \cup {NULL}] /\ pc' \in [Threads -> PCs]
      /\ UNCHANGED <<id, pending, result, told, pushed, runs>>
      /\ UNCHANGED <<outcome, flight, handed, linked, serial>> /\ ub' \in BOOLEAN
  BY <1>0, <1>1 DEF OnExecute, Touch, Types, TypeOK, PCs
<1>4. /\ pc'[t] \in {"query", "fail"}
      /\ \A x \in Jobs : connection'[x] = connection[x] \/ (x = j /\ j \in Tasks /\ connection'[x] = t)
      /\ pc'[t] = "query" => j \in Handlers \/ connection'[j] = t
      /\ connection' \in [Jobs -> Connections \cup {NULL}]
  <2>1. connection \in [Jobs -> Connections \cup {NULL}] /\ pc \in [Threads -> PCs]
    BY <1>0 DEF Types, TypeOK
  <2>2. CheckThreadIdx(t) => t \in Connections
    BY ConnectionNum, ConfigAssumption DEF CheckThreadIdx, Connections, Threads
  <2>3. CASE j \in Tasks /\ CheckThreadIdx(t)
    BY <1>1, <2>1, <2>2, <2>3 DEF OnExecute
  <2>4. CASE ~(j \in Tasks /\ CheckThreadIdx(t))
    BY <1>1, <2>1, <2>4, NameAssumption DEF OnExecute, Jobs
  <2> QED
    BY <2>3, <2>4
<1>5. /\ id[j] # NULL /\ runs[j] = 0
      /\ \A u \in Threads : running[u] # j
      /\ \A u \in Threads, k \in Nat : Waits(j, u, k) => t = u /\ 1 = k
      /\ j \in Handlers => connection[j] = t
  BY <1>0, <1>1, <1>2 DEF WaitInv
<1>6. \A x \in Handlers : connection'[x] = connection[x]
  BY <1>4, NameAssumption DEF Jobs
<1>7. Types'
  BY <1>0, <1>2, <1>3, <1>4 DEF Types, TypeOK
<1>8. WaitInv'
  <2> SUFFICES ASSUME NEW u \in Threads, NEW k \in Nat, NEW x \in Jobs, Waits(x, u, k)'
               PROVE  /\ id'[x] # NULL /\ runs'[x] = 0
                      /\ \A v \in Threads : running'[v] # x
                      /\ \A v \in Threads, l \in Nat : Waits(x, v, l)' => u = v /\ k = l
                      /\ x \in Handlers => connection'[x] = u
    BY Zenon DEF WaitInv
  <2>1. PICK p \in Nat : Waits(x, u, p) /\ p = IF u = t THEN k + 1 ELSE k
    BY <1>2
  <2>2. /\ id[x] # NULL /\ runs[x] = 0
        /\ \A v \in Threads : running[v] # x
        /\ \A v \in Threads, l \in Nat : Waits(x, v, l) => u = v /\ p = l
        /\ x \in Handlers => connection[x] = u
    BY <1>0, <2>1 DEF WaitInv
  <2>3. x # j
    BY <1>2, <1>5, <2>1
  <2>4. ASSUME NEW v \in Threads, NEW l \in Nat, Waits(x, v, l)' PROVE u = v /\ k = l
    <3>1. PICK q \in Nat : Waits(x, v, q) /\ q = IF v = t THEN l + 1 ELSE l
      BY <1>2, <2>4
    <3> QED
      BY <2>1, <2>2, <3>1
  <2> QED
    BY <2>2, <2>3, <2>4, <1>3, <1>6
<1>9. RunInv'
  <2>1. \A u \in Threads \ {t} :
          /\ running'[u] = running[u] /\ pc'[u] = pc[u] /\ running[u] # j
          /\ running[u] # NULL => connection'[running[u]] = connection[running[u]]
    BY <1>0, <1>3, <1>4, <1>5 DEF Types, TypeOK
  <2>2. ASSUME NEW u \in Threads \ {t}
        PROVE  /\ pc'[u] = "idle" <=> running'[u] = NULL
               /\ running'[u] # NULL =>
                    /\ id'[running'[u]] # NULL
                    /\ \A v \in Threads : running'[v] = running'[u] => v = u
                    /\ running'[u] \in Handlers => connection'[running'[u]] = u
               /\ pc'[u] \in {"query", "active", "again", "store"} => connection'[running'[u]] = u
               /\ pc'[u] = "query" => runs'[running'[u]] = 0
               /\ pc'[u] \in {"active", "again"} => runs'[running'[u]] <= 1
               /\ pc'[u] = "store" => pending'[u] = running'[u] /\ runs'[running'[u]] > 0
    BY <1>0, <1>3, <2>1 DEF RunInv
  <2>3. /\ pc'[t] = "idle" <=> running'[t] = NULL
        /\ id'[running'[t]] # NULL
        /\ \A v \in Threads : running'[v] = running'[t] => v = t
        /\ running'[t] \in Handlers => connection'[running'[t]] = t
        /\ pc'[t] \in {"query", "active", "again", "store"} => connection'[running'[t]] = t
        /\ pc'[t] = "query" => runs'[running'[t]] = 0
        /\ pc'[t] \notin {"active", "again", "store"}
    BY <1>1, <1>3, <1>4, <1>5, <1>6
  <2> QED
    BY <2>2, <2>3 DEF RunInv
<1>10. OwnInv'
  BY <1>0, <1>3 DEF OwnInv, Got
<1>11. ASSUME NEW m \in DOMAIN pushed, NEW n \in DOMAIN pushed, m < n,
              connection[pushed[m]] = connection[pushed[n]]
       PROVE  Behind(m, n)'
  <2>1. Behind(m, n)
    BY <1>0, <1>11 DEF OrderInv
  <2>2. PICK x \in Jobs : x = pushed[m] /\ x = pushed'[m] /\ x \in Handlers
    BY <1>0, <1>3, <1>11 DEF Types, Jobs
  <2>3. PICK y \in Jobs : y = pushed[n] /\ y = pushed'[n]
    BY <1>0, <1>3, <1>11 DEF Types, Jobs
  <2>4. PICK d \in Threads : d = connection[x] /\ d = connection'[x]
    <3>1. id[x] \in Nat /\ connection[x] = GetConnectionThreadIdx(id[x])
      <4>1. id[x] # NULL /\ connection[x] = GetConnectionThreadIdx(id[x])
        BY <1>0, <1>11, <2>2 DEF OrderInv
      <4>2. id[x] \in Ids \cup {NULL}
        BY <1>0 DEF Types, TypeOK
      <4> QED
        BY <4>1, <4>2, IdAssumption
    <3> QED
      BY <3>1, <1>6, <2>2, ThreadIdx, ConnectionNum
  <2>5. /\ running[d] = x => \E k \in Nat : Waits(y, d, k)
        /\ \A l \in Nat : Waits(x, d, l) => \E k \in Nat : l < k /\ Waits(y, d, k)
    BY <2>1, <2>2, <2>3, <2>4 DEF Behind
  <2>6. /\ running'[d] = x => \E k \in Nat : Waits(y, d, k)'
        /\ \A l \in Nat : Waits(x, d, l)' => \E k \in Nat : l < k /\ Waits(y, d, k)'
    <3>1. CASE d # t
      BY <3>1, <2>5, <1>2, <1>3
    <3>2. CASE d = t
      <4>1. ASSUME NEW l \in Nat, Waits(x, t, l + 1)
            PROVE  \E k \in Nat : l < k /\ Waits(y, t, k)'
        <5>1. PICK k \in Nat : l + 1 < k /\ Waits(y, t, k)
          BY <2>5, <3>2, <4>1
        <5>2. PICK p \in Nat : p + 1 = k /\ l < p /\ 1 <= p
          BY <5>1
        <5>3. Waits(y, t, p)'
          BY <5>1, <5>2, <1>2
        <5> QED
          BY <5>2, <5>3
      <4>2. running'[t] = x => Waits(x, t, 0 + 1)
        BY <1>2, <1>3
      <4>3. \A l \in Nat : Waits(x, t, l)' => Waits(x, t, l + 1)
        BY <1>2
      <4> QED
        BY <3>2, <4>1, <4>2, <4>3
    <3> QED
      BY <3>1, <3>2
  <2> QED
    BY <2>2, <2>3, <2>4, <2>6 DEF Behind, Waits
<1>12. OrderInv'
  <2>1. \A m \in DOMAIN pushed : pushed[m] \in Handlers
    BY <1>0 DEF Types
  <2> QED
    BY <1>0, <1>3, <1>6, <1>11, <2>1 DEF OrderInv
<1> QED
  BY <1>7, <1>8, <1>9, <1>10, <1>12 DEF IInv

(***************************************************************************)
(* A worker asks the server, once or twice.                                *)
(***************************************************************************)
\* What InnerExecute may do to the worker, to the statement and to the connection.
LEMMA ExecuteFacts ==
  ASSUME IInv, NEW t \in Threads, Execute(t)
  PROVE  \E j \in Jobs :
           /\ j = running[t] /\ j # NULL /\ t \in Connections
           /\ pc'[t] \in {"active", "again", "store", "fail"}
           /\ \A u \in Threads : u # t => pc'[u] = pc[u]
           /\ \A u \in Connections : u # t => pending'[u] = pending[u]
           /\ \A x \in Jobs : x # j => runs'[x] = runs[x]
           /\ runs'[j] >= runs[j]
           /\ pc'[t] \in {"active", "again"} => runs'[j] <= 1
           /\ pc'[t] = "store" => pending'[t] = j /\ runs'[j] > 0
           /\ pc' \in [Threads -> PCs] /\ pending' \in [Connections -> Jobs \cup {NULL}]
           /\ runs' \in [Jobs -> 0 .. 2] /\ connection[j] = t
<1>0. Types /\ RunInv /\ pc[t] \in {"query", "active", "again"}
  BY DEF IInv, Execute, InnerExecute
<1>1. PICK j \in Jobs : j = running[t] /\ j # NULL /\ connection[j] = t /\ runs[j] \in 0 .. 1
                        /\ (pc[t] = "query" => runs[j] = 0)
  <2>1. running[t] # NULL /\ connection[running[t]] = t
    BY <1>0 DEF RunInv
  <2>2. running[t] \in Jobs /\ runs[running[t]] \in 0 .. 2
    BY <1>0, <2>1 DEF Types, TypeOK
  <2>3. pc[t] = "query" => runs[running[t]] = 0
    BY <1>0 DEF RunInv
  <2>4. runs[running[t]] <= 1
    <3>1. pc[t] \in {"active", "again"} => runs[running[t]] <= 1
      BY <1>0 DEF RunInv
    <3> QED
      BY <2>3, <3>1, <1>0
  <2> QED
    BY <2>1, <2>2, <2>3, <2>4
<1>2. t \in Connections
  <2>1. connection[j] \in Connections \cup {NULL}
    BY <1>0 DEF Types, TypeOK
  <2>2. t # NULL
    BY NameAssumption, ConfigAssumption DEF Threads
  <2> QED
    BY <1>1, <2>1, <2>2
<1>3. /\ pc \in [Threads -> PCs] /\ runs \in [Jobs -> 0 .. 2]
      /\ pending \in [Connections -> Jobs \cup {NULL}]
  BY <1>0 DEF Types, TypeOK
<1>4. PICK r \in 0 .. 2 : /\ runs' = [runs EXCEPT ![j] = r] /\ (r = runs[j] \/ r = runs[j] + 1)
                          /\ pc'[t] = "store" => r > 0 /\ pending' = [pending EXCEPT ![t] = j]
                          /\ pc'[t] # "store" => pending' = pending
                          /\ pc'[t] \in {"active", "again"} => r <= 1
                          /\ pc' = [pc EXCEPT ![t] = pc'[t]]
                          /\ pc'[t] \in {"active", "again", "store", "fail"}
  <2>0. /\ Answered(t) => /\ runs' = [runs EXCEPT ![j] = runs[j] + 1]
                          /\ pending' = [pending EXCEPT ![t] = j]
        /\ AnswerLost(t) => runs' = [runs EXCEPT ![j] = runs[j] + 1] /\ pending' = pending
        /\ Unreachable(t) => runs' = [runs EXCEPT ![j] = runs[j]] /\ pending' = pending
        /\ runs' = runs => runs' = [runs EXCEPT ![j] = runs[j]]
    BY <1>1, <1>3 DEF Answered, AnswerLost, Unreachable, Runs
  <2>1. CASE pc[t] = "query" /\ pc' = [pc EXCEPT ![t] = "store"] /\ Answered(t)
    BY <2>0, <2>1, <1>1, <1>3
  <2>2. CASE pc[t] = "query" /\ pc' = [pc EXCEPT ![t] = "active"] /\ AnswerLost(t)
    BY <2>0, <2>2, <1>1, <1>3
  <2>3. CASE pc[t] = "query" /\ pc' = [pc EXCEPT ![t] = "active"] /\ Unreachable(t)
    BY <2>0, <2>3, <1>1, <1>3
  <2>4. CASE pc[t] = "active" /\ pc' = [pc EXCEPT ![t] = "again"] /\ UNCHANGED <<runs, pending>>
    BY <2>0, <2>4, <1>1, <1>3
  <2>5. CASE pc[t] = "active" /\ pc' = [pc EXCEPT ![t] = "fail"] /\ UNCHANGED <<runs, pending>>
    BY <2>0, <2>5, <1>1, <1>3
  <2>6. CASE pc[t] = "again" /\ pc' = [pc EXCEPT ![t] = "store"] /\ Answered(t)
    BY <2>0, <2>6, <1>1, <1>3
  <2>7. CASE pc[t] = "again" /\ pc' = [pc EXCEPT ![t] = "fail"] /\ AnswerLost(t)
    BY <2>0, <2>7, <1>1, <1>3
  <2>8. CASE pc[t] = "again" /\ pc' = [pc EXCEPT ![t] = "fail"] /\ Unreachable(t)
    BY <2>0, <2>8, <1>1, <1>3
  <2> QED
    BY <2>1, <2>2, <2>3, <2>4, <2>5, <2>6, <2>7, <2>8, Zenon DEF Execute, InnerExecute
<1>5. /\ \A u \in Threads : u # t => pc'[u] = pc[u]
      /\ pc' \in [Threads -> PCs]
  BY <1>3, <1>4 DEF PCs
<1>6. /\ \A x \in Jobs : x # j => runs'[x] = runs[x]
      /\ runs'[j] = r /\ runs' \in [Jobs -> 0 .. 2]
  BY <1>3, <1>4
<1>7. /\ \A u \in Connections : u # t => pending'[u] = pending[u]
      /\ pending' \in [Connections -> Jobs \cup {NULL}]
      /\ pc'[t] = "store" => pending'[t] = j
  BY <1>2, <1>3, <1>4
<1>8. runs'[j] >= runs[j] /\ (pc'[t] = "store" => runs'[j] > 0)
      /\ (pc'[t] \in {"active", "again"} => runs'[j] <= 1)
  BY <1>1, <1>4, <1>6
<1> QED
  BY <1>1, <1>2, <1>4, <1>5, <1>6, <1>7, <1>8

LEMMA ExecuteStep ==
  ASSUME IInv, NEW t \in Threads, Execute(t)
  PROVE  IInv'
<1>0. Types /\ WaitInv /\ RunInv /\ OwnInv /\ OrderInv
  BY DEF IInv
<1>1. PICK j \in Jobs :
        /\ j = running[t] /\ j # NULL /\ t \in Connections
        /\ pc'[t] \in {"active", "again", "store", "fail"}
        /\ \A u \in Threads : u # t => pc'[u] = pc[u]
        /\ \A u \in Connections : u # t => pending'[u] = pending[u]
        /\ \A x \in Jobs : x # j => runs'[x] = runs[x]
        /\ runs'[j] >= runs[j]
        /\ pc'[t] \in {"active", "again"} => runs'[j] <= 1
        /\ pc'[t] = "store" => pending'[t] = j /\ runs'[j] > 0
        /\ pc' \in [Threads -> PCs] /\ pending' \in [Connections -> Jobs \cup {NULL}]
        /\ runs' \in [Jobs -> 0 .. 2] /\ connection[j] = t
  BY ExecuteFacts, Zenon
<1>2. /\ UNCHANGED <<id, connection, ready, running, result, told, pushed>>
      /\ UNCHANGED <<outcome, flight, handed, linked, serial>> /\ ub' \in BOOLEAN
  BY <1>0 DEF Execute, Touch, Types, TypeOK
<1>3. Types'
  BY <1>0, <1>1, <1>2 DEF Types, TypeOK
<1>4. WaitInv'
  <2>1. \A u \in Threads, k \in Nat, x \in Jobs : Waits(x, u, k)' <=> Waits(x, u, k)
    BY <1>2 DEF Waits
  <2>2. \A u \in Threads, k \in Nat, x \in Jobs : Waits(x, u, k) => runs'[x] = runs[x]
    BY <1>0, <1>1 DEF WaitInv
  <2> QED
    BY <1>0, <1>2, <2>1, <2>2 DEF WaitInv
<1>5. RunInv'
  <2>1. ASSUME NEW u \in Threads, u # t
        PROVE  /\ pc'[u] = "idle" <=> running'[u] = NULL
               /\ running'[u] # NULL =>
                    /\ id'[running'[u]] # NULL
                    /\ \A v \in Threads : running'[v] = running'[u] => v = u
                    /\ running'[u] \in Handlers => connection'[running'[u]] = u
               /\ pc'[u] \in {"query", "active", "again", "store"} => connection'[running'[u]] = u
               /\ pc'[u] = "query" => runs'[running'[u]] = 0
               /\ pc'[u] \in {"active", "again"} => runs'[running'[u]] <= 1
               /\ pc'[u] = "store" => pending'[u] = running'[u] /\ runs'[running'[u]] > 0
    <3>1. pc'[u] = pc[u] /\ running'[u] = running[u]
      BY <1>1, <1>2, <2>1
    <3>2. pc[u] # "idle" => running[u] \in Jobs /\ running[u] # j
      BY <1>0, <1>1, <2>1 DEF RunInv, Types, TypeOK
    <3>3. pc[u] # "idle" => runs'[running[u]] = runs[running[u]]
      BY <3>2, <1>1
    <3>4. pc[u] = "store" => pending'[u] = pending[u]
      <4>1. pc[u] = "store" => connection[running[u]] = u
        BY <1>0 DEF RunInv
      <4>2. pc[u] = "store" => connection[running[u]] \in Connections \cup {NULL}
        BY <1>0, <3>2 DEF Types, TypeOK
      <4>3. u # NULL
        BY NameAssumption, ConfigAssumption DEF Threads
      <4> QED
        BY <4>1, <4>2, <4>3, <1>1, <2>1
    <3>5. /\ pc[u] = "idle" <=> running[u] = NULL
          /\ running[u] # NULL =>
               /\ id[running[u]] # NULL
               /\ \A v \in Threads : running[v] = running[u] => v = u
               /\ running[u] \in Handlers => connection[running[u]] = u
          /\ pc[u] \in {"query", "active", "again", "store"} => connection[running[u]] = u
          /\ pc[u] = "query" => runs[running[u]] = 0
          /\ pc[u] \in {"active", "again"} => runs[running[u]] <= 1
          /\ pc[u] = "store" => pending[u] = running[u] /\ runs[running[u]] > 0
      BY <1>0 DEF RunInv
    <3> QED
      BY <3>1, <3>3, <3>4, <3>5, <1>2
  <2>2. /\ pc'[t] # "idle" /\ running'[t] # NULL
        /\ id'[running'[t]] # NULL
        /\ \A v \in Threads : running'[v] = running'[t] => v = t
        /\ running'[t] \in Handlers => connection'[running'[t]] = t
        /\ connection'[running'[t]] = t
        /\ pc'[t] # "query"
        /\ pc'[t] \in {"active", "again"} => runs'[running'[t]] <= 1
        /\ pc'[t] = "store" => pending'[t] = running'[t] /\ runs'[running'[t]] > 0
    <3>1. /\ id[running[t]] # NULL
          /\ \A v \in Threads : running[v] = running[t] => v = t
      BY <1>0, <1>1 DEF RunInv
    <3> QED
      BY <1>1, <1>2, <3>1
  <2> QED
    BY <2>1, <2>2 DEF RunInv
<1>6. OwnInv'
  <2>0. id[j] # NULL
    BY <1>0, <1>1 DEF RunInv
  <2>1. /\ \A x \in Jobs : runs[x] > 0 => runs'[x] > 0
        /\ \A x \in Jobs : id[x] = NULL => runs'[x] = runs[x]
    <3>1. \A x \in Jobs : runs[x] \in 0 .. 2 /\ runs'[x] \in 0 .. 2
      <4>1. runs \in [Jobs -> 0 .. 2] /\ runs' \in [Jobs -> 0 .. 2]
        BY <1>0, <1>1 DEF Types, TypeOK
      <4> QED
        BY <4>1
    <3> QED
      BY <3>1, <2>0, <1>1
  <2> QED
    BY <1>0, <1>2, <2>1 DEF OwnInv, Got
<1>7. OrderInv'
  <2>1. \A u \in Threads, k \in Nat, x \in Handlers : Waits(x, u, k)' <=> Waits(x, u, k)
    BY <1>2 DEF Waits
  <2> QED
    BY <1>2, <2>1, OrderSame
<1> QED
  BY <1>3, <1>4, <1>5, <1>6, <1>7 DEF IInv

(***************************************************************************)
(* The worker hands the job back, and the main thread tells the handler.   *)
(***************************************************************************)
LEMMA ExecutedStep ==
  ASSUME IInv, NEW t \in Threads, Executed(t)
  PROVE  IInv'
<1>0. Types /\ WaitInv /\ RunInv /\ OwnInv /\ OrderInv /\ pc[t] \in {"store", "fail"}
  BY DEF IInv, Executed
<1>1. PICK j \in Jobs : j = running[t] /\ j # NULL
  BY <1>0 DEF RunInv, Types, TypeOK
<1>2. /\ \A u \in Threads : running'[u] = IF u = t THEN NULL ELSE running[u]
      /\ \A u \in Threads : pc'[u] = IF u = t THEN "idle" ELSE pc[u]
      /\ running' \in [Threads -> Jobs \cup {NULL}] /\ pc' \in [Threads -> PCs]
      /\ UNCHANGED <<id, connection, ready, told, pushed, runs>>
      /\ UNCHANGED <<flight, linked, serial>> /\ ub' \in BOOLEAN
  BY <1>0 DEF Executed, Touch, Types, TypeOK, PCs
<1>3. /\ result' \in [Jobs -> Jobs \cup {NULL, "none"}]
      /\ pending' \in [Connections -> Jobs \cup {NULL}]
      /\ \A x \in Jobs : x # j => result'[x] = result[x]
      /\ result'[j] \in {j, "none", result[j]}
      /\ \A u \in Connections : u # t => pending'[u] = pending[u]
      /\ pc[t] = "store" => runs[j] > 0 /\ (j \in Handlers => result'[j] \in {"none", j})
  <2>1. /\ result \in [Jobs -> Jobs \cup {NULL, "none"}]
        /\ pending \in [Connections -> Jobs \cup {NULL}]
    BY <1>0 DEF Types, TypeOK
  <2>2. pc[t] = "store" => connection[j] = t /\ pending[t] = j /\ runs[j] > 0
    BY <1>0, <1>1 DEF RunInv
  <2>3. ASSUME pc[t] = "store", NEW r \in {j, "none"}, result' = [result EXCEPT ![j] = r],
               pending' = [pending EXCEPT ![t] = NULL]
        PROVE  /\ result' \in [Jobs -> Jobs \cup {NULL, "none"}]
               /\ pending' \in [Connections -> Jobs \cup {NULL}]
               /\ \A x \in Jobs : x # j => result'[x] = result[x]
               /\ result'[j] \in {j, "none", result[j]}
               /\ \A u \in Connections : u # t => pending'[u] = pending[u]
               /\ pc[t] = "store" => runs[j] > 0 /\ (j \in Handlers => result'[j] \in {"none", j})
    BY <2>1, <2>2, <2>3
  <2>4. CASE (pc[t] = "fail" \/ (pc[t] = "store" /\ j \in Tasks)) /\ UNCHANGED <<result, pending>>
    BY <2>1, <2>2, <2>4, NameAssumption
  <2> QED
    BY <2>2, <2>3, <2>4, <1>1 DEF Executed
<1>4. /\ outcome' \in [Jobs -> {NULL, "OnSuccess", "OnFail"}]
      /\ \A x \in Jobs : x # j => outcome'[x] = outcome[x]
      /\ outcome'[j] = "OnSuccess" => pc[t] = "store"
  <2>1. outcome \in [Jobs -> {NULL, "OnSuccess", "OnFail"}]
    BY <1>0 DEF Types, TypeOK
  <2>2. outcome' = [outcome EXCEPT ![j] = IF pc[t] = "store" THEN "OnSuccess" ELSE "OnFail"]
    BY <1>1 DEF Executed
  <2> QED
    BY <2>1, <2>2
<1>5. handed' \subseteq Jobs
  <2>1. flight[t] \in Seq(Jobs) /\ handed \subseteq Jobs
    BY <1>0 DEF Types, TypeOK
  <2>2. ToSet(flight[t]) \subseteq Jobs
    BY <2>1 DEF ToSet
  <2>3. HandOver(t)
    BY DEF Executed
  <2> QED
    BY <2>1, <2>2, <2>3 DEF HandOver
<1>6. Types'
  BY <1>0, <1>2, <1>3, <1>4, <1>5 DEF Types, TypeOK
<1>7. \A u \in Threads, k \in Nat, x \in Jobs : Waits(x, u, k)' <=> Waits(x, u, k)
  BY <1>2 DEF Waits
<1>8. WaitInv'
  <2>1. \A x \in Jobs : x # NULL
    BY NameAssumption DEF Jobs
  <2>2. ASSUME NEW u \in Threads, NEW i \in Nat, NEW x \in Jobs, Waits(x, u, i)'
        PROVE  /\ id'[x] # NULL /\ runs'[x] = 0
               /\ \A v \in Threads : running'[v] # x
               /\ \A v \in Threads, k \in Nat : Waits(x, v, k)' => u = v /\ i = k
               /\ x \in Handlers => connection'[x] = u
    <3>1. Waits(x, u, i)
      BY <1>7, <2>2
    <3>2. /\ id[x] # NULL /\ runs[x] = 0
          /\ \A v \in Threads : running[v] # x
          /\ \A v \in Threads, k \in Nat : Waits(x, v, k) => u = v /\ i = k
          /\ x \in Handlers => connection[x] = u
      BY <1>0, <3>1 DEF WaitInv
    <3>3. \A v \in Threads, k \in Nat : Waits(x, v, k)' => u = v /\ i = k
      BY <1>7, <3>2
    <3>4. \A v \in Threads : running'[v] # x
      BY <1>2, <2>1, <3>2
    <3>5. QED
      BY <1>2, <3>2, <3>3, <3>4
  <2> QED
    BY <2>2 DEF WaitInv
<1>9. RunInv'
  <2>1. ASSUME NEW u \in Threads, u # t
        PROVE  /\ pc'[u] = "idle" <=> running'[u] = NULL
               /\ running'[u] # NULL =>
                    /\ id'[running'[u]] # NULL
                    /\ \A v \in Threads : running'[v] = running'[u] => v = u
                    /\ running'[u] \in Handlers => connection'[running'[u]] = u
               /\ pc'[u] \in {"query", "active", "again", "store"} => connection'[running'[u]] = u
               /\ pc'[u] = "query" => runs'[running'[u]] = 0
               /\ pc'[u] \in {"active", "again"} => runs'[running'[u]] <= 1
               /\ pc'[u] = "store" => pending'[u] = running'[u] /\ runs'[running'[u]] > 0
    <3>1. pc[u] = "store" => pending'[u] = pending[u]
      <4>1. pc[u] = "store" => connection[running[u]] = u /\ running[u] # NULL
        BY <1>0 DEF RunInv
      <4>2. pc[u] = "store" => connection[running[u]] \in Connections \cup {NULL}
        BY <1>0, <4>1 DEF Types, TypeOK
      <4>3. u # NULL
        BY NameAssumption, ConfigAssumption DEF Threads
      <4> QED
        BY <4>1, <4>2, <4>3, <1>3, <2>1
    <3>2. /\ pc[u] = "idle" <=> running[u] = NULL
          /\ running[u] # NULL =>
               /\ id[running[u]] # NULL
               /\ \A v \in Threads : running[v] = running[u] => v = u
               /\ running[u] \in Handlers => connection[running[u]] = u
          /\ pc[u] \in {"query", "active", "again", "store"} => connection[running[u]] = u
          /\ pc[u] = "query" => runs[running[u]] = 0
          /\ pc[u] \in {"active", "again"} => runs[running[u]] <= 1
          /\ pc[u] = "store" => pending[u] = running[u] /\ runs[running[u]] > 0
      BY <1>0 DEF RunInv
    <3> QED
      BY <2>1, <3>1, <3>2, <1>2
  <2>2. pc'[t] = "idle" /\ running'[t] = NULL
    BY <1>2
  <2> QED
    BY <2>1, <2>2 DEF RunInv
<1>10. OwnInv'
  <2> SUFFICES ASSUME NEW x \in Jobs
               PROVE  /\ result'[x] \in {NULL, "none", x}
                      /\ id'[x] = NULL => runs'[x] = 0
                      /\ outcome'[x] = "OnSuccess" => Got(x)'
                      /\ told'[x] = "OnSuccess" => Got(x)'
    BY Zenon DEF OwnInv
  <2>1. /\ result[x] \in {NULL, "none", x} /\ (id[x] = NULL => runs[x] = 0)
        /\ outcome[x] = "OnSuccess" => Got(x)
        /\ told[x] = "OnSuccess" => Got(x)
    BY <1>0 DEF OwnInv
  <2>2. CASE x # j
    BY <2>1, <2>2, <1>2, <1>3, <1>4 DEF Got
  <2>3. CASE x = j
    <3>1. result'[j] \in {NULL, "none", j}
      BY <2>1, <2>3, <1>3
    <3>2. Got(j) => Got(j)'
      BY <1>2, <1>3 DEF Got
    <3>3. pc[t] = "store" => Got(j)'
      BY <1>2, <1>3 DEF Got
    <3> QED
      BY <2>1, <2>3, <3>1, <3>2, <3>3, <1>2, <1>4
  <2> QED
    BY <2>2, <2>3
<1>11. OrderInv'
  BY <1>2, <1>7, OrderSame DEF Jobs
<1> QED
  BY <1>6, <1>8, <1>9, <1>10, <1>11 DEF IInv

LEMMA LoopStep ==
  ASSUME IInv, NEW t \in Threads, Loop(t)
  PROVE  IInv'
<1>0. Types /\ WaitInv /\ RunInv /\ OwnInv /\ OrderInv
  BY DEF IInv
<1>1. /\ flight[t] # <<>> /\ flight' = [flight EXCEPT ![t] = Tail(@)]
      /\ UNCHANGED <<id, connection, ready, running, pc, pending, result, pushed, runs>>
      /\ UNCHANGED <<outcome, handed, linked, ub, serial>>
  BY DEF Loop
<1>2. flight \in [Threads -> Seq(Jobs)] /\ flight[t] \in Seq(Jobs)
  BY <1>0 DEF Types, TypeOK
<1>3. PICK j \in Jobs : j = Head(flight[t])
  BY <1>1, <1>2
<1>4. /\ told' \in [Jobs -> {NULL, "OnSuccess", "OnFail"}]
      /\ \A x \in Jobs : told'[x] = "OnSuccess" =>
           told[x] = "OnSuccess" \/ outcome[x] = "OnSuccess"
  <2>1. told' = [told EXCEPT ![j] = IF outcome[j] = "OnSuccess" THEN "OnSuccess" ELSE "OnFail"]
    BY <1>3 DEF Loop
  <2> QED
    BY <2>1, <1>0 DEF Types, TypeOK
<1>5. flight' \in [Threads -> Seq(Jobs)]
  BY <1>1, <1>2
<1>6. Types'
  BY <1>0, <1>1, <1>4, <1>5 DEF Types, TypeOK
<1>7. \A u \in Threads, k \in Nat, x \in Jobs : Waits(x, u, k)' <=> Waits(x, u, k)
  BY <1>1 DEF Waits
<1>8. WaitInv'
  BY <1>0, <1>1 DEF WaitInv, Waits
<1>9. RunInv'
  BY <1>0, <1>1 DEF RunInv
<1>10. OwnInv'
  BY <1>0, <1>1, <1>4 DEF OwnInv, Got
<1>11. OrderInv'
  BY <1>1, <1>7, OrderSame DEF Jobs
<1> QED
  BY <1>6, <1>8, <1>9, <1>10, <1>11 DEF IInv

(***************************************************************************)
(* The theorems.                                                           *)
(***************************************************************************)
LEMMA Stutter == ASSUME IInv, UNCHANGED vars PROVE IInv'
<1>1. /\ UNCHANGED <<id, connection, ready, running, pc, pending, result, told, pushed, runs>>
      /\ UNCHANGED <<outcome, flight, handed, linked, ub, serial>>
  BY DEF vars, asyncVars
<1>2. Types'
  BY <1>1 DEF IInv, Types, TypeOK
<1>3. WaitInv' /\ RunInv' /\ OwnInv'
  BY <1>1 DEF IInv, WaitInv, RunInv, OwnInv, Got, Waits
<1>4. OrderInv'
  BY <1>1 DEF IInv, OrderInv, Behind, Waits
<1> QED
  BY <1>2, <1>3, <1>4 DEF IInv

LEMMA StepIInv == IInv /\ [Next]_vars => IInv'
<1> SUFFICES ASSUME IInv, [Next]_vars PROVE IInv'
  OBVIOUS
<1>1. ASSUME NEW i \in Ids, NEW h \in Handlers, PushMysqlHandler(h, i) PROVE IInv'
  BY <1>1, PushStep
<1>2. ASSUME NEW i \in Ids, NEW j \in Tasks, StartTask(j, i) PROVE IInv'
  BY <1>2, StartTaskStep
<1>3. ASSUME NEW t \in Threads, OnExecute(t) PROVE IInv'
  BY <1>3, OnExecuteStep
<1>4. ASSUME NEW t \in Threads, Execute(t) PROVE IInv'
  BY <1>4, ExecuteStep
<1>5. ASSUME NEW t \in Threads, Executed(t) PROVE IInv'
  BY <1>5, ExecutedStep
<1>6. ASSUME NEW t \in Threads, Loop(t) PROVE IInv'
  BY <1>6, LoopStep
<1>7. CASE UNCHANGED vars
  BY <1>7, Stutter
<1> QED
  BY <1>1, <1>2, <1>3, <1>4, <1>5, <1>6, <1>7 DEF Next

LEMMA AlwaysIInv == Spec => []IInv
<1> QED
  BY InitIInv, StepIInv, PTL DEF Spec

\* Every variable keeps its type: no job is ever given a connection that is not a worker's, and
\* the server executes no statement more than twice (DBConnection::InnerExecute tries again once).
THEOREM TypeCorrect == Spec => []TypeOK
<1>1. IInv => TypeOK
  BY DEF IInv, Types
<1> QED
  BY <1>1, AlwaysIInv, PTL

\* MysqlBase::OnSuccess never comes with the result of another statement, for any number of
\* workers, connections and jobs, also when several of them are in flight on one worker and
\* until the kernel uses one that it has released: a connection is used by its own worker only,
\* so nobody executes on it between a statement and the fetch of its result.  The handler's own
\* result may be missing, if mysql_store_result failed: MysqlResult::Init does not tell.
THEOREM EveryResultIsOwn == Spec => []ResultIsOwn
<1>1. IInv => ResultIsOwn
  BY DEF IInv, OwnInv, Got, ResultIsOwn, Jobs
<1> QED
  BY <1>1, AlwaysIInv, PTL

\* IMysqlMgr.h promises that what is pushed with the same id is executed in order: it is, since
\* one id means one connection, one worker and one queue, and the queue keeps the later behind
\* the earlier until that one has been executed, its second attempt included.
THEOREM ExecutedInOrder == Spec => SameIdInOrder
<1> DEFINE A == \A m, n \in DOMAIN pushed :
                  /\ m < n /\ id[pushed[m]] = id[pushed[n]]
                  /\ runs'[pushed[m]] # runs[pushed[m]]
                  => runs[pushed[n]] = 0
<1>1. IInv /\ [Next]_vars => [A]_vars
  <2> SUFFICES ASSUME IInv, Next, NEW m \in DOMAIN pushed, NEW n \in DOMAIN pushed, m < n,
                      id[pushed[m]] = id[pushed[n]], runs'[pushed[m]] # runs[pushed[m]]
               PROVE  runs[pushed[n]] = 0
    OBVIOUS
  <2>1. PICK t \in Threads : Execute(t)
    BY DEF Next, PushMysqlHandler, StartTask, OnExecute, Executed, Loop
  <2>2. pushed[m] \in Handlers /\ pushed[n] \in Handlers /\ pushed[m] \in Jobs /\ pushed[n] \in Jobs
    BY DEF IInv, Types, Jobs
  <2>3. running[t] = pushed[m] /\ connection[pushed[m]] = t
    BY <2>1, <2>2, ExecuteFacts
  <2>4. connection[pushed[m]] = connection[pushed[n]]
    BY DEF IInv, OrderInv
  <2>5. Behind(m, n)
    BY <2>4 DEF IInv, OrderInv
  <2>6. PICK k \in Nat : Waits(pushed[n], t, k)
    BY <2>3, <2>5 DEF Behind
  <2> QED
    BY <2>2, <2>6 DEF IInv, WaitInv
<1> QED
  BY <1>1, AlwaysIInv, PTL DEF Spec, SameIdInOrder

(***************************************************************************)
(* LoginControl: the limit.                                                *)
(***************************************************************************)
\* A set of naturals has a least element.
LEMMA LeastNatural ==
  ASSUME NEW T, T \subseteq Nat, T # {} PROVE \E m \in T : \A k \in T : m <= k
<1>1. PICK R : R = {ss \in Nat \X Nat : ss[1] < ss[2]}
  OBVIOUS
<1>2. IsWellFoundedOn(R, Nat)
  BY <1>1, NatLessThanWellFounded DEF OpToRel
<1>3. PICK x \in T : \A y \in T : ~ (<<y, x>> \in R)
  BY ONLY <1>2, WFMin, T \subseteq Nat, T # {}, Zenon
<1>4. \A a, b \in Nat : b < a => <<b, a>> \in R
  BY <1>1
<1>5. ASSUME NEW y \in T PROVE x <= y
  <2>1. x \in Nat /\ y \in Nat
    OBVIOUS
  <2>2. ~ (y < x)
    BY <1>3, <1>4, <2>1
  <2>3. QED
    BY ONLY <2>1, <2>2
<1>6. QED
  BY <1>5

\* What LoginControl assumes of its constants: the configuration it was written for.
LoginConfig == /\ LimitMax \in Nat /\ LimitVal \in Nat /\ RateMax \in Nat
               /\ StageNum \in Nat \ {0}
               /\ (LimitMax - LimitVal) \div StageNum > 0
               /\ QueueNums \subseteq Nat /\ MaxTick \in Nat
               /\ None \notin Accounts

\* LoginConfig holds, as the module of LoginControl assumes.
LEMMA LoginConfigHolds == LoginConfig
  BY AccountsAssumption, LimitAssumption, BoundsAssumption DEF LoginConfig

\* A set of naturals with an upper bound has a greatest element.
LEMMA GreatestNatural ==
  ASSUME NEW T, NEW b \in Nat, T \subseteq 0 .. b, T # {} PROVE \E m \in T : \A k \in T : k <= m
<1>1. PICK U : U = {n \in Nat : \E t \in T : n = b - t}
  OBVIOUS
<1>2. U \subseteq Nat /\ U # {}
  <2>1. PICK t \in T : t \in 0 .. b
    OBVIOUS
  <2>2. b - t \in Nat
    BY ONLY <2>1, b \in Nat
  <2>3. QED
    BY <1>1, <2>1, <2>2
<1>3. PICK u \in U : \A k \in U : u <= k
  BY ONLY <1>2, LeastNatural
<1>4. PICK m \in T : u = b - m
  BY <1>1
<1>5. ASSUME NEW k \in T PROVE k <= m
  <2>1. b - k \in U
    BY <1>1
  <2>2. u <= b - k
    BY <1>3, <2>1
  <2>3. m \in Nat /\ k \in Nat
    OBVIOUS
  <2>4. QED
    BY ONLY <1>4, <2>2, <2>3, b \in Nat
<1>6. QED
  BY <1>5

\* Fewer than rate elements of S lie below each of those that Served chooses, so there are
\* no more than rate of them.
LEMMA FirstOfSet ==
  ASSUME NEW S, NEW b \in Nat, S \subseteq 0 .. b, NEW rate \in Nat, NEW F,
         F = {t \in S : Cardinality({u \in S : u < t}) < rate}
  PROVE  IsFiniteSet(F) /\ Cardinality(F) \in Nat /\ Cardinality(F) <= rate
<1>1. IsFiniteSet(S)
  <2>1. IsFiniteSet(0 .. b)
    BY FS_Interval
  <2>2. QED
    BY <2>1, FS_Subset
<1>2. F \subseteq S /\ IsFiniteSet(F) /\ Cardinality(F) \in Nat
  BY <1>1, FS_Subset, FS_CardinalityType
<1>3. CASE F = {}
  <2>1. Cardinality(F) = 0
    BY <1>3, FS_EmptySet, Zenon
  <2>2. QED
    BY <1>2, <2>1
<1>4. CASE F # {}
  <2>1. PICK m \in F : \A k \in F : k <= m
    BY <1>2, <1>4, GreatestNatural
  <2>2. PICK B : B = {u \in S : u < m}
    OBVIOUS
  <2>3. Cardinality(B) < rate
    BY <2>1, <2>2
  <2>4. F \ {m} \subseteq B
    <3>1. ASSUME NEW k \in F, k # m PROVE k < m
      <4>1. k \in Nat /\ m \in Nat /\ k <= m
        BY <1>2, <2>1
      <4>2. QED
        BY ONLY <3>1, <4>1
    <3>2. QED
      BY <1>2, <2>2, <3>1
  <2>5. IsFiniteSet(B) /\ Cardinality(B) \in Nat
    BY <1>1, <2>2, FS_Subset, FS_CardinalityType
  <2>6. Cardinality(F \ {m}) <= Cardinality(B)
    BY <2>4, <2>5, FS_Subset
  <2>7. Cardinality(F \ {m}) = Cardinality(F) - 1
    BY <1>2, <2>1, FS_RemoveElement
  <2>8. QED
    BY ONLY <1>2, <2>3, <2>5, <2>6, <2>7, rate \in Nat
<1>5. QED
  BY <1>3, <1>4

\* OnTime lets at most rateNum accounts in.
LEMMA ServedBounded ==
  ASSUME LoginConfig, NEW rate \in Nat
  PROVE  Cardinality(Served(rate)) \in Nat /\ Cardinality(Served(rate)) <= rate
<1>1. PICK S : S = Tickets
  OBVIOUS
<1>2. PICK F : F = {t \in S : Cardinality({u \in S : u < t}) < rate}
  OBVIOUS
<1>3. S \subseteq 0 .. MaxTick /\ MaxTick \in Nat
  BY <1>1 DEF Tickets, LoginConfig
<1>4. F = Served(rate)
  BY <1>1, <1>2 DEF Served
<1>5. QED
  BY ONLY <1>2, <1>3, <1>4, rate \in Nat, FirstOfSet

\* What OnTime may let in when it sees so many players.
RoomFor(num) == IF num < LimitVal THEN RateMax ELSE AtLeastZero(LimitMax - num)
Cap == AtLeastZero(RoomFor(basis.num) - basis.extra)

\* The counters are naturals; what the last OnTime saw is one too, or -1.
LoginNumbers ==
  /\ ququeNum \in Nat /\ crossNum \in Nat /\ rateNum \in Nat /\ free \in Nat
  /\ basis.num \in Int /\ basis.extra \in Nat

\* The inductive invariant: neither the rate of this second nor the accounts let in since the
\* last OnTime exceed what that OnTime had room for.
RateInv == LoginNumbers /\ free <= crossNum /\ rateNum <= Cap /\ free <= Cap

\* The rate of a stage is never beyond the room that is left.
LEMMA StageRateBound ==
  ASSUME LoginConfig, NEW room \in Nat PROVE StageRate(room) \in Nat /\ StageRate(room) <= room
<1>1. PerStageNum \in Nat /\ PerStageNum > 0
  BY DEF LoginConfig, PerStageNum
<1>2. room \div PerStageNum + 1 \in Nat
  BY <1>1
<1>3. PICK q \in Nat : q = room \div PerStageNum + 1
  BY <1>2
<1>4. q * RateMax \in Nat
  BY <1>3 DEF LoginConfig
<1>5. PICK p \in Nat : p = q * RateMax
  BY <1>4
<1>6. p \div StageNum \in Nat
  BY <1>5 DEF LoginConfig
<1>7. QED
  BY <1>3, <1>5, <1>6 DEF StageRate

\* So is the new rate, and it takes account of those let in beyond the last one.
LEMMA NewRateBound ==
  ASSUME LoginConfig, RateInv
  PROVE  /\ NewRate \in Nat /\ ExtraCross \in Nat
         /\ NewRate <= AtLeastZero(RoomFor(ququeNum) - ExtraCross)
<1>1. ExtraCross \in Nat
  BY DEF RateInv, LoginNumbers, ExtraCross, AtLeastZero
<1>2. BaseRate \in Nat /\ BaseRate <= RoomFor(ququeNum)
  <2>1. CASE ququeNum < LimitVal
    BY <2>1 DEF BaseRate, RoomFor, LoginConfig
  <2>2. CASE ~(ququeNum < LimitVal) /\ LimitMax - ququeNum > 0
    <3>1. PICK room \in Nat : room = LimitMax - ququeNum
      BY <2>2 DEF RateInv, LoginNumbers, LoginConfig
    <3>2. StageRate(room) \in Nat /\ StageRate(room) <= room
      BY StageRateBound
    <3>3. QED
      BY <2>2, <3>1, <3>2 DEF BaseRate, RoomFor, AtLeastZero
  <2>3. CASE ~(ququeNum < LimitVal) /\ ~(LimitMax - ququeNum > 0)
    BY <2>3 DEF BaseRate, RoomFor, AtLeastZero, RateInv, LoginNumbers, LoginConfig
  <2>4. QED
    BY <2>1, <2>2, <2>3
<1>3. RoomFor(ququeNum) \in Nat
  BY DEF RoomFor, AtLeastZero, RateInv, LoginNumbers, LoginConfig
<1>4. QED
  BY <1>1, <1>2, <1>3 DEF NewRate, AtLeastZero

\* It holds before the first OnTime.
LEMMA InitRate ==
  ASSUME LoginConfig, LoginInit PROVE RateInv
  BY DEF LoginInit, LoginConfig, RateInv, LoginNumbers, Cap, RoomFor, AtLeastZero

\* Every step keeps it.
LEMMA NextRate ==
  ASSUME LoginConfig, RateInv, [LoginNext]_loginVars PROVE RateInv'
<1>1. ASSUME NEW notify \in BOOLEAN, OnTime(notify) PROVE RateInv'
  <2>1. PICK new \in Nat : new = NewRate
    BY NewRateBound
  <2>2. PICK x \in Nat : x = ExtraCross
    BY NewRateBound
  <2>3. PICK c \in Nat : c = Cardinality(Served(new)) /\ c <= new
    BY <2>1, ServedBounded
  <2>4. new <= AtLeastZero(RoomFor(ququeNum) - x)
    BY <2>1, <2>2, NewRateBound
  <2>5. /\ rateNum' = new /\ crossNum' = c /\ free' = c
        /\ basis' = [num |-> ququeNum, extra |-> x] /\ ququeNum' = ququeNum
    BY <1>1, <2>1, <2>2, <2>3 DEF OnTime
  <2>6. basis.num' = ququeNum /\ basis.extra' = x /\ ququeNum \in Nat
    BY <2>5 DEF RateInv, LoginNumbers
  <2>7. PICK cap \in Nat : cap = AtLeastZero(RoomFor(ququeNum) - x)
    <3>1. RoomFor(ququeNum) \in Nat
      BY DEF RoomFor, AtLeastZero, RateInv, LoginNumbers, LoginConfig
    <3>2. QED
      BY <3>1 DEF AtLeastZero
  <2>8. Cap' = cap
    BY <2>6, <2>7 DEF Cap, RoomFor
  <2>9. QED
    BY <2>3, <2>4, <2>5, <2>6, <2>7, <2>8 DEF RateInv, LoginNumbers
<1>2. ASSUME NEW a \in Accounts, EnterLoginQueue(a) PROVE RateInv'
  BY <1>2, SMTT(40) DEF EnterLoginQueue, RateInv, LoginNumbers, Cap, RoomFor, AtLeastZero, LoginConfig
<1>3. ASSUME NEW a \in Accounts, ForcePassLoginQueue(a) PROVE RateInv'
  BY <1>3 DEF ForcePassLoginQueue, RateInv, LoginNumbers, Cap, RoomFor, AtLeastZero, LoginConfig
<1>4. ASSUME NEW num \in QueueNums, UpdateQueueNum(num) PROVE RateInv'
  BY <1>4 DEF UpdateQueueNum, RateInv, LoginNumbers, Cap, RoomFor, AtLeastZero, LoginConfig
<1>5. CASE UNCHANGED loginVars
  BY <1>5 DEF loginVars, RateInv, LoginNumbers, Cap, RoomFor
<1>6. QED
  BY <1>1, <1>2, <1>3, <1>4, <1>5 DEF LoginNext, Timer, Forced

\* It says what LimitKept says.
LEMMA RateLimit == ASSUME RateInv PROVE LimitKept
  BY DEF RateInv, Cap, RoomFor, LimitKept

\* OnTime, EnterLoginQueue: between two OnTime no more accounts are let in unforced than there
\* was room for when the first one looked, whatever the numbers that UpdateQueueNum reports.
THEOREM LimitIsKept == LoginSpec => []LimitKept
<1> USE LoginConfigHolds
<1>1. LoginInit => RateInv
  BY InitRate
<1>2. RateInv /\ [LoginNext]_loginVars => RateInv'
  BY NextRate
<1>3. RateInv => LimitKept
  BY RateLimit
<1>4. QED
  BY <1>1, <1>2, <1>3, PTL DEF LoginSpec

(***************************************************************************)
(* The tickets in order.                                                   *)
(***************************************************************************)
\* The elements in front of x.
Before(S, x) == {u \in S : u < x}

\* How many they are: naturals, more for a greater element, fewer than there are in all.
LEMMA BeforeFacts ==
  ASSUME NEW b \in Nat, NEW S, S \subseteq 0 .. b
  PROVE  /\ IsFiniteSet(S) /\ Cardinality(S) \in Nat
         /\ \A x \in S : /\ IsFiniteSet(Before(S, x)) /\ Cardinality(Before(S, x)) \in Nat
                         /\ Cardinality(Before(S, x)) < Cardinality(S)
         /\ \A x, y \in S : x < y => Cardinality(Before(S, x)) < Cardinality(Before(S, y))
<1>1. IsFiniteSet(S) /\ Cardinality(S) \in Nat
  <2>1. IsFiniteSet(0 .. b)
    BY FS_Interval
  <2>2. IsFiniteSet(S)
    BY <2>1, FS_Subset
  <2>3. QED
    BY <2>2, FS_CardinalityType
<1>2. ASSUME NEW x \in S
      PROVE  /\ IsFiniteSet(Before(S, x)) /\ Cardinality(Before(S, x)) \in Nat
             /\ Cardinality(Before(S, x)) < Cardinality(S)
  <2>1. PICK B : B = Before(S, x)
    OBVIOUS
  <2>2. B \subseteq S /\ x \notin B
    BY <2>1 DEF Before
  <2>3. IsFiniteSet(B) /\ Cardinality(B) \in Nat /\ Cardinality(B) <= Cardinality(S)
    BY <1>1, <2>2, FS_Subset, FS_CardinalityType
  <2>4. Cardinality(B) # Cardinality(S)
    BY <1>1, <2>2, FS_Subset
  <2>5. QED
    BY <1>1, <2>1, <2>3, <2>4
<1>3. ASSUME NEW x \in S, NEW y \in S, x < y
      PROVE  Cardinality(Before(S, x)) < Cardinality(Before(S, y))
  <2>1. PICK A : A = Before(S, x)
    OBVIOUS
  <2>2. PICK B : B = Before(S, y)
    OBVIOUS
  <2>3. x \in Nat /\ y \in Nat
    OBVIOUS
  <2>4. A \subseteq B /\ x \in B /\ x \notin A
    <3>1. ASSUME NEW u \in A PROVE u \in B
      <4>1. u \in S /\ u < x
        BY <2>1 DEF Before
      <4>2. u \in Nat
        BY <4>1
      <4>3. u < y
        BY ONLY <1>3, <2>3, <4>1, <4>2
      <4>4. QED
        BY <2>2, <4>1, <4>3 DEF Before
    <3>2. x \in B
      BY <1>3, <2>2 DEF Before
    <3>3. x \notin A
      BY <2>1, <2>3 DEF Before
    <3>4. QED
      BY <3>1, <3>2, <3>3
  <2>5. IsFiniteSet(B) /\ Cardinality(B) \in Nat
    BY <1>2, <2>2
  <2>6. Cardinality(A) \in Nat
    BY <1>2, <2>1
  <2>7. Cardinality(A) <= Cardinality(B) /\ Cardinality(A) # Cardinality(B)
    BY <2>4, <2>5, FS_Subset
  <2>8. QED
    BY <2>1, <2>2, <2>5, <2>6, <2>7
<1>4. QED
  BY <1>1, <1>2, <1>3

\* Two different elements have different numbers of elements in front of them.
LEMMA SamePlace ==
  ASSUME NEW b \in Nat, NEW S, S \subseteq 0 .. b, NEW x \in S, NEW y \in S,
         Cardinality(Before(S, x)) = Cardinality(Before(S, y))
  PROVE  x = y
<1>1. x \in Nat /\ y \in Nat
  OBVIOUS
<1>2. /\ Cardinality(Before(S, x)) \in Nat /\ Cardinality(Before(S, y)) \in Nat
      /\ x < y => Cardinality(Before(S, x)) < Cardinality(Before(S, y))
      /\ y < x => Cardinality(Before(S, y)) < Cardinality(Before(S, x))
  BY BeforeFacts
<1>3. QED
  BY <1>1, <1>2

\* Sorted has every element at the place after those that are smaller.
LEMMA SortedFacts ==
  ASSUME NEW b \in Nat, NEW S, S \subseteq 0 .. b, NEW n, n = Cardinality(S)
  PROVE  /\ n \in Nat /\ Sorted(S) \in [1 .. n -> S]
         /\ \A i \in 1 .. n : Cardinality(Before(S, Sorted(S)[i])) = i - 1
         /\ \A x \in S : /\ Cardinality(Before(S, x)) + 1 \in 1 .. n
                         /\ Sorted(S)[Cardinality(Before(S, x)) + 1] = x
<1>1. IsFiniteSet(S) /\ n \in Nat
  BY BeforeFacts
<1>2. PICK f : f = [x \in S |-> Cardinality(Before(S, x)) + 1]
  OBVIOUS
<1>3. ASSUME NEW x \in S PROVE f[x] \in 1 .. n /\ f[x] = Cardinality(Before(S, x)) + 1
  <2>1. Cardinality(Before(S, x)) \in Nat /\ Cardinality(Before(S, x)) < n
    BY BeforeFacts
  <2>2. QED
    BY <1>1, <1>2, <2>1
<1>4. f \in [S -> 1 .. n]
  BY <1>2, <1>3
<1>5. ASSUME NEW x \in S, NEW y \in S, f[x] = f[y] PROVE x = y
  <2>1. Cardinality(Before(S, x)) \in Nat /\ Cardinality(Before(S, y)) \in Nat
    BY BeforeFacts
  <2>2. Cardinality(Before(S, x)) = Cardinality(Before(S, y))
    BY <1>3, <1>5, <2>1
  <2>3. QED
    BY <2>2, SamePlace
<1>6. f \in Injection(S, 1 .. n)
  BY <1>4, <1>5 DEF Injection, IsInjective
<1>7. IsFiniteSet(1 .. n) /\ Cardinality(1 .. n) = n
  BY <1>1, FS_Interval
<1>8. f \in Surjection(S, 1 .. n)
  BY <1>6, <1>7, FS_Injection
<1>9. ASSUME NEW i \in 1 .. n PROVE \E x \in S : f[x] = i
  BY <1>8 DEF Surjection
<1>10. ASSUME NEW i \in 1 .. n
       PROVE  Sorted(S)[i] \in S /\ Cardinality(Before(S, Sorted(S)[i])) = i - 1
  <2>1. Sorted(S)[i] = CHOOSE t \in S : Cardinality(Before(S, t)) = i - 1
    BY DEF Sorted, Before
  <2>2. PICK x \in S : f[x] = i
    BY <1>9
  <2>3. Cardinality(Before(S, x)) = i - 1
    <3>1. Cardinality(Before(S, x)) \in Nat
      BY BeforeFacts
    <3>2. QED
      BY <1>3, <2>2, <3>1
  <2>4. QED
    BY <2>1, <2>3
<1>11. Sorted(S) \in [1 .. n -> S]
  <2>1. Sorted(S) = [i \in 1 .. n |-> Sorted(S)[i]]
    BY DEF Sorted
  <2>2. QED
    BY <1>10, <2>1
<1>12. ASSUME NEW x \in S
       PROVE  /\ Cardinality(Before(S, x)) + 1 \in 1 .. n
              /\ Sorted(S)[Cardinality(Before(S, x)) + 1] = x
  <2>1. PICK i \in 1 .. n : i = Cardinality(Before(S, x)) + 1
    BY <1>3
  <2>2. PICK y \in S : y = Sorted(S)[i] /\ Cardinality(Before(S, y)) = i - 1
    BY <1>10
  <2>3. Cardinality(Before(S, x)) \in Nat
    BY BeforeFacts
  <2>4. Cardinality(Before(S, y)) = Cardinality(Before(S, x))
    BY <2>1, <2>2, <2>3
  <2>5. x = y
    BY <2>4, SamePlace
  <2>6. QED
    BY <2>1, <2>2, <2>5
<1>13. QED
  BY <1>1, <1>10, <1>11, <1>12

\* The elements of D in order are followed by those of E, if they are all smaller.
Below(D, E) == \A x \in D, y \in E : x < y

\* The sequence s is p, of length d, followed by q, of length e.
Joined(s, p, q, d, e) ==
  /\ \A i \in 1 .. d : s[i] = p[i]
  /\ \A i \in 1 .. e : s[d + i] = q[i]

\* The elements of D in order, followed by those of E, are those of both in order.
LEMMA SortedConcat ==
  ASSUME NEW b \in Nat, NEW D, D \subseteq 0 .. b, NEW E, E \subseteq 0 .. b,
         Below(D, E)
  PROVE  /\ Cardinality(D \cup E) = Cardinality(D) + Cardinality(E)
         /\ Joined(Sorted(D \cup E), Sorted(D), Sorted(E), Cardinality(D), Cardinality(E))
<1> DEFINE d == Cardinality(D)
           e == Cardinality(E)
<1>1. PICK S : S = D \cup E
  OBVIOUS
<1>2. S \subseteq 0 .. b
  BY <1>1
<1>3. IsFiniteSet(D) /\ d \in Nat /\ IsFiniteSet(E) /\ e \in Nat
  BY BeforeFacts
<1>4. D \cap E = {}
  <2>1. ASSUME NEW x \in D, x \in E PROVE FALSE
    <3>1. x < x /\ x \in Nat
      BY <2>1 DEF Below
    <3>2. QED
      BY <3>1
  <2>2. QED
    BY <2>1
<1>5. Cardinality(S) = d + e
  <2>1. Cardinality(D \cap E) = 0
    BY <1>4, FS_EmptySet, Zenon
  <2>2. Cardinality(S) = d + e - Cardinality(D \cap E)
    BY <1>1, <1>3, FS_Union
  <2>3. QED
    BY <1>3, <2>1, <2>2
<1>6. ASSUME NEW i \in 1 .. d PROVE Sorted(S)[i] = Sorted(D)[i]
  <2>1. PICK x \in D : x = Sorted(D)[i] /\ Cardinality(Before(D, x)) = i - 1
    <3>1. /\ Sorted(D) \in [1 .. d -> D]
          /\ \A k \in 1 .. d : Cardinality(Before(D, Sorted(D)[k])) = k - 1
      BY SortedFacts
    <3>2. QED
      BY <3>1
  <2>2. Before(S, x) = Before(D, x)
    <3>1. ASSUME NEW u \in E PROVE ~(u < x)
      <4>1. x < u /\ x \in Nat /\ u \in Nat
        BY DEF Below
      <4>2. QED
        BY ONLY <4>1
    <3>2. QED
      BY <1>1, <3>1 DEF Before
  <2>3. Cardinality(Before(S, x)) + 1 = i
    BY <1>3, <2>1, <2>2
  <2>4. x \in S
    BY <1>1
  <2>5. Sorted(S)[Cardinality(Before(S, x)) + 1] = x
    BY <1>2, <2>4, SortedFacts
  <2>6. QED
    BY <2>1, <2>3, <2>5
<1>7. ASSUME NEW i \in 1 .. e PROVE Sorted(S)[d + i] = Sorted(E)[i]
  <2>1. PICK x \in E : x = Sorted(E)[i] /\ Cardinality(Before(E, x)) = i - 1
    <3>1. /\ Sorted(E) \in [1 .. e -> E]
          /\ \A k \in 1 .. e : Cardinality(Before(E, Sorted(E)[k])) = k - 1
      BY SortedFacts
    <3>2. QED
      BY <3>1
  <2>2. PICK B : B = Before(E, x)
    OBVIOUS
  <2>3. Before(S, x) = D \cup B
    BY <1>1, <2>2 DEF Before, Below
  <2>4. IsFiniteSet(B) /\ Cardinality(B) = i - 1
    BY <2>1, <2>2, BeforeFacts
  <2>5. D \cap B = {}
    BY <1>4, <2>2 DEF Before
  <2>6. Cardinality(D \cap B) = 0
    BY <2>5, FS_EmptySet, Zenon
  <2>7. Cardinality(D \cup B) = d + Cardinality(B) - Cardinality(D \cap B)
    BY <1>3, <2>4, FS_Union
  <2>8. Cardinality(Before(S, x)) + 1 = d + i
    BY <1>3, <2>3, <2>4, <2>6, <2>7
  <2>9. x \in S
    BY <1>1
  <2>10. Sorted(S)[Cardinality(Before(S, x)) + 1] = x
    BY <1>2, <2>9, SortedFacts
  <2>11. QED
    BY <2>1, <2>8, <2>10
<1>8. QED
  BY <1>1, <1>5, <1>6, <1>7 DEF Joined

\* The accounts f of the tickets S in order.
LineOf(f, S) == [i \in 1 .. Cardinality(S) |-> f[Sorted(S)[i]]]

\* Every ticket of S is one of an account.
Into(f, S, A) == \A x \in S : f[x] \in A

\* A line is a sequence of accounts.
LEMMA LineFacts ==
  ASSUME NEW b \in Nat, NEW S, S \subseteq 0 .. b, NEW f, NEW A, Into(f, S, A)
  PROVE  /\ LineOf(f, S) \in Seq(A) /\ Len(LineOf(f, S)) = Cardinality(S)
         /\ DOMAIN LineOf(f, S) = 1 .. Cardinality(S)
<1>1. PICK n \in Nat : n = Cardinality(S)
  BY BeforeFacts
<1>2. \A i \in 1 .. n : Sorted(S)[i] \in S
  BY <1>1, SortedFacts, ZenonT(40)
<1>3. LineOf(f, S) = [i \in 1 .. n |-> f[Sorted(S)[i]]]
  BY <1>1 DEF LineOf
<1>4. LineOf(f, S) \in [1 .. n -> A]
  BY <1>2, <1>3 DEF Into
<1>5. \A i \in 1 .. n : LineOf(f, S)[i] = f[Sorted(S)[i]]
  BY <1>3
<1>6. LineOf(f, S) \in Seq(A) /\ Len(LineOf(f, S)) = n /\ DOMAIN LineOf(f, S) = 1 .. n
  BY <1>4
<1>7. QED
  BY <1>1, <1>6

\* It depends on the tickets in it only.
LEMMA LineSame ==
  ASSUME NEW b \in Nat, NEW S, S \subseteq 0 .. b, NEW f, NEW g, \A x \in S : f[x] = g[x]
  PROVE  LineOf(f, S) = LineOf(g, S)
<1>1. \A i \in 1 .. Cardinality(S) : Sorted(S)[i] \in S
  BY SortedFacts
<1>2. \A i \in 1 .. Cardinality(S) : f[Sorted(S)[i]] = g[Sorted(S)[i]]
  BY <1>1
<1>3. QED
  BY <1>2 DEF LineOf

\* The tickets below b are D and those from b on E, and f gives each its account in A.
Splits(b, D, E, f, A) ==
  /\ b \in Nat /\ D \subseteq 0 .. b /\ E \subseteq 0 .. b
  /\ Below(D, E) /\ Into(f, D, A) /\ Into(f, E, A)

\* A line is that of its first tickets followed by that of the others.
LEMMA LineConcat ==
  ASSUME NEW b, NEW D, NEW E, NEW f, NEW A, Splits(b, D, E, f, A), NEW S, S = D \cup E
  PROVE  LineOf(f, S) = LineOf(f, D) \o LineOf(f, E)
<1> b \in Nat /\ D \subseteq 0 .. b /\ E \subseteq 0 .. b
  BY DEF Splits
<1> Below(D, E) /\ Into(f, D, A) /\ Into(f, E, A)
  BY DEF Splits
<1>1. S = D \cup E
  OBVIOUS
<1>2. PICK d \in Nat : d = Cardinality(D)
  BY BeforeFacts
<1>3. PICK e \in Nat : e = Cardinality(E)
  BY BeforeFacts
<1>4. /\ Cardinality(S) = d + e
      /\ \A i \in 1 .. d : Sorted(S)[i] = Sorted(D)[i]
      /\ \A i \in 1 .. e : Sorted(S)[d + i] = Sorted(E)[i]
  <2>1. /\ Cardinality(D \cup E) = Cardinality(D) + Cardinality(E)
        /\ Joined(Sorted(D \cup E), Sorted(D), Sorted(E), Cardinality(D), Cardinality(E))
    BY SortedConcat
  <2>2. Cardinality(S) = d + e /\ Joined(Sorted(S), Sorted(D), Sorted(E), d, e)
    BY <1>1, <1>2, <1>3, <2>1
  <2>3. QED
    BY ONLY <2>2 DEF Joined
<1>5. PICK p \in Seq(A) : p = LineOf(f, D)
  BY LineFacts
<1>6. PICK q \in Seq(A) : q = LineOf(f, E)
  BY LineFacts
<1>7. PICK r \in Seq(A) : r = LineOf(f, S)
  <2>1. Into(f, S, A) /\ S \subseteq 0 .. b
    BY <1>1 DEF Into
  <2>2. QED
    BY <2>1, LineFacts
<1>8. Len(p) = d /\ \A i \in 1 .. d : p[i] = f[Sorted(D)[i]]
  BY <1>2, <1>5 DEF LineOf
<1>9. Len(q) = e /\ \A i \in 1 .. e : q[i] = f[Sorted(E)[i]]
  BY <1>3, <1>6 DEF LineOf
<1>10. Len(r) = d + e /\ \A i \in 1 .. d + e : r[i] = f[Sorted(S)[i]]
  BY <1>4, <1>7 DEF LineOf
<1>11. p \o q \in Seq(A) /\ Len(p \o q) = d + e
  BY <1>8, <1>9, SMTT(40)
<1>12. \A i \in 1 .. d : (p \o q)[i] = p[i]
  BY <1>8, <1>9
<1>13. \A i \in 1 .. e : (p \o q)[d + i] = q[i]
  BY <1>8, <1>9
<1>14. ASSUME NEW i \in 1 .. d + e PROVE r[i] = (p \o q)[i]
  <2>1. CASE i \in 1 .. d
    <3>1. r[i] = p[i]
      <4>1. i \in 1 .. d + e
        OBVIOUS
      <4>2. r[i] = f[Sorted(S)[i]]
        BY ONLY <1>10, <4>1
      <4>3. Sorted(S)[i] = Sorted(D)[i]
        BY ONLY <1>4, <2>1
      <4>4. p[i] = f[Sorted(D)[i]]
        BY ONLY <1>8, <2>1
      <4>5. QED
        BY ONLY <4>2, <4>3, <4>4
    <3>2. (p \o q)[i] = p[i]
      BY <1>12, <2>1
    <3>3. QED
      BY <3>1, <3>2
  <2>2. CASE i \notin 1 .. d
    <3>1. PICK k \in 1 .. e : i = d + k
      <4>1. i - d \in 1 .. e
        BY <2>2
      <4>2. QED
        BY <4>1
    <3>2. r[i] = q[k]
      <4>1. i \in 1 .. d + e
        OBVIOUS
      <4>2. r[i] = f[Sorted(S)[i]]
        BY ONLY <1>10, <4>1
      <4>3. Sorted(S)[i] = Sorted(E)[k]
        BY ONLY <1>4, <3>1
      <4>4. q[k] = f[Sorted(E)[k]]
        BY ONLY <1>9, <3>1
      <4>5. QED
        BY ONLY <4>2, <4>3, <4>4
    <3>3. (p \o q)[i] = q[k]
      BY <1>13, <3>1
    <3>4. QED
      BY <3>2, <3>3
  <2>3. QED
    BY <2>1, <2>2
<1>15. r = p \o q
  BY ONLY <1>10, <1>14, <1>11, r \in Seq(A), d \in Nat, e \in Nat
<1>16. QED
  BY <1>1, <1>5, <1>6, <1>7, <1>15

\* While the second's share is not used up, nobody waits.
ShareInv == crossNum < rateNum => Tickets = {}

\* OnTime serves the tickets from the front, and all of them unless the rate is used up.
LEMMA ServedFirst ==
  ASSUME LoginConfig, NEW rate \in Nat
  PROVE  /\ Served(rate) \subseteq Tickets
         /\ Below(Served(rate), Tickets \ Served(rate))
         /\ Cardinality(Served(rate)) < rate => Served(rate) = Tickets
<1>1. PICK S : S = Tickets
  OBVIOUS
<1>2. PICK F : F = Served(rate)
  OBVIOUS
<1>3. PICK b \in Nat : S \subseteq 0 .. b
  BY <1>1 DEF Tickets, LoginConfig
<1>4. F = {t \in S : Cardinality(Before(S, t)) < rate}
  BY <1>1, <1>2 DEF Served, Before
<1>5. ASSUME NEW x \in F, NEW y \in S \ F PROVE x < y
  <2>1. x \in Nat /\ y \in Nat /\ x \in S /\ y \in S
    BY <1>3, <1>4
  <2>2. Cardinality(Before(S, x)) < rate /\ ~(Cardinality(Before(S, y)) < rate)
    BY <1>4
  <2>3. /\ Cardinality(Before(S, x)) \in Nat /\ Cardinality(Before(S, y)) \in Nat
        /\ y < x => Cardinality(Before(S, y)) < Cardinality(Before(S, x))
    BY <1>3, <2>1, BeforeFacts
  <2>4. QED
    BY <2>1, <2>2, <2>3
<1>6. ASSUME Cardinality(F) < rate, NEW y \in S, y \notin F PROVE FALSE
  <2>1. S \ F # {} /\ S \ F \subseteq Nat
    <3>1. \A u \in S : u \in Nat
      BY <1>3
    <3>2. QED
      BY <1>6, <3>1
  <2>2. PICK m \in S \ F : \A k \in S \ F : m <= k
    BY <2>1, LeastNatural
  <2>3. ASSUME NEW u \in Before(S, m) PROVE u \in F
    <3>1. u \in S /\ u < m
      BY DEF Before
    <3>2. u \in Nat /\ m \in Nat
      BY <1>3, <3>1
    <3>3. u \in S \ F => m <= u
      BY <2>2
    <3>4. QED
      BY <3>1, <3>2, <3>3
  <2>4. IsFiniteSet(F) /\ Cardinality(F) \in Nat
    <3>1. IsFiniteSet(S)
      BY <1>3, BeforeFacts
    <3>2. QED
      BY <1>4, <3>1, FS_Subset, FS_CardinalityType
  <2>5. Cardinality(Before(S, m)) <= Cardinality(F)
    BY <2>3, <2>4, FS_Subset
  <2>6. Cardinality(Before(S, m)) \in Nat /\ ~(Cardinality(Before(S, m)) < rate)
    BY <1>3, <1>4, BeforeFacts
  <2>7. QED
    BY <1>6, <2>4, <2>5, <2>6
<1>7. F \subseteq S
  BY <1>4
<1>8. QED
  BY <1>1, <1>2, <1>5, <1>6, <1>7 DEF Below

\* The inductive invariant of the refinement: the two maps agree, and whoever finds that the
\* share of the second is not used up finds nobody waiting.
LoginInv == RateInv /\ LoginTypeOK /\ ShareInv

\* It holds at first.
LEMMA InitLogin ==
  ASSUME LoginConfig, LoginInit PROVE LoginInv
<1>1. Tickets = {}
  BY DEF LoginInit, Tickets
<1>2. LoginTypeOK
  BY <1>1 DEF LoginInit, LoginTypeOK, LoginConfig
<1>3. QED
  BY <1>1, <1>2, InitRate DEF LoginInv, ShareInv

\* What OnTime does to the tickets.
LEMMA OnTimeTickets ==
  ASSUME LoginConfig, NEW notify, OnTime(notify), NEW F, F = Served(NewRate)
  PROVE  /\ Tickets' = Tickets \ F
         /\ \A t \in Tickets' : tickIndex'[t] = tickIndex[t]
<1>1. tickIndex' = [t \in 1 .. MaxTick |-> IF t \in F THEN None ELSE tickIndex[t]]
  BY DEF OnTime
<1>2. QED
  BY <1>1 DEF Tickets

\* OnTime keeps it.
LEMMA OnTimeLogin ==
  ASSUME LoginConfig, LoginInv, RateInv', NEW notify \in BOOLEAN, OnTime(notify) PROVE LoginInv'
<1>1. PICK F : F = Served(NewRate)
  OBVIOUS
<1>2. NewRate \in Nat
  BY NewRateBound DEF LoginInv
<1>3. F \subseteq Tickets /\ (Cardinality(F) < NewRate => F = Tickets)
  BY <1>1, <1>2, ServedFirst
<1>4. Tickets' = Tickets \ F /\ \A t \in Tickets' : tickIndex'[t] = tickIndex[t]
  BY <1>1, OnTimeTickets
<1>5. ShareInv'
  <2>1. crossNum' = Cardinality(F) /\ rateNum' = NewRate
    BY <1>1 DEF OnTime
  <2>2. QED
    BY <1>3, <1>4, <2>1 DEF ShareInv
<1>6. tickIndex' = [t \in 1 .. MaxTick |-> IF t \in F THEN None ELSE tickIndex[t]]
  BY <1>1 DEF OnTime
<1>7. waitAccount' = [a \in Accounts |-> IF \E t \in F : tickIndex[t] = a THEN 0
                                          ELSE waitAccount[a]]
  BY <1>1 DEF OnTime
<1>8. tickId' \in 0 .. MaxTick /\ (Tickets' # {} => tickId' = tickId)
  <2>1. tickId' = NextTick(Tickets \ F, notify)
    BY <1>1 DEF OnTime
  <2>2. tickId \in 0 .. MaxTick
    BY DEF LoginInv, LoginTypeOK
  <2>3. QED
    BY <1>4, <2>1, <2>2 DEF NextTick, LoginConfig
<1>9. /\ waitAccount \in [Accounts -> 0 .. MaxTick]
      /\ tickIndex \in [1 .. MaxTick -> Accounts \cup {None}]
      /\ \A a \in Accounts : waitAccount[a] # 0 => tickIndex[waitAccount[a]] = a
      /\ \A t \in Tickets : waitAccount[tickIndex[t]] = t /\ t <= tickId
  BY DEF LoginInv, LoginTypeOK
<1>10. waitAccount' \in [Accounts -> 0 .. MaxTick]
  <2>1. 0 \in 0 .. MaxTick
    BY DEF LoginConfig
  <2>2. \A a \in Accounts : waitAccount[a] \in 0 .. MaxTick
    BY <1>9
  <2>3. QED
    BY <1>7, <2>1, <2>2
<1>11. tickIndex' \in [1 .. MaxTick -> Accounts \cup {None}]
  BY <1>6, <1>9
<1>12. ASSUME NEW a \in Accounts, waitAccount'[a] # 0
       PROVE  tickIndex'[waitAccount'[a]] = a
  <2>1. waitAccount'[a] = waitAccount[a] /\ ~ \E t \in F : tickIndex[t] = a
    BY <1>7, <1>12
  <2>2. tickIndex[waitAccount[a]] = a /\ waitAccount[a] \in 0 .. MaxTick
    BY <1>9, <1>12, <2>1
  <2>3. waitAccount[a] \notin F
    BY <2>1, <2>2
  <2>4. waitAccount[a] \in 1 .. MaxTick
    BY <1>12, <2>1, <2>2 DEF LoginConfig
  <2>5. QED
    BY <1>6, <2>1, <2>2, <2>3, <2>4
<1>13. ASSUME NEW t \in Tickets' PROVE waitAccount'[tickIndex'[t]] = t /\ t <= tickId'
  <2>1. t \in Tickets /\ t \notin F /\ tickIndex'[t] = tickIndex[t] /\ tickId' = tickId
    BY <1>4, <1>8
  <2>2. tickIndex[t] \in Accounts
    BY <1>9, <2>1 DEF Tickets
  <2>3. ~ \E u \in F : tickIndex[u] = tickIndex[t]
    <3>1. ASSUME NEW u \in F, tickIndex[u] = tickIndex[t] PROVE FALSE
      <4>1. waitAccount[tickIndex[u]] = u /\ waitAccount[tickIndex[t]] = t
        BY <1>3, <1>9, <2>1
      <4>2. QED
        BY <2>1, <3>1, <4>1
    <3>2. QED
      BY <3>1
  <2>4. waitAccount'[tickIndex[t]] = waitAccount[tickIndex[t]]
    BY <1>7, <2>2, <2>3
  <2>5. QED
    BY <1>9, <2>1, <2>4
<1>14. LoginTypeOK'
  <2>1. ququeNum' \in Nat /\ crossNum' \in Nat /\ rateNum' \in Nat
    BY DEF RateInv, LoginNumbers
  <2>2. QED
    BY <1>8, <1>10, <1>11, <1>12, <1>13, <2>1 DEF LoginTypeOK
<1>15. QED
  BY <1>5, <1>14 DEF LoginInv

\* EnterLoginQueue keeps it.
LEMMA EnterLogin ==
  ASSUME LoginConfig, LoginInv, RateInv', NEW a \in Accounts, EnterLoginQueue(a) PROVE LoginInv'
<1>1. CASE UNCHANGED maps /\ tickId' = tickId /\ crossNum < rateNum /\ rateNum' = rateNum
  <2>1. Tickets' = Tickets /\ Tickets = {}
    BY <1>1 DEF Tickets, maps, LoginInv, ShareInv
  <2>2. QED
    BY <1>1, <2>1 DEF LoginInv, LoginTypeOK, ShareInv, maps, RateInv, LoginNumbers
<1>2. CASE /\ crossNum >= rateNum /\ tickId < MaxTick /\ tickId' = tickId + 1
           /\ waitAccount' = [waitAccount EXCEPT ![a] = tickId + 1]
           /\ tickIndex' = [tickIndex EXCEPT ![tickId + 1] = a]
           /\ crossNum' = crossNum /\ rateNum' = rateNum
  <2>1. PICK t \in 1 .. MaxTick : t = tickId + 1
    BY <1>2 DEF LoginInv, LoginTypeOK, LoginConfig
  <2>2. /\ waitAccount \in [Accounts -> 0 .. MaxTick]
        /\ tickIndex \in [1 .. MaxTick -> Accounts \cup {None}]
        /\ \A c \in Accounts : waitAccount[c] # 0 => tickIndex[waitAccount[c]] = c
        /\ \A u \in Tickets : waitAccount[tickIndex[u]] = u /\ u <= tickId
        /\ tickId \in Nat /\ waitAccount[a] = 0
    BY DEF LoginInv, LoginTypeOK, LoginConfig, EnterLoginQueue
  <2>3. t \notin Tickets /\ tickIndex[t] = None
    <3>1. t \notin Tickets
      BY <2>1, <2>2
    <3>2. QED
      BY <3>1 DEF Tickets
  <2>4. waitAccount' = [waitAccount EXCEPT ![a] = t] /\ tickIndex' = [tickIndex EXCEPT ![t] = a]
    BY <1>2, <2>1
  <2>5. a # None
    BY DEF LoginConfig
  <2>6. Tickets' = Tickets \cup {t}
    BY <2>2, <2>4, <2>5 DEF Tickets
  <2>7. t \in 0 .. MaxTick /\ t # 0
    BY <2>1 DEF LoginConfig
  <2>8. ASSUME NEW c \in Accounts, waitAccount'[c] # 0 PROVE tickIndex'[waitAccount'[c]] = c
    <3>1. CASE c = a
      BY <2>2, <2>4, <3>1
    <3>2. CASE c # a
      <4>1. waitAccount'[c] = waitAccount[c] /\ tickIndex[waitAccount[c]] = c
        BY <2>2, <2>4, <2>8, <3>2
      <4>2. waitAccount[c] # t
        BY <2>3, <4>1 DEF LoginConfig
      <4>3. waitAccount[c] \in 1 .. MaxTick
        <5>1. waitAccount[c] \in 0 .. MaxTick /\ waitAccount[c] # 0
          BY <2>2, <2>8, <4>1
        <5>2. QED
          BY <5>1 DEF LoginConfig
      <4>4. QED
        BY <2>2, <2>4, <4>1, <4>2, <4>3
    <3>3. QED
      BY <3>1, <3>2
  <2>9. ASSUME NEW u \in Tickets' PROVE waitAccount'[tickIndex'[u]] = u /\ u <= tickId'
    <3>1. CASE u = t
      BY <1>2, <2>1, <2>2, <2>4, <3>1
    <3>2. CASE u \in Tickets /\ u # t
      <4>1. tickIndex'[u] = tickIndex[u] /\ waitAccount[tickIndex[u]] = u /\ u <= tickId
        BY <2>2, <2>4, <3>2
      <4>2. u \in 1 .. MaxTick /\ u \in Nat /\ tickIndex[u] \in Accounts
        BY <2>2, <3>2 DEF Tickets
      <4>3. tickIndex[u] # a
        BY <2>2, <4>1, <4>2
      <4>4. waitAccount'[tickIndex[u]] = u
        BY <2>2, <2>4, <4>1, <4>2, <4>3
      <4>5. u <= tickId'
        BY <1>2, <2>2, <4>1, <4>2
      <4>6. QED
        BY <4>1, <4>4, <4>5
    <3>3. QED
      BY <2>6, <3>1, <3>2
  <2>10. /\ waitAccount' \in [Accounts -> 0 .. MaxTick]
         /\ tickIndex' \in [1 .. MaxTick -> Accounts \cup {None}]
    BY <2>2, <2>4, <2>7
  <2>11. LoginTypeOK'
    <3>1. ququeNum' \in Nat /\ crossNum' \in Nat /\ rateNum' \in Nat
      BY DEF RateInv, LoginNumbers
    <3>2. tickId' \in 0 .. MaxTick
      BY <1>2, <2>1, <2>7
    <3>3. QED
      BY <2>8, <2>9, <2>10, <3>1, <3>2 DEF LoginTypeOK
  <2>12. ShareInv'
    BY <1>2 DEF ShareInv, RateInv, LoginNumbers
  <2>13. QED
    BY <2>11, <2>12 DEF LoginInv
<1>3. QED
  BY <1>1, <1>2 DEF EnterLoginQueue

\* A forced account leaves its ticket behind.
LEMMA ForceLogin ==
  ASSUME LoginConfig, LoginInv, RateInv', NEW a \in Accounts, ForcePassLoginQueue(a)
  PROVE  /\ LoginInv' /\ waitAccount[a] \in Tickets /\ tickIndex[waitAccount[a]] = a
         /\ Tickets' = Tickets \ {waitAccount[a]}
         /\ \A u \in Tickets' : tickIndex'[u] = tickIndex[u]
<1>1. /\ waitAccount \in [Accounts -> 0 .. MaxTick]
      /\ tickIndex \in [1 .. MaxTick -> Accounts \cup {None}]
      /\ \A c \in Accounts : waitAccount[c] # 0 => tickIndex[waitAccount[c]] = c
      /\ \A u \in Tickets : waitAccount[tickIndex[u]] = u /\ u <= tickId
      /\ tickId \in 0 .. MaxTick
  BY DEF LoginInv, LoginTypeOK
<1>2. PICK t \in 1 .. MaxTick : t = waitAccount[a]
  <2>1. waitAccount[a] \in 0 .. MaxTick /\ waitAccount[a] # 0
    BY <1>1 DEF ForcePassLoginQueue
  <2>2. QED
    BY <2>1 DEF LoginConfig
<1>3. tickIndex[t] = a /\ t \in Tickets
  <2>1. tickIndex[t] = a
    BY <1>1, <1>2 DEF ForcePassLoginQueue
  <2>2. QED
    BY <2>1 DEF Tickets, LoginConfig
<1>4. /\ waitAccount' = [waitAccount EXCEPT ![a] = 0]
      /\ tickIndex' = [tickIndex EXCEPT ![t] = None]
      /\ tickId' = tickId /\ crossNum' = crossNum + 1 /\ rateNum' = rateNum
  BY <1>2 DEF ForcePassLoginQueue
<1>5. Tickets' = Tickets \ {t}
  BY <1>1, <1>4 DEF Tickets
<1>6. \A u \in Tickets' : tickIndex'[u] = tickIndex[u]
  BY <1>1, <1>4, <1>5
<1>7. ASSUME NEW c \in Accounts, waitAccount'[c] # 0 PROVE tickIndex'[waitAccount'[c]] = c
  <2>1. c # a /\ waitAccount'[c] = waitAccount[c] /\ tickIndex[waitAccount[c]] = c
    BY <1>1, <1>4, <1>7
  <2>2. waitAccount[c] # t
    BY <1>3, <2>1
  <2>3. waitAccount[c] \in 1 .. MaxTick
    <3>1. waitAccount[c] \in 0 .. MaxTick /\ waitAccount[c] # 0
      BY <1>1, <1>7, <2>1
    <3>2. QED
      BY <3>1 DEF LoginConfig
  <2>4. QED
    BY <1>1, <1>4, <2>1, <2>2, <2>3
<1>8. ASSUME NEW u \in Tickets' PROVE waitAccount'[tickIndex'[u]] = u /\ u <= tickId'
  <2>1. u \in Tickets /\ u # t /\ tickIndex'[u] = tickIndex[u]
    BY <1>5, <1>6
  <2>2. waitAccount[tickIndex[u]] = u /\ u <= tickId /\ tickIndex[u] \in Accounts
    BY <1>1, <2>1 DEF Tickets
  <2>3. tickIndex[u] # a
    BY <1>2, <2>1, <2>2
  <2>4. QED
    BY <1>1, <1>4, <2>1, <2>2, <2>3
<1>9. /\ waitAccount' \in [Accounts -> 0 .. MaxTick]
      /\ tickIndex' \in [1 .. MaxTick -> Accounts \cup {None}]
  BY <1>1, <1>4 DEF LoginConfig
<1>10. LoginTypeOK'
  <2>1. ququeNum' \in Nat /\ crossNum' \in Nat /\ rateNum' \in Nat
    BY DEF RateInv, LoginNumbers
  <2>2. QED
    BY <1>1, <1>4, <1>7, <1>8, <1>9, <2>1 DEF LoginTypeOK
<1>11. ShareInv'
  BY <1>4, <1>5 DEF ShareInv, LoginInv, RateInv, LoginNumbers
<1>12. QED
  BY <1>2, <1>3, <1>5, <1>6, <1>10, <1>11 DEF LoginInv

\* UpdateQueueNum keeps it.
LEMMA QuietLogin ==
  ASSUME LoginInv, RateInv', UNCHANGED <<tickId, crossNum, rateNum, maps>> PROVE LoginInv'
<1>1. Tickets' = Tickets
  BY DEF Tickets, maps
<1>2. QED
  BY <1>1 DEF LoginInv, LoginTypeOK, ShareInv, maps, RateInv, LoginNumbers

\* Every step keeps it.
LEMMA NextLogin ==
  ASSUME LoginConfig, LoginInv, [LoginNext]_loginVars PROVE LoginInv'
<1>1. RateInv'
  BY NextRate DEF LoginInv
<1>2. ASSUME NEW num \in QueueNums, UpdateQueueNum(num) PROVE LoginInv'
  BY <1>1, <1>2, QuietLogin DEF UpdateQueueNum
<1>3. CASE UNCHANGED loginVars
  BY <1>1, <1>3, QuietLogin DEF loginVars
<1>4. QED
  BY <1>1, <1>2, <1>3, OnTimeLogin, EnterLogin, ForceLogin DEF LoginNext, Timer, Forced

(***************************************************************************)
(* LoginControl implements LoginQueue.                                     *)
(***************************************************************************)
\* The tickets are a finite set, each of an account.
LEMMA TicketsOfAccounts ==
  ASSUME LoginConfig, LoginTypeOK
  PROVE  /\ Tickets \subseteq 0 .. MaxTick /\ MaxTick \in Nat
         /\ \A t \in Tickets : tickIndex[t] \in Accounts
  BY DEF Tickets, LoginTypeOK, LoginConfig

\* At first nobody waits.
LEMMA InitLine ==
  ASSUME LoginConfig, LoginInit PROVE Line!Init
<1>1. Tickets = {}
  BY DEF LoginInit, Tickets
<1>2. Cardinality(Tickets) = 0
  BY <1>1, FS_EmptySet, Zenon
<1>3. InOrder(Tickets) = <<>>
  BY <1>2 DEF InOrder
<1>4. QED
  BY <1>3 DEF Line!Init, LoginInit

\* OnTime serves the queue from the front.
LEMMA OnTimeLine ==
  ASSUME LoginConfig, LoginInv, LoginInv', NEW notify \in BOOLEAN, OnTime(notify) PROVE Line!Next
<1>1. PICK F : F = Served(NewRate)
  OBVIOUS
<1>2. NewRate \in Nat
  BY NewRateBound DEF LoginInv
<1>3. PICK R : R = Tickets \ F
  OBVIOUS
<1>4. F \cup R = Tickets /\ Below(F, R)
  BY <1>1, <1>2, <1>3, ServedFirst
<1>5. Tickets' = R /\ \A t \in R : tickIndex'[t] = tickIndex[t]
  BY <1>1, <1>3, OnTimeTickets
<1>6. PICK b \in Nat : Tickets \subseteq 0 .. b /\ \A t \in Tickets : tickIndex[t] \in Accounts
  BY TicketsOfAccounts DEF LoginInv
<1>7. PICK f : f = tickIndex
  OBVIOUS
<1>8. PICK g : g = tickIndex'
  OBVIOUS
<1>9. PICK p : p = LineOf(f, F)
  OBVIOUS
<1>10. PICK q : q = LineOf(f, R)
  OBVIOUS
<1>11. /\ F \subseteq 0 .. b /\ R \subseteq 0 .. b
       /\ Into(f, F, Accounts) /\ Into(f, R, Accounts)
  BY <1>4, <1>6, <1>7 DEF Into
<1>12. p \in Seq(Accounts) /\ q \in Seq(Accounts)
  BY <1>9, <1>10, <1>11, LineFacts
<1>13. InOrder(Tickets) = p \o q
  <2>1. LineOf(f, F \cup R) = p \o q
    <3>1. Splits(b, F, R, f, Accounts)
      BY <1>4, <1>11 DEF Splits
    <3>2. PICK S : S = F \cup R
      OBVIOUS
    <3>3. LineOf(f, S) = LineOf(f, F) \o LineOf(f, R)
      BY ONLY <3>1, <3>2, LineConcat
    <3>4. QED
      BY <1>9, <1>10, <3>2, <3>3
  <2>2. QED
    BY <1>4, <1>7, <2>1 DEF InOrder, LineOf
<1>14. InOrder(Tickets)' = q
  <2>1. LineOf(g, R) = LineOf(f, R)
    <3>1. \A t \in R : g[t] = f[t]
      BY <1>5, <1>7, <1>8
    <3>2. QED
      BY <1>11, <3>1, LineSame
  <2>2. InOrder(Tickets)' = LineOf(g, R)
    BY <1>5, <1>8 DEF InOrder, LineOf
  <2>3. QED
    BY <1>10, <2>1, <2>2
<1>15. passed' = p
  BY <1>1, <1>7, <1>9 DEF OnTime, InOrder, LineOf
<1>16. /\ Len(p) \in 0 .. Len(p \o q)
       /\ p = SubSeq(p \o q, 1, Len(p)) /\ q = SubSeq(p \o q, Len(p) + 1, Len(p \o q))
  BY ONLY <1>12
<1>17. QED
  BY <1>13, <1>14, <1>15, <1>16 DEF Line!Next, Line!Serve

\* EnterLoginQueue appends to the queue, lets the account in when nobody waits, or does nothing.
LEMMA EnterLine ==
  ASSUME LoginConfig, LoginInv, LoginInv', NEW a \in Accounts, EnterLoginQueue(a) PROVE Line!Next
<1>1. CASE UNCHANGED maps /\ crossNum < rateNum /\ passed' = <<a>>
  <2>1. Tickets = {} /\ Tickets' = {}
    BY <1>1 DEF LoginInv, ShareInv, Tickets, maps
  <2>2. Cardinality(Tickets) = 0 /\ Cardinality(Tickets') = 0
    BY <2>1, FS_EmptySet, Zenon
  <2>3. InOrder(Tickets) = <<>>
    BY <2>2 DEF InOrder
  <2>4. InOrder(Tickets)' = <<>>
    BY <2>2 DEF InOrder
  <2>5. QED
    BY <1>1, <2>3, <2>4 DEF Line!Next, Line!Pass
<1>2. CASE /\ tickId < MaxTick /\ tickIndex' = [tickIndex EXCEPT ![tickId + 1] = a]
           /\ passed' = <<>>
  <2>1. PICK t \in 1 .. MaxTick : t = tickId + 1
    BY <1>2 DEF LoginInv, LoginTypeOK, LoginConfig
  <2>2. PICK S : S = Tickets
    OBVIOUS
  <2>3. /\ tickIndex \in [1 .. MaxTick -> Accounts \cup {None}]
        /\ \A u \in S : waitAccount[tickIndex[u]] = u /\ u <= tickId /\ u \in 1 .. MaxTick
        /\ tickId \in Nat /\ waitAccount[a] = 0 /\ MaxTick \in Nat /\ a # None
    BY <2>2 DEF LoginInv, LoginTypeOK, LoginConfig, EnterLoginQueue, Tickets
  <2>4. PICK f : f = tickIndex
    OBVIOUS
  <2>5. PICK g : g = tickIndex'
    OBVIOUS
  <2>6. Tickets' = S \cup {t} /\ g[t] = a /\ \A u \in S : g[u] = f[u]
    <3>1. g = [f EXCEPT ![t] = a]
      BY <1>2, <2>1, <2>4, <2>5
    <3>2. ASSUME NEW u \in S PROVE u # t
      BY <2>1, <2>3
    <3>3. tickIndex' = [tickIndex EXCEPT ![t] = a]
      BY <1>2, <2>1
    <3>4. Tickets' = S \cup {t}
      BY <2>2, <2>3, <3>3 DEF Tickets
    <3>5. QED
      BY <2>3, <2>4, <3>1, <3>2, <3>4
  <2>7. S \subseteq 0 .. MaxTick /\ {t} \subseteq 0 .. MaxTick /\ Into(f, S, Accounts)
    BY <2>1, <2>2, <2>3, <2>4, TicketsOfAccounts DEF LoginInv, Into
  <2>8. Below(S, {t})
    BY <2>1, <2>3 DEF Below
  <2>9. PICK p : p = LineOf(f, S)
    OBVIOUS
  <2>10. /\ p \in Seq(Accounts) /\ DOMAIN p = 1 .. Cardinality(S)
         /\ \A i \in 1 .. Cardinality(S) : \E x \in S : p[i] = f[x]
    <3>1. LineOf(f, S) \in Seq(Accounts) /\ DOMAIN LineOf(f, S) = 1 .. Cardinality(S)
      BY <2>3, <2>7, LineFacts
    <3>2. ASSUME NEW i \in 1 .. Cardinality(S) PROVE \E x \in S : LineOf(f, S)[i] = f[x]
      <4>1. Sorted(S) \in [1 .. Cardinality(S) -> S]
        BY <2>3, <2>7, SortedFacts
      <4>2. LineOf(f, S)[i] = f[Sorted(S)[i]]
        BY DEF LineOf
      <4>3. QED
        BY <4>1, <4>2
    <3>3. QED
      BY <2>9, <3>1, <3>2
  <2>11. LineOf(g, S) = p
    BY <2>3, <2>6, <2>7, <2>9, LineSame
  <2>12. LineOf(g, {t}) = <<a>>
    <3>1. Cardinality({t}) = 1
      BY FS_Singleton
    <3>2. Sorted({t}) \in [1 .. 1 -> {t}]
      BY <2>3, <2>7, <3>1, SortedFacts
    <3>3. LineOf(g, {t}) = [i \in 1 .. 1 |-> g[Sorted({t})[i]]]
      BY <3>1 DEF LineOf
    <3>4. \A i \in 1 .. 1 : Sorted({t})[i] = t
      BY <3>2
    <3>5. LineOf(g, {t}) = [i \in 1 .. 1 |-> a]
      BY <2>6, <3>3, <3>4
    <3>6. QED
      BY <3>5
  <2>13. LineOf(g, S \cup {t}) = p \o <<a>>
    <3>1. Into(g, S, Accounts) /\ Into(g, {t}, Accounts)
      BY <2>6, <2>7 DEF Into
    <3>2. LineOf(g, S \cup {t}) = LineOf(g, S) \o LineOf(g, {t})
      <4>1. PICK V : V = {t}
        OBVIOUS
      <4>2. Splits(MaxTick, S, V, g, Accounts)
        BY <2>3, <2>7, <2>8, <3>1, <4>1 DEF Splits
      <4>3. PICK U : U = S \cup V
        OBVIOUS
      <4>4. LineOf(g, U) = LineOf(g, S) \o LineOf(g, V)
        BY ONLY <4>2, <4>3, LineConcat
      <4>5. QED
        BY <4>1, <4>3, <4>4
    <3>3. QED
      BY <2>11, <2>12, <3>2
  <2>14. InOrder(Tickets) = p
    BY <2>2, <2>4, <2>9 DEF InOrder, LineOf
  <2>15. InOrder(Tickets)' = Append(p, a)
    <3>1. InOrder(Tickets)' = LineOf(g, S \cup {t})
      BY <2>5, <2>6 DEF InOrder, LineOf
    <3>2. p \o <<a>> = Append(p, a)
      BY <2>10
    <3>3. QED
      BY <2>13, <3>1, <3>2
  <2>16. \A i \in DOMAIN p : p[i] # a
    <3>1. ASSUME NEW x \in S, f[x] = a PROVE FALSE
      <4>1. waitAccount[a] = x /\ x \in 1 .. MaxTick
        BY <2>3, <2>4, <3>1
      <4>2. QED
        BY <2>3, <4>1
    <3>2. QED
      BY <2>10, <3>1
  <2>17. QED
    BY <1>2, <2>14, <2>15, <2>16 DEF Line!Next, Line!Wait
<1>3. QED
  BY <1>1, <1>2 DEF EnterLoginQueue

\* ForcePassLoginQueue takes an account out of the middle of the queue.
LEMMA ForceLine ==
  ASSUME LoginConfig, LoginInv, LoginInv', NEW a \in Accounts, ForcePassLoginQueue(a)
  PROVE  Line!Next
<1>1. PICK t : t = waitAccount[a]
  OBVIOUS
<1>2. /\ t \in Tickets /\ tickIndex[t] = a /\ Tickets' = Tickets \ {t}
      /\ \A u \in Tickets' : tickIndex'[u] = tickIndex[u]
  BY <1>1, ForceLogin DEF LoginInv
<1>3. PICK b \in Nat : Tickets \subseteq 0 .. b /\ \A u \in Tickets : tickIndex[u] \in Accounts
  BY TicketsOfAccounts DEF LoginInv
<1>4. PICK f : f = tickIndex
  OBVIOUS
<1>5. PICK g : g = tickIndex'
  OBVIOUS
<1>6. PICK D : D = {u \in Tickets : u < t}
  OBVIOUS
<1>7. PICK E : E = {u \in Tickets : t < u}
  OBVIOUS
<1>8. D \cup E = Tickets \ {t} /\ D \cup ({t} \cup E) = Tickets
  <2>1. \A u \in Tickets : u \in Nat
    BY <1>3
  <2>2. \A u \in Tickets : u < t \/ t < u \/ u = t
    BY <1>2, <2>1
  <2>3. t \notin D /\ t \notin E
    BY <1>2, <1>6, <1>7, <2>1
  <2>4. QED
    BY <1>2, <1>6, <1>7, <2>2, <2>3
<1>9. Below(D, E) /\ Below({t}, E) /\ Below(D, {t} \cup E)
  <2>1. \A u \in Tickets : u \in Nat
    BY <1>3
  <2>2. ASSUME NEW x \in D, NEW y \in E PROVE x < y
    <3>1. x < t /\ t < y /\ x \in Nat /\ y \in Nat /\ t \in Nat
      BY <1>2, <1>6, <1>7, <2>1
    <3>2. QED
      BY ONLY <3>1
  <2>3. QED
    BY <1>6, <1>7, <2>2 DEF Below
<1>10. /\ D \subseteq 0 .. b /\ E \subseteq 0 .. b /\ {t} \subseteq 0 .. b
       /\ {t} \cup E \subseteq 0 .. b
       /\ Into(f, D, Accounts) /\ Into(f, E, Accounts) /\ Into(f, {t}, Accounts)
       /\ Into(f, {t} \cup E, Accounts)
  BY <1>2, <1>3, <1>4, <1>6, <1>7 DEF Into
<1>11. PICK p : p = LineOf(f, D)
  OBVIOUS
<1>12. PICK q : q = LineOf(f, E)
  OBVIOUS
<1>13. p \in Seq(Accounts) /\ q \in Seq(Accounts)
  BY <1>10, <1>11, <1>12, LineFacts
<1>14. LineOf(f, {t}) = <<a>>
  <2>1. Cardinality({t}) = 1
    BY FS_Singleton
  <2>2. Sorted({t}) \in [1 .. 1 -> {t}]
    BY <1>10, <2>1, SortedFacts
  <2>3. LineOf(f, {t}) = [i \in 1 .. 1 |-> f[Sorted({t})[i]]]
    BY <2>1 DEF LineOf
  <2>4. \A i \in 1 .. 1 : Sorted({t})[i] = t
    BY <2>2
  <2>5. LineOf(f, {t}) = [i \in 1 .. 1 |-> a]
    BY <1>2, <1>4, <2>3, <2>4
  <2>6. QED
    BY <2>5
<1>15. InOrder(Tickets) = p \o (<<a>> \o q)
  <2>1. LineOf(f, {t} \cup E) = <<a>> \o q
    <3>1. LineOf(f, {t} \cup E) = LineOf(f, {t}) \o LineOf(f, E)
      <4>1. PICK V : V = {t}
        OBVIOUS
      <4>2. Splits(b, V, E, f, Accounts)
        BY <1>9, <1>10, <4>1 DEF Splits
      <4>3. PICK U : U = V \cup E
        OBVIOUS
      <4>4. LineOf(f, U) = LineOf(f, V) \o LineOf(f, E)
        BY ONLY <4>2, <4>3, LineConcat
      <4>5. QED
        BY <4>1, <4>3, <4>4
    <3>2. QED
      BY <1>12, <1>14, <3>1
  <2>2. LineOf(f, D \cup ({t} \cup E)) = LineOf(f, D) \o LineOf(f, {t} \cup E)
    <3>1. PICK V : V = {t} \cup E
      OBVIOUS
    <3>2. Splits(b, D, V, f, Accounts)
      BY <1>9, <1>10, <3>1 DEF Splits
    <3>3. PICK U : U = D \cup V
      OBVIOUS
    <3>4. LineOf(f, U) = LineOf(f, D) \o LineOf(f, V)
      BY ONLY <3>2, <3>3, LineConcat
    <3>5. QED
      BY <3>1, <3>3, <3>4
  <2>3. LineOf(f, Tickets) = p \o (<<a>> \o q)
    BY <1>8, <1>11, <2>1, <2>2
  <2>4. QED
    BY <1>4, <2>3 DEF InOrder, LineOf
<1>16. InOrder(Tickets)' = p \o q
  <2>1. \A u \in D \cup E : g[u] = f[u]
    BY <1>2, <1>4, <1>5, <1>8
  <2>2. LineOf(g, D \cup E) = LineOf(f, D \cup E)
    BY <1>10, <2>1, LineSame
  <2>3. LineOf(f, D \cup E) = LineOf(f, D) \o LineOf(f, E)
    <3>1. Splits(b, D, E, f, Accounts)
      BY <1>9, <1>10 DEF Splits
    <3>2. PICK U : U = D \cup E
      OBVIOUS
    <3>3. LineOf(f, U) = LineOf(f, D) \o LineOf(f, E)
      BY ONLY <3>1, <3>2, LineConcat
    <3>4. QED
      BY <3>2, <3>3
  <2>4. InOrder(Tickets)' = LineOf(g, D \cup E)
    BY <1>2, <1>5, <1>8 DEF InOrder, LineOf
  <2>5. QED
    BY <1>11, <1>12, <2>2, <2>3, <2>4
<1>17. PICK w : w = p \o (<<a>> \o q)
  OBVIOUS
<1>18. PICK i : i = Len(p) + 1
  OBVIOUS
<1>19. i \in DOMAIN w /\ w[i] = a
  BY ONLY <1>13, <1>17, <1>18, a \in Accounts
<1>20. p = SubSeq(w, 1, i - 1) /\ q = SubSeq(w, i + 1, Len(w))
  BY ONLY <1>13, <1>17, <1>18, a \in Accounts
<1>21. passed' = <<a>>
  BY DEF ForcePassLoginQueue
<1>22. QED
  BY <1>15, <1>16, <1>17, <1>19, <1>20, <1>21 DEF Line!Next, Line!Force

\* UpdateQueueNum does not touch it.
LEMMA QuietLine ==
  ASSUME UNCHANGED <<maps, passed>> PROVE UNCHANGED Line!vars
<1>1. PICK f : f = tickIndex
  OBVIOUS
<1>2. InOrder(Tickets) = LineOf(f, {t \in 1 .. MaxTick : f[t] # None})
  BY <1>1 DEF InOrder, LineOf, Tickets
<1>3. InOrder(Tickets)' = LineOf(f, {t \in 1 .. MaxTick : f[t] # None})
  BY <1>1 DEF InOrder, LineOf, Tickets, maps
<1>4. QED
  BY <1>2, <1>3 DEF Line!vars

\* Every step of LoginControl is one of the queue or leaves it alone.
LEMMA NextLine ==
  ASSUME LoginConfig, LoginInv, LoginInv', [LoginNext]_loginVars PROVE [Line!Next]_(Line!vars)
<1>1. ASSUME NEW num \in QueueNums, UpdateQueueNum(num) PROVE UNCHANGED Line!vars
  BY <1>1, QuietLine DEF UpdateQueueNum
<1>2. CASE UNCHANGED loginVars
  BY <1>2, QuietLine DEF loginVars
<1>3. QED
  BY <1>1, <1>2, OnTimeLine, EnterLine, ForceLine DEF LoginNext, Timer, Forced

\* LoginControl implements LoginQueue: the tickets in the order of s_tickIndex are a queue of
\* accounts, which a forced pass may leave from the middle and everyone else leaves from the front.
THEOREM LoginIsAQueue == LoginSpec => ImplementsLoginQueue
<1> USE LoginConfigHolds
<1>1. LoginInit => LoginInv /\ Line!Init
  BY InitLogin, InitLine
<1>2. LoginInv /\ [LoginNext]_loginVars => LoginInv'
  BY NextLogin
<1>3. LoginInv /\ LoginInv' /\ [LoginNext]_loginVars => [Line!Next]_(Line!vars)
  BY NextLine
<1>4. QED
  BY <1>1, <1>2, <1>3, PTL DEF LoginSpec, Line!Spec, ImplementsLoginQueue

\* s_waitAccount and s_tickIndex are inverse to each other after every operation.
THEOREM LoginMapsAgree == LoginSpec => []LoginTypeOK
<1> USE LoginConfigHolds
<1>1. LoginInit => LoginInv
  BY InitLogin
<1>2. LoginInv /\ [LoginNext]_loginVars => LoginInv'
  BY NextLogin
<1>3. LoginInv => LoginTypeOK
  BY DEF LoginInv
<1>4. QED
  BY <1>1, <1>2, <1>3, PTL DEF LoginSpec

(***************************************************************************)
(* Cluster: sequences, and sets made sequences.                            *)
(***************************************************************************)
\* What is in a sequence: nothing in the empty one, and what is in the two parts of one that
\* was put together or taken apart.
LEMMA InSequence ==
  ASSUME NEW T, NEW q \in Seq(T)
  PROVE  /\ ToSet(q) = {q[i] : i \in 1 .. Len(q)} /\ ToSet(q) \subseteq T
         /\ q = <<>> => ToSet(q) = {}
  BY DEF ToSet

\* Nothing is in the empty sequence.
LEMMA InNothing == ASSUME NEW T PROVE <<>> \in Seq(T) /\ ToSet(<<>>) = {}
  BY DEF ToSet

\* The rest of a sequence has all but the first element.
LEMMA InRest ==
  ASSUME NEW T, NEW q \in Seq(T), q # <<>>
  PROVE  /\ Tail(q) \in Seq(T) /\ Head(q) \in T
         /\ ToSet(q) = {Head(q)} \cup ToSet(Tail(q))
<1>1. Tail(q) \in Seq(T) /\ Head(q) \in T /\ Len(q) \in Nat \ {0} /\ Len(Tail(q)) = Len(q) - 1
  OBVIOUS
<1>2. PICK r \in Seq(T) : r = Tail(q)
  BY <1>1
<1>3. ToSet(r) = {r[i] : i \in 1 .. Len(r)}
  <2>1. DOMAIN r = 1 .. Len(r)
    OBVIOUS
  <2>2. QED
    BY <2>1 DEF ToSet
<1>4. \A i \in 1 .. Len(q) : q[i] \in {Head(q)} \cup ToSet(r)
  <2>1. TAKE i \in 1 .. Len(q)
  <2>2. CASE i = 1
    BY <2>2
  <2>3. CASE i # 1
    <3>1. i - 1 \in 1 .. Len(r) /\ r[i - 1] = q[i]
      BY <1>1, <1>2, <2>3
    <3>2. QED
      BY <3>1, <1>2, <1>3
  <2>4. QED
    BY <2>2, <2>3
<1>5. \A i \in 1 .. Len(r) : r[i] \in ToSet(q)
  <2>1. TAKE i \in 1 .. Len(r)
  <2>2. i + 1 \in 1 .. Len(q) /\ r[i] = q[i + 1]
    BY <1>1, <1>2
  <2>3. QED
    BY <2>2, InSequence
<1>6. Head(q) \in ToSet(q)
  <2>1. 1 \in 1 .. Len(q) /\ Head(q) = q[1]
    BY <1>1
  <2>2. QED
    BY <2>1, InSequence
<1>7. ToSet(q) \subseteq {Head(q)} \cup ToSet(r)
  BY <1>4, InSequence
<1>8. ToSet(r) \subseteq ToSet(q)
  BY <1>2, <1>5, <1>3
<1>9. QED
  BY <1>1, <1>2, <1>6, <1>7, <1>8

\* The sequence r is q without its first k elements, and r is p followed by q.
Without(q, k, r) == r = SubSeq(q, k + 1, Len(q))

\* What is left of a sequence when the first elements are thrown away.
LEMMA InSuffix ==
  ASSUME NEW T, NEW q \in Seq(T), NEW k \in 1 .. Len(q), NEW r, Without(q, k, r)
  PROVE  /\ r \in Seq(T) /\ ToSet(r) \subseteq ToSet(q)
         /\ k = 1 => ToSet(q) \subseteq {Head(q)} \cup ToSet(r)
<1>1. r \in Seq(T) /\ Len(r) = Len(q) - k /\ \A i \in 1 .. Len(r) : r[i] = q[i + k]
  BY DEF Without
<1>2. ToSet(r) = {r[i] : i \in 1 .. Len(r)}
  <2>1. DOMAIN r = 1 .. Len(r)
    BY <1>1
  <2>2. QED
    BY <2>1, Zenon DEF ToSet
<1>3. \A i \in 1 .. Len(r) : r[i] \in ToSet(q)
  <2>1. TAKE i \in 1 .. Len(r)
  <2>2. i + k \in 1 .. Len(q) /\ r[i] = q[i + k]
    BY <1>1
  <2>3. QED
    BY <2>2, InSequence
<1>4. ASSUME k = 1, NEW i \in 1 .. Len(q)
      PROVE  q[i] \in {Head(q)} \cup ToSet(r)
  <2>1. CASE i = 1
    BY <2>1
  <2>2. CASE i # 1
    <3>1. i - 1 \in 1 .. Len(r) /\ r[i - 1] = q[i]
      BY <1>1, <1>4, <2>2
    <3>2. QED
      BY <1>1, <3>1, <1>2
  <2>3. QED
    BY <2>1, <2>2
<1>5. QED
  BY <1>1, <1>3, <1>4, <1>2, InSequence

Appended(p, q, r) == r = p \o q

\* What is in a sequence that something was appended to.
LEMMA InBoth ==
  ASSUME NEW T, NEW p \in Seq(T), NEW q \in Seq(T), NEW r, Appended(p, q, r)
  PROVE  r \in Seq(T) /\ ToSet(r) = ToSet(p) \cup ToSet(q)
<1>1. r \in Seq(T) /\ Len(r) = Len(p) + Len(q) /\ Len(p) \in Nat /\ Len(q) \in Nat
  BY DEF Appended
<1>2. ToSet(r) = {r[i] : i \in 1 .. Len(r)}
  BY <1>1, SMTT(40) DEF ToSet
<1>3. \A i \in 1 .. Len(r) : r[i] \in ToSet(p) \cup ToSet(q)
  <2>1. TAKE i \in 1 .. Len(r)
  <2>2. CASE i <= Len(p)
    <3>1. i \in 1 .. Len(p) /\ r[i] = p[i]
      BY <2>2, <1>1 DEF Appended
    <3>2. QED
      BY <3>1, InSequence
  <2>3. CASE i > Len(p)
    <3>1. i - Len(p) \in 1 .. Len(q) /\ r[i] = q[i - Len(p)]
      BY <2>3, <1>1 DEF Appended
    <3>2. QED
      BY <3>1, InSequence
  <2>4. QED
    BY <1>1, <2>2, <2>3
<1>4. \A i \in 1 .. Len(p) : p[i] \in ToSet(r)
  <2>1. TAKE i \in 1 .. Len(p)
  <2>2. i \in 1 .. Len(r) /\ r[i] = p[i]
    BY <1>1 DEF Appended
  <2>3. QED
    BY <2>2, <1>1, <1>2
<1>5. \A i \in 1 .. Len(q) : q[i] \in ToSet(r)
  <2>1. TAKE i \in 1 .. Len(q)
  <2>2. i + Len(p) \in 1 .. Len(r) /\ r[i + Len(p)] = q[i]
    BY <1>1 DEF Appended
  <2>3. QED
    BY <2>2, <1>1, <1>2
<1>6. ToSet(r) \subseteq ToSet(p) \cup ToSet(q)
  BY <1>1, <1>3, <1>2
<1>7. ToSet(p) \subseteq ToSet(r)
  BY <1>4, InSequence
<1>8. ToSet(q) \subseteq ToSet(r)
  BY <1>5, InSequence
<1>9. QED
  BY <1>1, <1>6, <1>7, <1>8

\* A set that was made a sequence, in whatever order, is all there.
LEMMA SetToSeqFacts ==
  ASSUME NEW S, IsFiniteSet(S), NEW q, q = SetToSeq(S)
  PROVE  q \in Seq(S) /\ ToSet(q) = S
<1>1. PICK n \in Nat : n = Cardinality(S)
  BY FS_CardinalityType
<1>2. PICK F : F = [1 .. n -> S]
  OBVIOUS
<1>3. \E f \in F : IsInjective(f)
  <2>1. ExistsBijection(1 .. n, S)
    BY <1>1, FS_CardinalityType
  <2>2. PICK f : f \in Bijection(1 .. n, S)
    BY <2>1 DEF ExistsBijection
  <2>3. f \in F /\ IsInjective(f)
    BY <1>2, <2>2 DEF Bijection, Injection
  <2>4. QED
    BY <2>3
<1>4. q = CHOOSE f \in F : IsInjective(f)
  BY <1>1, <1>2 DEF SetToSeq
<1>5. q \in F /\ IsInjective(q)
  BY <1>3, <1>4
<1>6. q \in Injection(1 .. n, S)
  BY <1>2, <1>5 DEF Injection
<1>7. IsFiniteSet(1 .. n) /\ Cardinality(1 .. n) = n
  BY FS_Interval
<1>8. q \in Surjection(1 .. n, S)
  BY <1>1, <1>6, <1>7, FS_Injection
<1>9. q \in Seq(S) /\ Len(q) = n /\ \A x \in S : \E i \in 1 .. n : q[i] = x
  BY <1>2, <1>5, <1>8 DEF Surjection
<1>10. ToSet(q) = {q[i] : i \in 1 .. Len(q)}
  BY <1>9 DEF ToSet
<1>11. QED
  BY <1>9, <1>10

\* What Cluster assumes of its constants.
ClusterConfig ==
  /\ Nodes \subseteq Nat /\ IsFiniteSet(Nodes) /\ NoSession \notin Nat /\ Handshake \notin Nodes
  /\ MaxSessions \in Nat /\ NoSession \notin [node : Nodes, state : States]

\* It holds, as the module assumes.
LEMMA ClusterConfigHolds == ClusterConfig
  BY NodesAssumption, BoundAssumption, NullAssumption DEF ClusterConfig


\* The messages of a connection are the handshake and channels above that of its node.
WireOK(s) ==
  \A n \in ToSet(wire[s]) : n = Handshake \/ (session[s] # NoSession /\ n > session[s].node)

\* Every variable has its type.
Shape ==
  /\ up \subseteq Nodes /\ own \in [Nodes -> Sessions \cup {NoSession}]
  /\ session \in [Sessions -> [node : Nodes, state : States] \cup {NoSession}]
  /\ sessions \in [Nodes -> Sessions \cup {NoSession}] /\ known \subseteq Nodes
  /\ cut \subseteq Sessions /\ refused \subseteq Nodes /\ lost \subseteq Sessions
  /\ wire \in [Sessions -> Seq(Nodes \cup {Handshake})] /\ \A s \in Sessions : WireOK(s)
  /\ clients \in [Nodes -> SUBSET Nodes]
  /\ \A n \in Nodes : \A m \in clients[n] : m > n

\* Connection s is one of node n.
Belongs(s, n) == session[s] # NoSession /\ session[s].node = n

\* s_sessions has for a node a session of it that has its identity.
EnteredInv ==
  \A n \in Nodes : sessions[n] # NoSession => Belongs(sessions[n], n) /\ Identified(sessions[n])
\* A node's connection to the master is one of its own.
ConnectionInv == \A n \in Nodes : own[n] # NoSession => Belongs(own[n], n)
\* A node has at most one session with an identity, unless a second one was refused.
OneInv ==
  \A s \in Sessions, n \in Nodes :
    Belongs(s, n) /\ Identified(s) /\ n \notin refused => sessions[n] = s
\* Of a node that Cluster knows the session is open, with the same exception.
KnownInv ==
  \A n \in known : n \notin refused => sessions[n] # NoSession /\ session[sessions[n]].state = "open"

\* What the master has on record.
RecordInv == EnteredInv /\ ConnectionInv /\ OneInv /\ KnownInv

\* MeshPlanned of one pair.
Planned(m, n) ==
  m < n /\ m \notin refused /\ own[m] = sessions[m] /\ sessions[m] \notin cut
        /\ sessions[m] \notin lost
  => n \in clients[m] \cup ToSet(wire[sessions[m]])

\* The inductive invariant.
MeshInv == Shape /\ RecordInv /\ \A m, n \in known : Planned(m, n)

\* It contains the type invariant of Cluster.
LEMMA ShapeIsTyped == Shape => ClusterTypeOK
<1>1. SUFFICES ASSUME Shape PROVE ClusterTypeOK
  OBVIOUS
<1>2. ASSUME NEW s \in Sessions
      PROVE  ToSet(wire[s]) \subseteq {Handshake} \cup
               {n \in Nodes : session[s] # NoSession /\ n > session[s].node}
  BY <1>1, InSequence DEF Shape, WireOK
<1>3. QED
  BY <1>1, <1>2 DEF Shape, ClusterTypeOK

\* It holds at first.
LEMMA InitMesh == ClusterConfig /\ ClusterInit => MeshInv
<1>1. SUFFICES ASSUME ClusterConfig, ClusterInit PROVE MeshInv
  OBVIOUS
<1>2. NoSession \notin Sessions
  BY <1>1 DEF ClusterConfig, Sessions
<1>3. ASSUME NEW s \in Sessions PROVE WireOK(s)
  BY <1>1, InNothing DEF ClusterInit, WireOK
<1>4. Shape
  BY <1>1, <1>3 DEF ClusterInit, Shape
<1>5. RecordInv
  BY <1>1 DEF ClusterInit, RecordInv, EnteredInv, ConnectionInv, OneInv, KnownInv, Belongs
<1>6. QED
  BY <1>1, <1>4, <1>5 DEF ClusterInit, MeshInv

\* Nothing that the sessions and the maps are about has changed.
LEMMA SameRecords ==
  ASSUME RecordInv, UNCHANGED <<session, sessions, known, refused>>, ConnectionInv'
  PROVE  RecordInv'
  BY DEF RecordInv, EnteredInv, OneInv, KnownInv, Belongs, Identified

\* A connection belongs to at most one node.
LEMMA Apart ==
  ASSUME NEW s, NEW m, NEW n, Belongs(s, m), Belongs(s, n)
  PROVE  m = n
  BY DEF Belongs

\* A start concerns nobody else.
LEMMA StartMesh ==
  ASSUME MeshInv, NEW n \in Nodes, Start(n)
  PROVE  MeshInv'
<1>1. Shape'
  BY DEF MeshInv, Shape, Start, WireOK
<1>2. RecordInv'
  BY SameRecords DEF MeshInv, RecordInv, ConnectionInv, Start, Belongs
<1>3. QED
  BY <1>1, <1>2 DEF MeshInv, Planned, Start

\* Nor does a cut, which leaves less to be promised.
LEMMA BreakMesh ==
  ASSUME MeshInv, NEW s \in Sessions, Break(s)
  PROVE  MeshInv'
<1>1. Shape'
  BY DEF MeshInv, Shape, Break, WireOK
<1>2. RecordInv'
  BY SameRecords DEF MeshInv, RecordInv, ConnectionInv, Break, Belongs
<1>3. QED
  BY <1>1, <1>2 DEF MeshInv, Planned, Break

\* The node has left: its connection is not the one of another node, and its own pairs wait
\* until it is back.
LEMMA LeaveMesh ==
  ASSUME ClusterConfig, MeshInv, NEW n \in Nodes, own[n] # NoSession,
         up' \subseteq up, own' = [own EXCEPT ![n] = NoSession],
         clients' = clients \/ clients' = [clients EXCEPT ![n] = {}],
         cut \subseteq cut', cut' \subseteq Sessions,
         wire' = Dropped(own[n]), UNCHANGED <<session, sessions, known, refused, lost>>
  PROVE  MeshInv'
<1>1. PICK s \in Sessions : s = own[n]
  BY DEF MeshInv, Shape
<1>2. Belongs(s, n)
  BY <1>1 DEF MeshInv, RecordInv, ConnectionInv
<1>3. wire' = [x \in Sessions |-> IF x = s THEN <<>> ELSE wire[x]]
  BY <1>1 DEF Dropped
<1>4. ASSUME NEW x \in Sessions PROVE WireOK(x)'
  BY <1>3, InNothing DEF MeshInv, Shape, WireOK
<1>5. Shape'
  <2>1. wire' \in [Sessions -> Seq(Nodes \cup {Handshake})]
    BY <1>3, InNothing DEF MeshInv, Shape
  <2>2. clients' \in [Nodes -> SUBSET Nodes] /\ \A m \in Nodes : clients'[m] \subseteq clients[m]
    BY DEF MeshInv, Shape
  <2>3. QED
    BY <1>4, <2>1, <2>2 DEF MeshInv, Shape
<1>6. RecordInv'
  BY SameRecords DEF MeshInv, RecordInv, ConnectionInv, Belongs
<1>7. ASSUME NEW m \in known, NEW k \in known PROVE Planned(m, k)'
  <2>1. Planned(m, k) /\ m \in Nodes
    BY DEF MeshInv, Shape
  <2>2. CASE m = n
    BY <2>2, <2>1 DEF MeshInv, Shape, RecordInv, KnownInv, Planned
  <2>3. CASE m # n
    <3>1. sessions[m] # NoSession => sessions[m] \in Sessions /\ sessions[m] # s
      BY <1>2, <2>1, <2>3 DEF MeshInv, Shape, RecordInv, EnteredInv, Belongs
    <3>2. m \notin refused => sessions[m] # NoSession
      BY DEF MeshInv, RecordInv, KnownInv
    <3>3. QED
      BY <1>3, <2>1, <2>3, <3>1, <3>2 DEF Planned, MeshInv, Shape
  <2>4. QED
    BY <2>2, <2>3
<1>8. QED
  BY <1>5, <1>6, <1>7 DEF MeshInv

\* A node crashes.
LEMMA CrashMesh ==
  ASSUME ClusterConfig, MeshInv, NEW n \in Nodes, Crash(n)
  PROVE  MeshInv'
<1>1. CASE own[n] # NoSession
  <2>1. cut \subseteq cut' /\ cut' \subseteq Sessions
    BY DEF Crash, MeshInv, Shape
  <2>2. QED
    BY <1>1, <2>1, LeaveMesh DEF Crash
<1>2. CASE own[n] = NoSession
  <2>1. NoSession \notin Sessions
    BY DEF ClusterConfig, Sessions
  <2>2. wire' = wire /\ own' = own /\ cut' = cut
    BY <1>2, <2>1 DEF Crash, Dropped, MeshInv, Shape
  <2>3. Shape'
    BY <2>2 DEF Crash, MeshInv, Shape, WireOK
  <2>4. RecordInv'
    BY <2>2, SameRecords DEF Crash, MeshInv, RecordInv, ConnectionInv, Belongs
  <2>5. ASSUME NEW m \in known, NEW k \in known PROVE Planned(m, k)'
    <3>1. Planned(m, k) /\ m \in Nodes
      BY DEF MeshInv, Shape
    <3>2. m \notin refused => sessions[m] # NoSession
      BY DEF MeshInv, RecordInv, KnownInv
    <3>3. QED
      BY <1>2, <2>2, <3>1, <3>2 DEF Planned, MeshInv, Shape, Crash
  <2>6. QED
    BY <2>3, <2>4, <2>5 DEF MeshInv, Crash
<1>3. QED
  BY <1>1, <1>2

\* A node learns of the end of its connection.
LEMMA TerminateMesh ==
  ASSUME ClusterConfig, MeshInv, NEW n \in Nodes, OnTerminate(n)
  PROVE  MeshInv'
<1>1. cut \subseteq cut' /\ cut' \subseteq Sessions /\ up' \subseteq up
  BY DEF OnTerminate, MeshInv, Shape
<1>2. QED
  BY <1>1, LeaveMesh DEF OnTerminate

\* A new connection is one that nobody had.
LEMMA ConnectMesh ==
  ASSUME ClusterConfig, MeshInv, NEW n \in Nodes, ConnectHarbor(n)
  PROVE  MeshInv'
<1>1. NoSession \notin Sessions /\ Sessions \subseteq Nat
  BY DEF ClusterConfig, Sessions
<1>2. PICK s : /\ s = CHOOSE x \in Unused : \A y \in Unused : x <= y
               /\ own' = [own EXCEPT ![n] = s]
               /\ session' = [session EXCEPT ![s] = [node |-> n, state |-> "accepted"]]
               /\ wire' = [wire EXCEPT ![s] = <<Handshake>>]
  BY DEF ConnectHarbor
<1>3. s \in Sessions /\ session[s] = NoSession
  <2>1. \E x \in Unused : \A y \in Unused : x <= y
    BY <1>1, LeastNatural DEF ConnectHarbor, Unused
  <2>2. s \in Unused
    BY <1>2, <2>1
  <2>3. QED
    BY <2>2 DEF Unused
<1>4. PICK q \in Seq(Nodes \cup {Handshake}) : q = <<Handshake>> /\ ToSet(q) = {Handshake}
  <2>1. <<Handshake>> \in Seq(Nodes \cup {Handshake}) /\ ToSet(<<Handshake>>) = {Handshake}
    BY DEF ToSet
  <2>2. QED
    BY <2>1
<1>5. PICK f \in [node : Nodes, state : States] : /\ f = [node |-> n, state |-> "accepted"]
                                                  /\ f.node = n /\ f.state = "accepted"
                                                  /\ f # NoSession
  <2>1. [node |-> n, state |-> "accepted"] \in [node : Nodes, state : States]
    BY DEF States
  <2>2. NoSession \notin [node : Nodes, state : States]
    BY DEF ClusterConfig
  <2>3. QED
    BY <2>1, <2>2
<1>6. /\ session' = [session EXCEPT ![s] = f] /\ wire' = [wire EXCEPT ![s] = q]
      /\ session \in [Sessions -> [node : Nodes, state : States] \cup {NoSession}]
      /\ wire \in [Sessions -> Seq(Nodes \cup {Handshake})]
  BY <1>2, <1>4, <1>5 DEF MeshInv, Shape
<1>7. \A x \in Sessions : x # s => session'[x] = session[x] /\ wire'[x] = wire[x]
  BY <1>6
<1>8. session'[s] = f /\ wire'[s] = q
  BY <1>3, <1>6
<1>9. \A m \in Nodes : sessions[m] # NoSession => sessions[m] \in Sessions /\ sessions[m] # s
  BY <1>3 DEF MeshInv, Shape, RecordInv, EnteredInv, Belongs
<1>10. \A m \in Nodes : m # n => own'[m] = own[m] /\ own[m] # s
  BY <1>1, <1>2, <1>3 DEF MeshInv, Shape, RecordInv, ConnectionInv, Belongs
<1>11. UNCHANGED <<up, clients, sessions, known, cut, refused, lost>>
  BY DEF ConnectHarbor
<1>12. Shape'
  <2>1. session' \in [Sessions -> [node : Nodes, state : States] \cup {NoSession}]
    BY <1>6
  <2>2. wire' \in [Sessions -> Seq(Nodes \cup {Handshake})]
    BY <1>6
  <2>3. own' \in [Nodes -> Sessions \cup {NoSession}]
    BY <1>2, <1>3 DEF MeshInv, Shape
  <2>4. ASSUME NEW x \in Sessions PROVE WireOK(x)'
    BY <1>4, <1>7, <1>8 DEF MeshInv, Shape, WireOK
  <2>5. QED
    BY <2>1, <2>2, <2>3, <2>4, <1>11 DEF MeshInv, Shape
<1>13. RecordInv'
  <2>1. EnteredInv'
    BY <1>7, <1>9, <1>11 DEF MeshInv, RecordInv, EnteredInv, Belongs, Identified
  <2>2. ConnectionInv'
    <3>1. ASSUME NEW m \in Nodes, own'[m] # NoSession PROVE Belongs(own[m], m)'
      <4>1. CASE m = n
        BY <1>2, <1>5, <1>8, <4>1 DEF Belongs, MeshInv, Shape
      <4>2. CASE m # n
        BY <1>7, <1>10, <3>1, <4>2 DEF Belongs, MeshInv, Shape, RecordInv, ConnectionInv
      <4>3. QED
        BY <4>1, <4>2
    <3>2. QED
      BY <3>1 DEF ConnectionInv
  <2>3. OneInv'
    BY <1>5, <1>7, <1>8, <1>11 DEF MeshInv, RecordInv, OneInv, Belongs, Identified
  <2>4. KnownInv'
    BY <1>7, <1>9, <1>11 DEF MeshInv, Shape, RecordInv, KnownInv
  <2>5. QED
    BY <2>1, <2>2, <2>3, <2>4 DEF RecordInv
<1>14. ASSUME NEW m \in known, NEW k \in known PROVE Planned(m, k)'
  <2>1. Planned(m, k) /\ m \in Nodes
    BY DEF MeshInv, Shape
  <2>2. m \notin refused => sessions[m] # NoSession
    BY DEF MeshInv, RecordInv, KnownInv
  <2>3. CASE m = n
    BY <1>2, <1>9, <1>11, <2>1, <2>2, <2>3 DEF Planned, MeshInv, Shape
  <2>4. CASE m # n
    BY <1>7, <1>9, <1>10, <1>11, <2>1, <2>2, <2>4 DEF Planned
  <2>5. QED
    BY <2>3, <2>4
<1>15. QED
  BY <1>11, <1>12, <1>13, <1>14 DEF MeshInv

\* The node takes messages from its connection.  No other node's is concerned, and its own
\* pairs hold still if what it no longer waits for it has, or had no use for.
LEMMA TakeMesh ==
  ASSUME ClusterConfig, MeshInv, NEW n \in Nodes, NEW s \in Sessions, s = own[n],
         NEW q \in Seq(Nodes \cup {Handshake}), wire' = [wire EXCEPT ![s] = q],
         ToSet(q) \subseteq ToSet(wire[s]),
         NEW C \in SUBSET Nodes, clients' = [clients EXCEPT ![n] = C],
         \A k \in C : k > n, clients[n] \subseteq C,
         lost \subseteq lost', lost' \subseteq Sessions,
         s \in lost' \/ \A k \in ToSet(wire[s]) : k \in Nodes /\ n < k => k \in C \cup ToSet(q),
         UNCHANGED <<up, own, session, sessions, known, cut, refused>>
  PROVE  MeshInv'
<1>1. Belongs(s, n)
  BY DEF MeshInv, RecordInv, ConnectionInv, ClusterConfig, Sessions
<1>2. \A x \in Sessions : x # s => wire'[x] = wire[x]
  BY DEF MeshInv, Shape
<1>3. wire'[s] = q /\ clients'[n] = C
  BY DEF MeshInv, Shape
<1>4. \A m \in Nodes : m # n => clients'[m] = clients[m]
  BY DEF MeshInv, Shape
<1>5. Shape'
  <2>1. wire' \in [Sessions -> Seq(Nodes \cup {Handshake})]
    BY DEF MeshInv, Shape
  <2>2. clients' \in [Nodes -> SUBSET Nodes]
    BY DEF MeshInv, Shape
  <2>3. ASSUME NEW x \in Sessions PROVE WireOK(x)'
    BY <1>2, <1>3 DEF MeshInv, Shape, WireOK
  <2>4. ASSUME NEW m \in Nodes, NEW k \in clients'[m] PROVE k > m
    BY <1>3, <1>4, <2>4 DEF MeshInv, Shape
  <2>5. QED
    BY <2>1, <2>2, <2>3, <2>4 DEF MeshInv, Shape
<1>6. RecordInv'
  BY SameRecords DEF MeshInv, RecordInv, ConnectionInv, Belongs
<1>7. ASSUME NEW m \in known, NEW k \in known PROVE Planned(m, k)'
  <2>1. Planned(m, k) /\ m \in Nodes /\ k \in Nodes
    BY DEF MeshInv, Shape
  <2>2. m \notin refused => sessions[m] # NoSession /\ sessions[m] \in Sessions
    BY <2>1 DEF MeshInv, RecordInv, KnownInv, Shape
  <2>3. CASE m = n
    BY <1>3, <2>1, <2>2, <2>3 DEF Planned
  <2>4. CASE m # n
    <3>1. sessions[m] # NoSession => sessions[m] # s
      BY <1>1, <2>1, <2>4 DEF MeshInv, RecordInv, EnteredInv, Belongs
    <3>2. QED
      BY <1>2, <1>4, <2>1, <2>2, <2>4, <3>1 DEF Planned
  <2>5. QED
    BY <2>3, <2>4
<1>8. QED
  BY <1>5, <1>6, <1>7 DEF MeshInv

\* The node handles the master's handshake: nobody's channel is lost with it, unless the
\* connection is recorded as lost.
LEMMA HandshakeMesh ==
  ASSUME ClusterConfig, MeshInv, NEW n \in Nodes, OnRecvHandshake(n)
  PROVE  MeshInv'
<1>1. PICK s \in Sessions : s = own[n]
  BY DEF MeshInv, Shape, OnRecvHandshake
<1>2. PICK p \in Seq(Nodes \cup {Handshake}) : p = wire[s] /\ p # <<>> /\ Head(p) = Handshake
  BY <1>1 DEF MeshInv, Shape, OnRecvHandshake
<1>3. PICK k \in 1 .. Len(p) : /\ wire' = [wire EXCEPT ![s] = SubSeq(p, k + 1, Len(p))]
                               /\ lost' = IF k > 1 THEN lost \cup {s} ELSE lost
  BY <1>1, <1>2 DEF OnRecvHandshake, MeshInv, Shape
<1>4. PICK q : q = SubSeq(p, k + 1, Len(p))
  OBVIOUS
<1>5. /\ q \in Seq(Nodes \cup {Handshake}) /\ ToSet(q) \subseteq ToSet(p)
      /\ k = 1 => ToSet(p) \subseteq {Handshake} \cup ToSet(q)
  <2>1. /\ q \in Seq(Nodes \cup {Handshake}) /\ ToSet(q) \subseteq ToSet(p)
        /\ k = 1 => ToSet(p) \subseteq {Head(p)} \cup ToSet(q)
    <3>1. PICK T : T = Nodes \cup {Handshake}
      OBVIOUS
    <3>2. p \in Seq(T) /\ k \in 1 .. Len(p) /\ Without(p, k, q)
      BY <1>4, <3>1 DEF Without
    <3>3. /\ q \in Seq(T) /\ ToSet(q) \subseteq ToSet(p)
          /\ k = 1 => ToSet(p) \subseteq {Head(p)} \cup ToSet(q)
      BY ONLY <3>2, InSuffix, Zenon
    <3>4. QED
      BY <3>1, <3>3
  <2>2. QED
    BY <1>2, <2>1
<1>6. PICK C \in SUBSET Nodes : C = clients[n]
  BY DEF MeshInv, Shape
<1>7. clients' = [clients EXCEPT ![n] = C] /\ \A x \in C : x > n
  BY <1>6 DEF MeshInv, Shape, OnRecvHandshake
<1>8. lost \subseteq lost' /\ lost' \subseteq Sessions
  BY <1>3 DEF MeshInv, Shape
<1>9. Handshake \notin Nodes
  BY DEF ClusterConfig
<1>10. s \in lost' \/ \A x \in ToSet(wire[s]) : x \in Nodes /\ n < x => x \in C \cup ToSet(q)
  <2>1. CASE k = 1
    BY <1>2, <1>5, <1>9, <2>1
  <2>2. CASE k > 1
    BY <1>3, <2>2
  <2>3. QED
    BY <2>1, <2>2
<1>11. UNCHANGED <<up, own, session, sessions, known, cut, refused>>
  BY DEF OnRecvHandshake
<1>12. wire' = [wire EXCEPT ![s] = q] /\ ToSet(q) \subseteq ToSet(wire[s])
  BY <1>2, <1>3, <1>4, <1>5
<1>13. clients[n] \subseteq C
  BY <1>6
<1>14. QED
  BY <1>1, <1>5, <1>7, <1>8, <1>10, <1>11, <1>12, <1>13, TakeMesh

\* The node makes the client session that it was told to make.
LEMMA AdhocMesh ==
  ASSUME ClusterConfig, MeshInv, NEW n \in Nodes, OnRecvClusterAdhocMsg(n)
  PROVE  MeshInv'
<1>1. PICK s \in Sessions : s = own[n]
  BY DEF MeshInv, Shape, OnRecvClusterAdhocMsg
<1>2. PICK p \in Seq(Nodes \cup {Handshake}) : p = wire[s] /\ p # <<>> /\ Head(p) # Handshake
  BY <1>1 DEF MeshInv, Shape, OnRecvClusterAdhocMsg
<1>3. PICK h \in Nodes : h = Head(p)
  BY <1>2
<1>4. PICK q : q = Tail(p)
  OBVIOUS
<1>5. q \in Seq(Nodes \cup {Handshake}) /\ ToSet(p) = {h} \cup ToSet(q)
  BY <1>2, <1>3, <1>4, InRest
<1>6. n \in Nat /\ h \in Nat
  BY DEF ClusterConfig
<1>7. h > n
  <2>1. Belongs(s, n)
    BY <1>1 DEF MeshInv, RecordInv, ConnectionInv, OnRecvClusterAdhocMsg
  <2>2. h \in ToSet(wire[s])
    BY <1>2, <1>5
  <2>3. QED
    BY <1>2, <1>3, <2>1, <2>2 DEF MeshInv, Shape, WireOK, Belongs
<1>8. PICK C \in SUBSET Nodes : C = clients[n] \cup {h}
  BY DEF MeshInv, Shape
<1>9. clients' = [clients EXCEPT ![n] = C]
  BY <1>1, <1>2, <1>3, <1>6, <1>7, <1>8 DEF MeshInv, Shape, OnRecvClusterAdhocMsg
<1>10. (\A x \in C : x > n) /\ clients[n] \subseteq C
  BY <1>7, <1>8 DEF MeshInv, Shape
<1>11. \A x \in ToSet(wire[s]) : x \in Nodes /\ n < x => x \in C \cup ToSet(q)
  BY <1>2, <1>5, <1>8
<1>12. wire' = [wire EXCEPT ![s] = q] /\ ToSet(q) \subseteq ToSet(wire[s])
  BY <1>1, <1>2, <1>4, <1>5 DEF OnRecvClusterAdhocMsg, MeshInv, Shape
<1>13. lost \subseteq lost' /\ lost' \subseteq Sessions
  BY DEF MeshInv, Shape, OnRecvClusterAdhocMsg
<1>14. UNCHANGED <<up, own, session, sessions, known, cut, refused>>
  BY DEF OnRecvClusterAdhocMsg
<1>15. QED
  BY <1>1, <1>5, <1>9, <1>10, <1>11, <1>12, <1>13, <1>14, TakeMesh

\* The master knows nobody after a crash.
LEMMA MasterCrashMesh ==
  ASSUME ClusterConfig, MeshInv, MasterCrash
  PROVE  MeshInv'
<1>1. ASSUME NEW s \in Sessions
      PROVE  /\ session'[s] # NoSession <=> session[s] # NoSession
             /\ session[s] # NoSession => /\ session'[s] \in [node : Nodes, state : States]
                                          /\ session'[s].node = session[s].node
                                          /\ session'[s].state = "gone"
  <2>1. CASE session[s] = NoSession
    BY <2>1 DEF MasterCrash
  <2>2. CASE session[s] # NoSession
    <3>1. PICK f \in [node : Nodes, state : States] : f = session[s]
      BY <2>2 DEF MeshInv, Shape
    <3>2. session'[s] = [f EXCEPT !.state = "gone"]
      BY <2>2, <3>1 DEF MasterCrash
    <3>3. session'[s] \in [node : Nodes, state : States]
      BY <3>2 DEF States
    <3>4. NoSession \notin [node : Nodes, state : States]
      BY DEF ClusterConfig
    <3>5. QED
      BY <2>2, <3>1, <3>2, <3>3, <3>4
  <2>3. QED
    BY <2>1, <2>2
<1>2. Shape'
  <2>1. session' \in [Sessions -> [node : Nodes, state : States] \cup {NoSession}]
    <3>1. ASSUME NEW s \in Sessions
          PROVE  session'[s] \in [node : Nodes, state : States] \cup {NoSession}
      BY <1>1
    <3>2. QED
      BY <3>1 DEF MasterCrash
  <2>2. ASSUME NEW s \in Sessions PROVE WireOK(s)'
    BY <1>1 DEF MeshInv, Shape, WireOK, MasterCrash
  <2>3. QED
    BY <2>1, <2>2 DEF MeshInv, Shape, MasterCrash
<1>3. RecordInv'
  <2>1. ConnectionInv'
    BY <1>1 DEF MeshInv, Shape, RecordInv, ConnectionInv, Belongs, MasterCrash
  <2>2. OneInv'
    BY <1>1 DEF OneInv, Belongs, Identified
  <2>3. QED
    BY <2>1, <2>2 DEF RecordInv, EnteredInv, KnownInv, MasterCrash
<1>4. QED
  BY <1>2, <1>3 DEF MeshInv, MasterCrash

\* The rest of the master's steps change one session, of one node.  A session keeps its node.
LEMMA NewState ==
  ASSUME ClusterConfig, Shape, NEW s \in Sessions, session[s] # NoSession, NEW st \in States,
         session' = [session EXCEPT ![s].state = st]
  PROVE  /\ session' \in [Sessions -> [node : Nodes, state : States] \cup {NoSession}]
         /\ session'[s] # NoSession /\ session'[s].node = session[s].node /\ session'[s].state = st
         /\ \A x \in Sessions : x # s => session'[x] = session[x]
         /\ \A x \in Sessions, n \in Nodes : Belongs(x, n)' <=> Belongs(x, n)
<1>1. PICK f \in [node : Nodes, state : States] : f = session[s]
  BY DEF Shape
<1>2. session' = [session EXCEPT ![s] = [f EXCEPT !.state = st]]
  BY <1>1
<1>3. PICK g \in [node : Nodes, state : States] : g = [f EXCEPT !.state = st] /\ g.node = f.node /\ g.state = st
  <2>1. /\ [f EXCEPT !.state = st] \in [node : Nodes, state : States]
        /\ [f EXCEPT !.state = st].node = f.node /\ [f EXCEPT !.state = st].state = st
    OBVIOUS
  <2>2. QED
    BY <2>1
<1>4. g # NoSession
  BY DEF ClusterConfig
<1>5. session' = [session EXCEPT ![s] = g] /\ session \in [Sessions -> [node : Nodes, state : States] \cup {NoSession}]
  BY <1>2, <1>3 DEF Shape
<1>6. session'[s] = g /\ \A x \in Sessions : x # s => session'[x] = session[x]
  BY <1>5
<1>7. session' \in [Sessions -> [node : Nodes, state : States] \cup {NoSession}]
  BY <1>5
<1>8. QED
  BY <1>1, <1>3, <1>4, <1>6, <1>7 DEF Belongs

\* The session of a node that the master is told of, in OnClose or when a second one is refused.
LEMMA ToldMesh ==
  ASSUME ClusterConfig, MeshInv, NEW s \in Sessions, NEW n \in Nodes, Belongs(s, n),
         session' = [session EXCEPT ![s].state = "gone"], Told(n),
         n \in refused' \/ Identified(s),
         refused \subseteq refused', refused' \subseteq Nodes, cut \subseteq cut',
         cut' \subseteq Sessions, UNCHANGED <<up, own, clients, wire, lost>>
  PROVE  MeshInv'
<1>1. /\ session' \in [Sessions -> [node : Nodes, state : States] \cup {NoSession}]
      /\ session'[s] # NoSession /\ session'[s].node = session[s].node /\ session'[s].state = "gone"
      /\ \A x \in Sessions : x # s => session'[x] = session[x]
      /\ \A x \in Sessions, m \in Nodes : Belongs(x, m)' <=> Belongs(x, m)
  BY NewState DEF MeshInv, States, Belongs
<1>2. known' = known \ {n} /\ sessions' = [sessions EXCEPT ![n] = NoSession]
  BY DEF Told
<1>3. sessions'[n] = NoSession /\ \A m \in Nodes : m # n => sessions'[m] = sessions[m]
  BY <1>2 DEF MeshInv, Shape
<1>4. \A m \in Nodes : m # n /\ sessions[m] # NoSession => sessions[m] \in Sessions /\ sessions[m] # s
  BY DEF MeshInv, Shape, RecordInv, EnteredInv, Belongs
<1>5. Shape'
  <2>1. ASSUME NEW x \in Sessions PROVE WireOK(x)'
    BY <1>1 DEF MeshInv, Shape, WireOK
  <2>2. QED
    BY <1>1, <1>2, <2>1 DEF MeshInv, Shape
<1>6. RecordInv'
  <2>1. EnteredInv'
    BY <1>1, <1>3, <1>4 DEF MeshInv, RecordInv, EnteredInv, Identified
  <2>2. ConnectionInv'
    BY <1>1 DEF MeshInv, Shape, RecordInv, ConnectionInv
  <2>3. OneInv'
    <3>1. ASSUME NEW x \in Sessions, NEW m \in Nodes, Belongs(x, m)', Identified(x)',
                 m \notin refused'
          PROVE  sessions'[m] = x
      <4>1. x # s /\ Belongs(x, m) /\ Identified(x)
        BY <1>1, <3>1 DEF Identified
      <4>2. sessions[m] = x
        BY <4>1, <3>1 DEF MeshInv, RecordInv, OneInv
      <4>3. m # n
        BY <3>1, <4>1, <4>2 DEF MeshInv, RecordInv, OneInv
      <4>4. QED
        BY <1>3, <4>2, <4>3
    <3>2. QED
      BY <3>1 DEF OneInv
  <2>4. KnownInv'
    BY <1>1, <1>2, <1>3, <1>4 DEF MeshInv, Shape, RecordInv, KnownInv
  <2>5. QED
    BY <2>1, <2>2, <2>3, <2>4 DEF RecordInv
<1>7. ASSUME NEW m \in known', NEW k \in known' PROVE Planned(m, k)'
  <2>1. Planned(m, k) /\ m \in Nodes /\ m # n
    BY <1>2 DEF MeshInv, Shape
  <2>2. QED
    BY <1>3, <2>1 DEF Planned
<1>8. QED
  BY <1>5, <1>6, <1>7 DEF MeshInv

\* The master learns of the end of a connection.
LEMMA CloseMesh ==
  ASSUME ClusterConfig, MeshInv, NEW s \in Sessions, OnClose(s)
  PROVE  MeshInv'
<1>1. PICK n \in Nodes : n = session[s].node
  BY DEF OnClose, MeshInv, Shape
<1>2. Belongs(s, n) /\ session' = [session EXCEPT ![s].state = "gone"]
  BY <1>1 DEF OnClose, Belongs
<1>3. CASE Identified(s)
  <2>1. Told(n)
    BY <1>1, <1>3 DEF OnClose
  <2>2. /\ refused \subseteq refused' /\ refused' \subseteq Nodes
        /\ cut \subseteq cut' /\ cut' \subseteq Sessions /\ UNCHANGED <<up, own, clients, wire, lost>>
    BY DEF OnClose, MeshInv, Shape
  <2>3. QED
    BY <1>2, <1>3, <2>1, <2>2, ToldMesh
<1>4. CASE ~Identified(s)
  <2>1. UNCHANGED <<up, own, clients, wire, lost, known, sessions, cut, refused>>
    BY <1>4 DEF OnClose
  <2>2. /\ session' \in [Sessions -> [node : Nodes, state : States] \cup {NoSession}]
        /\ session'[s] # NoSession /\ session'[s].node = session[s].node /\ session'[s].state = "gone"
        /\ \A x \in Sessions : x # s => session'[x] = session[x]
        /\ \A x \in Sessions, m \in Nodes : Belongs(x, m)' <=> Belongs(x, m)
    BY <1>2, NewState DEF MeshInv, States, Belongs
  <2>3. \A m \in Nodes : sessions[m] # NoSession => sessions[m] \in Sessions /\ sessions[m] # s
    BY <1>4 DEF MeshInv, Shape, RecordInv, EnteredInv
  <2>4. Shape'
    <3>1. ASSUME NEW x \in Sessions PROVE WireOK(x)'
      BY <2>1, <2>2 DEF MeshInv, Shape, WireOK
    <3>2. QED
      BY <2>1, <2>2, <3>1 DEF MeshInv, Shape
  <2>5. RecordInv'
    <3>1. EnteredInv'
      BY <2>1, <2>2, <2>3 DEF MeshInv, RecordInv, EnteredInv, Identified
    <3>2. ConnectionInv'
      BY <2>1, <2>2 DEF MeshInv, Shape, RecordInv, ConnectionInv
    <3>3. OneInv'
      BY <2>1, <2>2 DEF MeshInv, RecordInv, OneInv, Identified
    <3>4. KnownInv'
      BY <2>1, <2>2, <2>3 DEF MeshInv, Shape, RecordInv, KnownInv
    <3>5. QED
      BY <3>1, <3>2, <3>3, <3>4 DEF RecordInv
  <2>6. QED
    BY <2>1, <2>4, <2>5 DEF MeshInv, Planned
<1>5. QED
  BY <1>3, <1>4

\* The node's handshake: its session is entered, or refused.
LEMMA IdentifyMesh ==
  ASSUME ClusterConfig, MeshInv, NEW s \in Sessions, OnRecvHarborHandshakeMsg(s)
  PROVE  MeshInv'
<1>1. PICK n \in Nodes : n = session[s].node
  BY DEF OnRecvHarborHandshakeMsg, MeshInv, Shape
<1>2. Belongs(s, n) /\ session[s] # NoSession /\ session[s].state = "accepted"
  BY <1>1 DEF OnRecvHarborHandshakeMsg, Belongs
<1>3. UNCHANGED <<up, own, clients, lost>>
  BY DEF OnRecvHarborHandshakeMsg
<1>4. CASE /\ sessions[n] # NoSession
           /\ session' = [session EXCEPT ![s].state = "gone"]
           /\ cut' = cut \cup {s}
           /\ refused' = refused \cup {n}
           /\ Told(n)
           /\ UNCHANGED wire
  <2>1. /\ refused \subseteq refused' /\ refused' \subseteq Nodes /\ n \in refused'
        /\ cut \subseteq cut' /\ cut' \subseteq Sessions /\ UNCHANGED <<up, own, clients, wire, lost>>
    BY <1>3, <1>4 DEF MeshInv, Shape
  <2>2. QED
    BY <1>2, <1>4, <2>1, ToldMesh
<1>5. CASE /\ sessions[n] = NoSession
           /\ sessions' = [sessions EXCEPT ![n] = s]
           /\ session' = [session EXCEPT ![s].state = "delay"]
           /\ wire' \in {wire, [wire EXCEPT ![s] = <<>>]}
           /\ UNCHANGED <<known, cut, refused>>
  <2>1. NoSession \notin Sessions
    BY DEF ClusterConfig, Sessions
  <2>2. /\ session' \in [Sessions -> [node : Nodes, state : States] \cup {NoSession}]
        /\ session'[s] # NoSession /\ session'[s].node = session[s].node /\ session'[s].state = "delay"
        /\ \A x \in Sessions : x # s => session'[x] = session[x]
        /\ \A x \in Sessions, m \in Nodes : Belongs(x, m)' <=> Belongs(x, m)
    BY <1>2, <1>5, NewState DEF MeshInv, States
  <2>3. sessions'[n] = s /\ \A m \in Nodes : m # n => sessions'[m] = sessions[m]
    BY <1>5 DEF MeshInv, Shape
  <2>4. \A m \in Nodes : sessions[m] # NoSession => sessions[m] \in Sessions /\ sessions[m] # s
    BY <1>2 DEF MeshInv, Shape, RecordInv, EnteredInv, Identified
  <2>5. n \in known => n \in refused
    BY <1>5 DEF MeshInv, RecordInv, KnownInv
  <2>6. /\ wire' \in [Sessions -> Seq(Nodes \cup {Handshake})]
        /\ \A x \in Sessions : x # s => wire'[x] = wire[x]
        /\ \A x \in Sessions : ToSet(wire'[x]) \subseteq ToSet(wire[x])
    <3>1. CASE wire' = wire
      BY <3>1 DEF MeshInv, Shape
    <3>2. CASE wire' = [wire EXCEPT ![s] = <<>>]
      <4>1. wire' \in [Sessions -> Seq(Nodes \cup {Handshake})] /\ wire'[s] = <<>>
        BY <3>2, InNothing DEF MeshInv, Shape
      <4>2. \A x \in Sessions : x # s => wire'[x] = wire[x]
        BY <3>2 DEF MeshInv, Shape
      <4>3. QED
        BY <4>1, <4>2, InNothing
    <3>3. QED
      BY <1>5, <3>1, <3>2
  <2>7. Shape'
    <3>1. ASSUME NEW x \in Sessions PROVE WireOK(x)'
      BY <2>2, <2>6 DEF MeshInv, Shape, WireOK
    <3>2. sessions' \in [Nodes -> Sessions \cup {NoSession}]
      BY <1>5 DEF MeshInv, Shape
    <3>3. QED
      BY <1>3, <1>5, <2>2, <2>6, <3>1, <3>2 DEF MeshInv, Shape
  <2>8. RecordInv'
    <3>1. EnteredInv'
      <4>1. ASSUME NEW m \in Nodes, sessions'[m] # NoSession
            PROVE  Belongs(sessions[m], m)' /\ Identified(sessions[m])'
        <5>1. CASE m = n
          BY <1>2, <2>2, <2>3, <5>1 DEF Identified
        <5>2. CASE m # n
          BY <2>2, <2>3, <2>4, <4>1, <5>2 DEF MeshInv, RecordInv, EnteredInv, Identified
        <5>3. QED
          BY <5>1, <5>2
      <4>2. QED
        BY <4>1 DEF EnteredInv
    <3>2. ConnectionInv'
      BY <1>3, <2>2 DEF MeshInv, Shape, RecordInv, ConnectionInv
    <3>3. OneInv'
      <4>1. ASSUME NEW x \in Sessions, NEW m \in Nodes, Belongs(x, m)', Identified(x)',
                   m \notin refused'
            PROVE  sessions'[m] = x
        <5>1. CASE x = s
          BY <1>1, <1>2, <2>2, <2>3, <4>1, <5>1 DEF Belongs
        <5>2. CASE x # s
          <6>1. sessions[m] = x
            BY <1>5, <2>2, <4>1, <5>2 DEF MeshInv, RecordInv, OneInv, Identified
          <6>2. QED
            BY <1>5, <2>1, <2>3, <6>1
        <5>3. QED
          BY <5>1, <5>2
      <4>2. QED
        BY <4>1 DEF OneInv
    <3>4. KnownInv'
      BY <1>5, <2>2, <2>3, <2>4, <2>5 DEF MeshInv, Shape, RecordInv, KnownInv
    <3>5. QED
      BY <3>1, <3>2, <3>3, <3>4 DEF RecordInv
  <2>9. ASSUME NEW m \in known, NEW k \in known PROVE Planned(m, k)'
    <3>1. Planned(m, k) /\ m \in Nodes
      BY DEF MeshInv, Shape
    <3>2. CASE m = n
      BY <1>5, <2>5, <3>2 DEF Planned
    <3>3. CASE m # n
      <4>1. m \notin refused => sessions[m] \in Sessions /\ sessions[m] # s
        BY <2>4, <3>1 DEF MeshInv, RecordInv, KnownInv
      <4>2. QED
        BY <1>3, <1>5, <2>3, <2>6, <3>1, <3>3, <4>1 DEF Planned
    <3>4. QED
      BY <3>2, <3>3
  <2>10. QED
    BY <1>5, <2>7, <2>8, <2>9 DEF MeshInv
<1>6. QED
  BY <1>1, <1>4, <1>5 DEF OnRecvHarborHandshakeMsg

\* What Cluster::OnOpen tells each node: the opened one, all those above it, and those below
\* it, the opened one.
LEMMA AdhocFacts ==
  ASSUME ClusterConfig, Shape, NEW n \in Nodes, NEW m \in Nodes
  PROVE  /\ Adhoc(n)[m] \in Seq(Nodes)
         /\ \A k : k \in ToSet(Adhoc(n)[m]) <=>
              \/ m = n /\ k \in known /\ k > n
              \/ m # n /\ m \in known /\ m < n /\ k = n
<1>1. CASE m = n
  <2>1. PICK S : S = {k \in known : k > n}
    OBVIOUS
  <2>2. S \subseteq Nodes /\ IsFiniteSet(Nodes)
    BY <2>1 DEF Shape, ClusterConfig
  <2>3. IsFiniteSet(S)
    BY <2>2, FS_Subset
  <2>4. PICK q : q = SetToSeq(S)
    OBVIOUS
  <2>5. q \in Seq(S) /\ ToSet(q) = S
    BY <2>3, <2>4, SetToSeqFacts
  <2>6. Adhoc(n)[m] = q
    BY <1>1, <2>1, <2>4 DEF Adhoc
  <2>7. q \in Seq(Nodes)
    BY <2>2, <2>5
  <2>8. QED
    BY <1>1, <2>1, <2>5, <2>6, <2>7
<1>2. CASE m # n /\ m \in known /\ m < n
  <2>1. Adhoc(n)[m] = <<n>>
    BY <1>2 DEF Adhoc
  <2>2. <<n>> \in Seq(Nodes) /\ ToSet(<<n>>) = {n}
    BY DEF ToSet
  <2>3. QED
    BY <1>2, <2>1, <2>2
<1>3. CASE m # n /\ ~(m \in known /\ m < n)
  <2>1. Adhoc(n)[m] = <<>>
    BY <1>3 DEF Adhoc
  <2>2. QED
    BY <1>3, <2>1, InNothing
<1>4. QED
  BY <1>1, <1>2, <1>3

\* What a connection carries after the master has sent: more, if its node has not left it.
LEMMA SendFacts ==
  ASSUME ClusterConfig, Shape, EnteredInv, NEW n \in Nodes, wire' = Send(Adhoc(n)),
         NEW s \in Sessions
  PROVE  /\ wire'[s] \in Seq(Nodes \cup {Handshake}) /\ ToSet(wire[s]) \subseteq ToSet(wire'[s])
         /\ \A m \in Nodes : sessions[m] = s /\ own[m] = s =>
              ToSet(wire'[s]) = ToSet(wire[s]) \cup ToSet(Adhoc(n)[m])
         /\ ~(\E m \in Nodes : sessions[m] = s /\ own[m] = s) => wire'[s] = wire[s]
<1>1. CASE \E m \in Nodes : sessions[m] = s /\ own[m] = s
  <2>1. PICK m \in Nodes : sessions[m] = s /\ own[m] = s
    BY <1>1
  <2>2. s # NoSession
    BY DEF ClusterConfig, Sessions
  <2>3. \A k \in Nodes : sessions[k] = s => k = m
    BY <2>1, <2>2 DEF EnteredInv, Belongs
  <2>4. session[s].node = m
    BY <2>1, <2>2 DEF EnteredInv, Belongs
  <2>5. PICK T : T = Nodes \cup {Handshake}
    OBVIOUS
  <2>6. PICK p \in Seq(T) : p = wire[s]
    BY <2>5 DEF Shape
  <2>7. PICK q \in Seq(T) : q = Adhoc(n)[m]
    <3>1. Adhoc(n)[m] \in Seq(Nodes)
      BY AdhocFacts
    <3>2. QED
      BY <2>5, <3>1
  <2>8. PICK r : r = p \o q
    OBVIOUS
  <2>9. wire'[s] = r
    BY <2>1, <2>4, <2>6, <2>7, <2>8 DEF Send
  <2>10. r \in Seq(T) /\ ToSet(r) = ToSet(p) \cup ToSet(q)
    <3>1. Appended(p, q, r)
      BY <2>8 DEF Appended
    <3>2. QED
      BY <3>1, InBoth
  <2>11. QED
    BY <1>1, <2>3, <2>5, <2>6, <2>7, <2>9, <2>10
<1>2. CASE ~(\E m \in Nodes : sessions[m] = s /\ own[m] = s)
  BY <1>2 DEF Send, Shape
<1>3. QED
  BY <1>1, <1>2

\* The session is opened: both halves of every new pair are told, one message each.
LEMMA OpenMesh ==
  ASSUME ClusterConfig, MeshInv, NEW s \in Sessions, OnOpen(s)
  PROVE  MeshInv'
<1>1. PICK n \in Nodes : n = session[s].node
  BY DEF OnOpen, MeshInv, Shape
<1>2. Belongs(s, n) /\ session[s] # NoSession /\ session[s].state = "delay" /\ Identified(s)
  BY <1>1 DEF OnOpen, Belongs, Identified
<1>3. UNCHANGED <<up, own, clients, sessions, cut, refused, lost>> /\ known' = known \cup {n}
  BY <1>1 DEF OnOpen
<1>4. /\ session' \in [Sessions -> [node : Nodes, state : States] \cup {NoSession}]
      /\ session'[s] # NoSession /\ session'[s].node = session[s].node /\ session'[s].state = "open"
      /\ \A x \in Sessions : x # s => session'[x] = session[x]
      /\ \A x \in Sessions, m \in Nodes : Belongs(x, m)' <=> Belongs(x, m)
  BY <1>2, NewState DEF MeshInv, States, OnOpen
<1>5. n \notin refused => sessions[n] = s
  BY <1>2 DEF MeshInv, RecordInv, OneInv
<1>6. RecordInv'
  <2>1. \A x \in Sessions : Identified(x)' <=> Identified(x)
    BY <1>2, <1>4 DEF Identified
  <2>2. EnteredInv'
    BY <1>3, <1>4, <2>1 DEF MeshInv, Shape, RecordInv, EnteredInv
  <2>3. ConnectionInv'
    BY <1>3, <1>4 DEF MeshInv, Shape, RecordInv, ConnectionInv
  <2>4. OneInv'
    BY <1>3, <1>4, <2>1 DEF MeshInv, RecordInv, OneInv
  <2>5. KnownInv'
    <3>1. NoSession \notin Sessions
      BY DEF ClusterConfig, Sessions
    <3>2. ASSUME NEW m \in known', m \notin refused
          PROVE  sessions[m] # NoSession /\ session'[sessions[m]].state = "open"
      <4>1. CASE m = n
        BY <1>4, <1>5, <3>1, <3>2, <4>1
      <4>2. CASE m # n
        <5>1. m \in known /\ m \in Nodes
          BY <1>3, <4>2 DEF MeshInv, Shape
        <5>2. sessions[m] # NoSession /\ session[sessions[m]].state = "open" /\ sessions[m] \in Sessions
          BY <3>2, <5>1 DEF MeshInv, Shape, RecordInv, KnownInv
        <5>3. QED
          BY <1>4, <5>2
      <4>3. QED
        BY <4>1, <4>2
    <3>3. QED
      BY <1>3, <3>2 DEF KnownInv
  <2>6. QED
    BY <2>2, <2>3, <2>4, <2>5 DEF RecordInv
<1>7. CASE n \in known
  <2>1. wire' = wire /\ known' = known
    BY <1>1, <1>3, <1>7 DEF OnOpen
  <2>2. Shape'
    <3>1. ASSUME NEW x \in Sessions PROVE WireOK(x)'
      BY <1>4, <2>1 DEF MeshInv, Shape, WireOK
    <3>2. QED
      BY <1>3, <1>4, <2>1, <3>1 DEF MeshInv, Shape
  <2>3. QED
    BY <1>3, <1>6, <2>1, <2>2 DEF MeshInv, Planned
<1>8. CASE n \notin known
  <2>1. wire' = Send(Adhoc(n))
    BY <1>1, <1>8 DEF OnOpen
  <2>2. \A x \in Sessions :
          /\ wire'[x] \in Seq(Nodes \cup {Handshake}) /\ ToSet(wire[x]) \subseteq ToSet(wire'[x])
          /\ \A m \in Nodes : sessions[m] = x /\ own[m] = x =>
               ToSet(wire'[x]) = ToSet(wire[x]) \cup ToSet(Adhoc(n)[m])
          /\ ~(\E m \in Nodes : sessions[m] = x /\ own[m] = x) => wire'[x] = wire[x]
    BY <2>1, SendFacts DEF MeshInv, RecordInv
  <2>3. \A m \in Nodes, k \in Nodes : k \in ToSet(Adhoc(n)[m]) <=>
          \/ m = n /\ k \in known /\ k > n
          \/ m # n /\ m \in known /\ m < n /\ k = n
    BY AdhocFacts DEF MeshInv
  <2>4. ASSUME NEW x \in Sessions PROVE WireOK(x)'
    <3>1. WireOK(x)
      BY DEF MeshInv, Shape
    <3>2. session'[x] = NoSession <=> session[x] = NoSession
      BY <1>2, <1>4
    <3>3. session'[x].node = session[x].node
      BY <1>4
    <3>4. ASSUME NEW k \in ToSet(wire'[x])
          PROVE  k = Handshake \/ (session[x] # NoSession /\ k > session[x].node)
      <4>1. CASE k \in ToSet(wire[x])
        BY <3>1, <4>1 DEF WireOK
      <4>2. CASE k \notin ToSet(wire[x])
        <5>1. PICK m \in Nodes : sessions[m] = x /\ own[m] = x
          BY <2>2, <3>4, <4>2
        <5>2. k \in ToSet(Adhoc(n)[m])
          BY <2>2, <3>4, <4>2, <5>1
        <5>3. NoSession \notin Sessions /\ m \in Nat /\ n \in Nat
          <6>1. \A y \in Sessions : y \in Nat
            BY ONLY DEF Sessions
          <6>2. NoSession \notin Nat /\ Nodes \subseteq Nat
            BY DEF ClusterConfig
          <6>3. QED
            BY ONLY <6>1, <6>2, m \in Nodes, n \in Nodes
        <5>4. Belongs(x, m)
          BY <5>1, <5>3 DEF MeshInv, RecordInv, EnteredInv
        <5>5. k > m
          <6>1. \/ m = n /\ k \in known /\ k > n
                \/ m # n /\ m \in known /\ m < n /\ k = n
            BY <5>2, AdhocFacts DEF MeshInv
          <6>2. QED
            BY <5>3, <6>1
        <5>6. QED
          BY <5>4, <5>5 DEF Belongs
      <4>3. QED
        BY <4>1, <4>2
    <3>5. QED
      BY <3>2, <3>3, <3>4 DEF WireOK
  <2>5. Shape'
    <3>1. wire' \in [Sessions -> Seq(Nodes \cup {Handshake})]
      BY <2>1, <2>2 DEF Send
    <3>2. QED
      BY <1>3, <1>4, <2>4, <3>1 DEF MeshInv, Shape
  <2>6. ASSUME NEW m \in known', NEW k \in known' PROVE Planned(m, k)'
    <3>1. m \in Nodes /\ k \in Nodes /\ m \in Nat /\ k \in Nat
      BY <1>3 DEF MeshInv, Shape, ClusterConfig
    <3>2. SUFFICES ASSUME m < k, m \notin refused, own[m] = sessions[m], sessions[m] \notin cut,
                          sessions[m] \notin lost
                   PROVE  k \in clients[m] \cup ToSet(wire'[sessions[m]])
      BY <1>3 DEF Planned
    <3>3. PICK x \in Sessions : x = sessions[m]
      <4>1. sessions[m] # NoSession
        BY <1>3, <1>6, <3>2 DEF RecordInv, KnownInv
      <4>2. QED
        BY <3>1, <4>1 DEF MeshInv, Shape
    <3>4. ToSet(wire'[x]) = ToSet(wire[x]) \cup ToSet(Adhoc(n)[m])
      BY <2>2, <3>1, <3>2, <3>3
    <3>5. CASE m = n
      <4>1. k \in known /\ k > n
        BY <1>3, <3>1, <3>2, <3>5
      <4>2. k \in ToSet(Adhoc(n)[m])
        BY <2>3, <3>1, <3>5, <4>1
      <4>3. QED
        BY <3>3, <3>4, <4>2
    <3>6. CASE m # n /\ k = n
      <4>1. k \in ToSet(Adhoc(n)[m])
        BY <1>3, <2>3, <3>1, <3>2, <3>6
      <4>2. QED
        BY <3>3, <3>4, <4>1
    <3>7. CASE m # n /\ k # n
      <4>1. Planned(m, k)
        BY <1>3, <3>7 DEF MeshInv
      <4>2. QED
        BY <3>2, <3>3, <3>4, <4>1 DEF Planned
    <3>8. QED
      BY <3>5, <3>6, <3>7
  <2>7. QED
    BY <1>6, <2>5, <2>6 DEF MeshInv
<1>9. QED
  BY <1>7, <1>8

\* Every step keeps the invariant.
LEMMA NextMesh == ClusterConfig /\ MeshInv /\ [ClusterNext]_clusterVars => MeshInv'
<1>1. SUFFICES ASSUME ClusterConfig, MeshInv, [ClusterNext]_clusterVars PROVE MeshInv'
  OBVIOUS
<1>2. ASSUME NEW n \in Nodes, Start(n) \/ Crash(n) \/ NodeStep(n) PROVE MeshInv'
  BY <1>1, <1>2, StartMesh, CrashMesh, ConnectMesh, TerminateMesh, HandshakeMesh, AdhocMesh
     DEF NodeStep
<1>3. ASSUME NEW s \in Sessions, MasterStep(s) \/ Break(s) PROVE MeshInv'
  BY <1>1, <1>3, IdentifyMesh, OpenMesh, CloseMesh, BreakMesh DEF MasterStep
<1>4. CASE MasterCrash
  BY <1>1, <1>4, MasterCrashMesh
<1>5. CASE UNCHANGED clusterVars
  <2>1. UNCHANGED <<up, own, clients, session, sessions, known, wire, cut, refused, lost>>
    BY <1>5 DEF clusterVars
  <2>2. Shape'
    BY <1>1, <2>1 DEF MeshInv, Shape, WireOK
  <2>3. RecordInv'
    BY <1>1, <2>1, SameRecords DEF MeshInv, RecordInv, ConnectionInv, Belongs
  <2>4. QED
    BY <1>1, <2>1, <2>2, <2>3 DEF MeshInv, Planned
<1>6. QED
  BY <1>1, <1>2, <1>3, <1>4, <1>5 DEF ClusterNext

\* Cluster::OnOpen: of any two nodes that the master knows, the lower one has a client session to
\* the higher one or a message to make it is on its way, for any number of nodes, of connections,
\* of crashes and of restarts, of the master too.
THEOREM MeshIsPlanned == ClusterSpec => []MeshPlanned
<1>1. ClusterConfig
  BY ClusterConfigHolds
<1>2. ClusterInit => MeshInv
  BY <1>1, InitMesh
<1>3. MeshInv /\ [ClusterNext]_clusterVars => MeshInv'
  BY <1>1, NextMesh
<1>4. MeshInv => MeshPlanned
  BY DEF MeshInv, MeshPlanned, Planned
<1>5. QED
  BY <1>2, <1>3, <1>4, PTL DEF ClusterSpec

\* Cluster::OnOpen: no node is ever told to connect to itself or to a lower channel, which
\* ConnectHarbor would refuse.
THEOREM NobodyConnectsDown == ClusterSpec => []ClusterTypeOK
<1>1. ClusterConfig
  BY ClusterConfigHolds
<1>2. ClusterInit => MeshInv
  BY <1>1, InitMesh
<1>3. MeshInv /\ [ClusterNext]_clusterVars => MeshInv'
  BY <1>1, NextMesh
<1>4. MeshInv => ClusterTypeOK
  BY ShapeIsTyped DEF MeshInv
<1>5. QED
  BY <1>2, <1>3, <1>4, PTL DEF ClusterSpec

(***************************************************************************)
(* SearchUnit: lists, their order, and what is taken out of them.          *)
(***************************************************************************)
\* What holds of 0, and of n + 1 when it holds of n, holds of all numbers up to M.
LEMMA UpTo ==
  ASSUME NEW M \in Nat, NEW S, 0 \in S, \A n \in 0 .. M - 1 : n \in S => n + 1 \in S
  PROVE  \A n \in 0 .. M : n \in S
<1>1. PICK T : T = {n \in 0 .. M : n \notin S}
  OBVIOUS
<1>2. SUFFICES ASSUME T # {} PROVE FALSE
  BY <1>1
<1>3. PICK m \in T : \A k \in T : m <= k
  BY <1>1, <1>2, LeastNatural
<1>4. m \in 1 .. M
  BY <1>1
<1>5. m - 1 \in 0 .. M - 1 /\ m - 1 \in S
  BY <1>1, <1>3, <1>4
<1>6. QED
  BY <1>1, <1>4, <1>5

(***************************************************************************)
(* Lists put in another order, or shortened.                               *)
(***************************************************************************)
\* R is a strict total order of K.
Orders(R, K) ==
  /\ \A i \in K : <<i, i>> \notin R
  /\ \A i, j \in K : i = j \/ <<i, j>> \in R \/ <<j, i>> \in R
  /\ \A i, j, k \in K : <<i, j>> \in R /\ <<j, k>> \in R => <<i, k>> \in R

\* rank numbers the members of K from 1 in the order R.
Ranks(rank, K, R) ==
  /\ rank \in [K -> 1 .. Cardinality(K)]
  /\ \A i, j \in K : <<i, j>> \in R <=> rank[i] < rank[j]
  /\ \A i, j \in K : rank[i] = rank[j] => i = j
  /\ \A k \in 1 .. Cardinality(K) : \E i \in K : rank[i] = k

UpToHim(K, R, i) == {j \in K : j = i \/ <<j, i>> \in R}

\* Those who are counted up to oneself in an order of K number K from 1.
LEMMA RankFacts ==
  ASSUME NEW K, IsFiniteSet(K), NEW R, Orders(R, K),
         NEW rank, rank = [i \in K |-> Cardinality(UpToHim(K, R, i))]
  PROVE  Cardinality(K) \in Nat /\ Ranks(rank, K, R)
<1>1. PICK n \in Nat : n = Cardinality(K)
  BY FS_CardinalityType
<1>2. ASSUME NEW i \in K
      PROVE  IsFiniteSet(UpToHim(K, R, i)) /\ rank[i] = Cardinality(UpToHim(K, R, i)) /\ rank[i] \in 1 .. n
  <2>1. UpToHim(K, R, i) \in SUBSET K /\ i \in UpToHim(K, R, i)
    BY DEF UpToHim
  <2>2. PICK D \in SUBSET K : D = UpToHim(K, R, i)
    BY <2>1
  <2>3. IsFiniteSet(D) /\ Cardinality(D) <= n
    BY <1>1, FS_Subset
  <2>4. Cardinality(D) \in Nat
    BY <2>3, FS_CardinalityType
  <2>5. Cardinality(D) # 0
    BY <2>1, <2>2, <2>3, FS_EmptySet
  <2>6. QED
    BY <1>1, <2>2, <2>3, <2>4, <2>5
<1>3. ASSUME NEW i \in K, NEW j \in K, <<i, j>> \in R PROVE rank[i] < rank[j]
  <2>1. PICK D : D = UpToHim(K, R, i)
    OBVIOUS
  <2>2. PICK E : E = UpToHim(K, R, j)
    OBVIOUS
  <2>3. D \in SUBSET E /\ j \in E /\ j \notin D
    BY <1>3, <2>1, <2>2 DEF UpToHim, Orders
  <2>4. IsFiniteSet(E) /\ rank[i] = Cardinality(D) /\ rank[j] = Cardinality(E)
    BY <1>2, <2>1, <2>2
  <2>5. Cardinality(D) <= Cardinality(E) /\ Cardinality(D) # Cardinality(E)
    BY <2>3, <2>4, FS_Subset
  <2>6. QED
    BY <1>2, <2>4, <2>5
<1>4. ASSUME NEW i \in K, NEW j \in K
      PROVE  /\ <<i, j>> \in R <=> rank[i] < rank[j]
             /\ rank[i] = rank[j] => i = j
  <2>1. rank[i] \in Nat /\ rank[j] \in Nat
    BY <1>2
  <2>2. <<i, j>> \in R \/ <<j, i>> \in R \/ i = j
    BY DEF Orders
  <2>3. /\ <<i, j>> \in R => rank[i] < rank[j]
        /\ <<j, i>> \in R => rank[j] < rank[i]
    BY <1>3
  <2>4. QED
    BY <2>1, <2>2, <2>3
<1>5. \A i, j \in K : <<i, j>> \in R <=> rank[i] < rank[j]
  BY <1>4
<1>6. \A i, j \in K : rank[i] = rank[j] => i = j
  BY <1>4
<1>7. rank \in [K -> 1 .. n]
  BY <1>2
<1>8. rank \in Injection(K, 1 .. n)
  BY <1>6, <1>7 DEF Injection, IsInjective
<1>9. IsFiniteSet(1 .. n) /\ Cardinality(1 .. n) = n
  BY <1>1, FS_Interval
<1>10. rank \in Surjection(K, 1 .. n)
  BY <1>1, <1>8, <1>9, FS_Injection
<1>11. \A k \in 1 .. n : \E i \in K : rank[i] = k
  BY <1>10 DEF Surjection
<1>12. QED
  BY <1>1, <1>5, <1>6, <1>7, <1>11 DEF Ranks

\* What is arranged by ranks is a sequence with everybody at his rank.
LEMMA ArrangedFacts ==
  ASSUME NEW K, NEW R, NEW rank, Cardinality(K) \in Nat, Ranks(rank, K, R),
         NEW S, NEW list, \A i \in K : list[i] \in S
  PROVE  /\ Arranged(list, rank) \in Seq(S) /\ Len(Arranged(list, rank)) = Cardinality(K)
         /\ \A i \in K : Arranged(list, rank)[rank[i]] = list[i]
<1>1. PICK n \in Nat : n = Cardinality(K)
  OBVIOUS
<1>2. DOMAIN rank = K
  BY DEF Ranks
<1>3. PICK s : s = Arranged(list, rank)
  OBVIOUS
<1>4. s = [k \in 1 .. n |-> list[CHOOSE i \in K : rank[i] = k]]
  BY <1>1, <1>2, <1>3 DEF Arranged
<1>5. ASSUME NEW k \in 1 .. n PROVE \E i \in K : rank[i] = k /\ s[k] = list[i]
  <2>1. PICK i : i = CHOOSE j \in K : rank[j] = k
    OBVIOUS
  <2>2. i \in K /\ rank[i] = k
    BY <1>1, <2>1 DEF Ranks
  <2>3. s[k] = list[i]
    BY <1>4, <2>1
  <2>4. QED
    BY <2>2, <2>3
<1>6. ASSUME NEW i \in K PROVE s[rank[i]] = list[i]
  <2>1. rank[i] \in 1 .. n
    BY <1>1 DEF Ranks
  <2>2. PICK j \in K : rank[j] = rank[i] /\ s[rank[i]] = list[j]
    BY <1>5, <2>1
  <2>3. j = i
    BY <2>2 DEF Ranks
  <2>4. QED
    BY <2>2, <2>3
<1>7. s \in [1 .. n -> S]
  BY <1>4, <1>5
<1>8. s \in Seq(S) /\ Len(s) = n
  BY <1>7
<1>9. QED
  BY <1>1, <1>3, <1>6, <1>8

\* Numbers up to n in their own order keep their places.
LEMMA SamePlaces ==
  ASSUME NEW n \in Nat, NEW rank, NEW R, Orders(R, 1 .. n), \A i, j \in 1 .. n : <<i, j>> \in R <=> i < j,
         rank = [i \in 1 .. n |-> Cardinality(UpToHim(1 .. n, R, i))],
         NEW S, NEW list \in Seq(S), Len(list) = n
  PROVE  Arranged(list, rank) = list
<1>1. IsFiniteSet(1 .. n) /\ Cardinality(1 .. n) = n
  BY FS_Interval
<1>2. Ranks(rank, 1 .. n, R)
  BY <1>1, RankFacts
<1>3. ASSUME NEW i \in 1 .. n PROVE rank[i] = i
  <2>1. UpToHim(1 .. n, R, i) = 1 .. i
    BY DEF UpToHim
  <2>2. Cardinality(1 .. i) = i
    BY FS_Interval
  <2>3. QED
    BY <2>1, <2>2
<1>4. \A i \in 1 .. n : list[i] \in S
  OBVIOUS
<1>5. PICK s : s = Arranged(list, rank)
  OBVIOUS
<1>6. /\ s \in Seq(S) /\ Len(s) = n
      /\ \A i \in 1 .. n : s[rank[i]] = list[i]
  BY <1>1, <1>2, <1>4, <1>5, ArrangedFacts
<1>7. \A i \in 1 .. n : s[i] = list[i]
  BY <1>3, <1>6
<1>8. QED
  BY <1>5, <1>6, <1>7

\* A list has nobody twice.
Distinct(list) == \A i, j \in DOMAIN list : list[i] = list[j] => i = j

\* Kept takes some out and leaves the others in their order.
LEMMA KeptFacts ==
  ASSUME NEW S, NEW list \in Seq(S), NEW out
  PROVE  /\ Kept(list, out) \in Seq(S)
         /\ ToSet(Kept(list, out)) = ToSet(list) \ out
         /\ Distinct(list) => Distinct(Kept(list, out))
         /\ ToSet(list) \cap out = {} => Kept(list, out) = list
<1>1. PICK n \in Nat : n = Len(list)
  OBVIOUS
<1>2. DOMAIN list = 1 .. n /\ \A i \in 1 .. n : list[i] \in S
  BY <1>1
<1>3. PICK K : K = {i \in 1 .. n : list[i] \notin out}
  OBVIOUS
<1>4. PICK R : R = {p \in (1 .. n) \X (1 .. n) : p[1] < p[2]}
  OBVIOUS
<1>5. \A i, j \in 1 .. n : <<i, j>> \in R <=> i < j
  BY <1>4
<1>6. Orders(R, 1 .. n) /\ Orders(R, K)
  BY <1>3, <1>5 DEF Orders
<1>7. PICK rank : rank = [i \in K |-> Cardinality(UpToHim(K, R, i))]
  OBVIOUS
<1>8. Kept(list, out) = Arranged(list, rank)
  <2>1. \A i \in K : UpToHim(K, R, i) = {j \in K : j <= i}
    BY <1>3, <1>5 DEF UpToHim
  <2>2. rank = [i \in K |-> Cardinality({j \in K : j <= i})]
    BY <1>7, <2>1
  <2>3. K = {i \in DOMAIN list : list[i] \notin out}
    BY <1>2, <1>3
  <2>4. QED
    BY <2>2, <2>3 DEF Kept
<1>9. IsFiniteSet(1 .. n) /\ IsFiniteSet(K)
  <2>1. IsFiniteSet(1 .. n)
    BY FS_Interval
  <2>2. K \in SUBSET (1 .. n)
    BY <1>3
  <2>3. QED
    BY <2>1, <2>2, FS_Subset
<1>10. Cardinality(K) \in Nat /\ Ranks(rank, K, R)
  BY <1>6, <1>7, <1>9, RankFacts
<1>11. PICK s : s = Kept(list, out)
  OBVIOUS
<1>12. PICK m \in Nat : m = Cardinality(K)
  BY <1>10
<1>13. /\ s \in Seq(S) /\ Len(s) = m
       /\ \A i \in K : s[rank[i]] = list[i]
  <2>1. \A i \in K : list[i] \in S
    BY <1>2, <1>3
  <2>2. QED
    BY <1>8, <1>10, <1>11, <1>12, <2>1, ArrangedFacts
<1>14. /\ \A i \in K : rank[i] \in 1 .. m
       /\ \A k \in 1 .. m : \E i \in K : rank[i] = k
  BY <1>10, <1>12 DEF Ranks
<1>15. ToSet(s) = ToSet(list) \ out
  <2>1. ToSet(s) = {s[k] : k \in 1 .. m} /\ ToSet(list) = {list[i] : i \in 1 .. n}
    BY <1>2, <1>13 DEF ToSet
  <2>2. ASSUME NEW x \in ToSet(s) PROVE x \in ToSet(list) \ out
    <3>1. PICK k \in 1 .. m : x = s[k]
      BY <2>1
    <3>2. PICK i \in K : rank[i] = k
      BY <1>14
    <3>3. x = list[i]
      BY <1>13, <3>1, <3>2
    <3>4. QED
      BY <1>3, <2>1, <3>3
  <2>3. ASSUME NEW x \in ToSet(list) \ out PROVE x \in ToSet(s)
    <3>1. PICK i \in 1 .. n : x = list[i]
      BY <2>1
    <3>2. i \in K
      BY <1>3, <3>1
    <3>3. x = s[rank[i]] /\ rank[i] \in 1 .. m
      BY <1>13, <1>14, <3>1, <3>2
    <3>4. QED
      BY <2>1, <3>3
  <2>4. QED
    BY <2>2, <2>3
<1>16. ASSUME Distinct(list) PROVE Distinct(s)
  <2>1. ASSUME NEW k \in 1 .. m, NEW l \in 1 .. m, s[k] = s[l] PROVE k = l
    <3>1. PICK i \in K : rank[i] = k
      BY <1>14
    <3>2. PICK j \in K : rank[j] = l
      BY <1>14
    <3>3. list[i] = list[j]
      BY <1>13, <2>1, <3>1, <3>2
    <3>4. i = j
      BY <1>2, <1>3, <1>16, <3>3 DEF Distinct
    <3>5. QED
      BY <3>1, <3>2, <3>4
  <2>2. QED
    BY <1>13, <2>1 DEF Distinct
<1>17. ASSUME ToSet(list) \cap out = {} PROVE s = list
  <2>1. K = 1 .. n
    BY <1>2, <1>3, <1>17 DEF ToSet
  <2>2. rank = [i \in 1 .. n |-> Cardinality(UpToHim(1 .. n, R, i))]
    BY <1>7, <2>1
  <2>3. QED
    BY <1>1, <1>5, <1>6, <1>8, <1>11, <2>2, SamePlaces
<1>18. QED
  BY <1>11, <1>13, <1>15, <1>16, <1>17

\* The places of a list in the order that ByBegin puts them in.
Order(list) ==
  {p \in (1 .. Len(list)) \X (1 .. Len(list)) : Precedes(list, p[1], p[2])}

\* The places of a list, ordered by the windows of those who are there.
LEMMA OrderFacts ==
  ASSUME NEW S, NEW list \in Seq(S), \A p \in S : args[p].begin \in Int, NEW n \in Nat, n = Len(list)
  PROVE  /\ Orders(Order(list), 1 .. n)
         /\ \A i, j \in 1 .. n : <<i, j>> \in Order(list) <=> Precedes(list, i, j)
         /\ ByBegin(list) = Arranged(list, [i \in 1 .. n |-> Cardinality(UpToHim(1 .. n, Order(list), i))])
<1>1. DOMAIN list = 1 .. n /\ \A i \in 1 .. n : list[i] \in S
  OBVIOUS
<1>2. PICK R : R = Order(list)
  OBVIOUS
<1>3. ASSUME NEW i \in 1 .. n, NEW j \in 1 .. n PROVE <<i, j>> \in R <=> Precedes(list, i, j)
  <2>1. <<i, j>> \in R <=> /\ <<i, j>> \in (1 .. n) \X (1 .. n)
                          /\ Precedes(list, <<i, j>>[1], <<i, j>>[2])
    BY <1>2, Zenon DEF Order
  <2>2. <<i, j>>[1] = i /\ <<i, j>>[2] = j
    OBVIOUS
  <2>3. <<i, j>> \in (1 .. n) \X (1 .. n)
    OBVIOUS
  <2>4. QED
    BY <2>1, <2>2, <2>3
<1>4. PICK b : b = [i \in 1 .. n |-> args[list[i]].begin]
  OBVIOUS
<1>5. b \in [1 .. n -> Int]
  BY <1>1, <1>4
<1>6. \A i, j \in 1 .. n : <<i, j>> \in R <=> b[i] < b[j] \/ (b[i] = b[j] /\ i < j)
  <2>1. ASSUME NEW i \in 1 .. n, NEW j \in 1 .. n
        PROVE  <<i, j>> \in R <=> b[i] < b[j] \/ (b[i] = b[j] /\ i < j)
    <3>1. b[i] = args[list[i]].begin /\ b[j] = args[list[j]].begin
      BY ONLY <1>4, i \in 1 .. n, j \in 1 .. n
    <3>2. <<i, j>> \in R <=> Precedes(list, i, j)
      BY <1>3
    <3>3. QED
      BY ONLY <3>1, <3>2 DEF Precedes
  <2>2. QED
    BY ONLY <2>1
<1>7. Orders(R, 1 .. n)
  <2>1. \A i \in 1 .. n : <<i, i>> \notin R
    BY <1>5, <1>6
  <2>2. ASSUME NEW i \in 1 .. n, NEW j \in 1 .. n PROVE i = j \/ <<i, j>> \in R \/ <<j, i>> \in R
    <3>1. b[i] \in Int /\ b[j] \in Int
      BY <1>5
    <3>2. QED
      BY <1>6, <3>1
  <2>3. ASSUME NEW i \in 1 .. n, NEW j \in 1 .. n, NEW k \in 1 .. n, <<i, j>> \in R, <<j, k>> \in R
        PROVE  <<i, k>> \in R
    <3>1. b[i] \in Int /\ b[j] \in Int /\ b[k] \in Int
      BY <1>5
    <3>2. /\ b[i] < b[j] \/ (b[i] = b[j] /\ i < j)
          /\ b[j] < b[k] \/ (b[j] = b[k] /\ j < k)
      BY <1>6, <2>3
    <3>3. b[i] < b[k] \/ (b[i] = b[k] /\ i < k)
      BY <3>1, <3>2
    <3>4. QED
      BY <1>6, <3>3
  <2>4. QED
    BY <2>1, <2>2, <2>3 DEF Orders
<1>8. ByBegin(list) = Arranged(list, [i \in 1 .. n |-> Cardinality(UpToHim(1 .. n, R, i))])
  <2>1. \A i \in 1 .. n : UpToHim(1 .. n, R, i) = {j \in 1 .. n : j = i \/ Precedes(list, j, i)}
    BY <1>3 DEF UpToHim
  <2>2. [i \in 1 .. n |-> Cardinality(UpToHim(1 .. n, R, i))]
          = [i \in 1 .. n |-> Cardinality({j \in 1 .. n : j = i \/ Precedes(list, j, i)})]
    BY <2>1
  <2>3. QED
    BY <1>1, <2>2 DEF ByBegin
<1>9. QED
  BY <1>2, <1>3, <1>7, <1>8

\* ByBegin puts the same people in another order, and a list that is in this order stays as it is.
LEMMA ByBeginFacts ==
  ASSUME NEW S, NEW list \in Seq(S), \A p \in S : args[p].begin \in Int
  PROVE  /\ ByBegin(list) \in Seq(S) /\ Len(ByBegin(list)) = Len(list)
         /\ ToSet(ByBegin(list)) = ToSet(list)
         /\ Distinct(list) => Distinct(ByBegin(list))
         /\ ByBegin(ByBegin(list)) = ByBegin(list)
<1>1. PICK n \in Nat : n = Len(list)
  OBVIOUS
<1>2. DOMAIN list = 1 .. n /\ \A i \in 1 .. n : list[i] \in S
  BY <1>1
<1>3. PICK R : R = Order(list)
  OBVIOUS
<1>4. PICK rank : rank = [i \in 1 .. n |-> Cardinality(UpToHim(1 .. n, R, i))]
  OBVIOUS
<1>5. PICK s : s = ByBegin(list)
  OBVIOUS
<1>6. /\ Orders(R, 1 .. n) /\ s = Arranged(list, rank)
      /\ \A i, j \in 1 .. n : <<i, j>> \in R <=> Precedes(list, i, j)
  BY <1>1, <1>3, <1>4, <1>5, OrderFacts
<1>7. IsFiniteSet(1 .. n) /\ Cardinality(1 .. n) = n
  BY FS_Interval
<1>8. Ranks(rank, 1 .. n, R)
  BY <1>4, <1>6, <1>7, RankFacts
<1>9. s \in Seq(S) /\ Len(s) = n /\ \A i \in 1 .. n : s[rank[i]] = list[i]
  BY <1>2, <1>6, <1>7, <1>8, ArrangedFacts
<1>10. /\ \A i \in 1 .. n : rank[i] \in 1 .. n
       /\ \A k \in 1 .. n : \E i \in 1 .. n : rank[i] = k
       /\ \A i, j \in 1 .. n : <<i, j>> \in R <=> rank[i] < rank[j]
  BY <1>7, <1>8 DEF Ranks
<1>11. ToSet(s) = ToSet(list)
  <2>1. ToSet(s) = {s[k] : k \in 1 .. n} /\ ToSet(list) = {list[i] : i \in 1 .. n}
    BY <1>2, <1>9 DEF ToSet
  <2>2. ASSUME NEW x \in ToSet(s) PROVE x \in ToSet(list)
    <3>1. PICK k \in 1 .. n : x = s[k]
      BY <2>1
    <3>2. PICK i \in 1 .. n : rank[i] = k
      BY <1>10
    <3>3. QED
      BY <1>9, <2>1, <3>1, <3>2
  <2>3. ASSUME NEW x \in ToSet(list) PROVE x \in ToSet(s)
    <3>1. PICK i \in 1 .. n : x = list[i]
      BY <2>1
    <3>2. x = s[rank[i]] /\ rank[i] \in 1 .. n
      BY <1>9, <1>10, <3>1
    <3>3. QED
      BY <2>1, <3>2
  <2>4. QED
    BY <2>2, <2>3
<1>12. ASSUME Distinct(list) PROVE Distinct(s)
  <2>1. ASSUME NEW k \in 1 .. n, NEW l \in 1 .. n, s[k] = s[l] PROVE k = l
    <3>1. PICK i \in 1 .. n : rank[i] = k
      BY <1>10
    <3>2. PICK j \in 1 .. n : rank[j] = l
      BY <1>10
    <3>3. list[i] = list[j]
      BY <1>9, <2>1, <3>1, <3>2
    <3>4. i = j
      BY <1>2, <1>12, <3>3 DEF Distinct
    <3>5. QED
      BY <3>1, <3>2, <3>4
  <2>2. QED
    BY <1>9, <2>1 DEF Distinct
<1>13. ASSUME NEW k \in 1 .. n, NEW l \in 1 .. n PROVE <<k, l>> \in Order(s) <=> k < l
  <2>1. PICK i \in 1 .. n : rank[i] = k
    BY <1>10
  <2>2. PICK j \in 1 .. n : rank[j] = l
    BY <1>10
  <2>3. PICK x \in Int : x = args[list[i]].begin
    BY <1>2
  <2>4. PICK y \in Int : y = args[list[j]].begin
    BY <1>2
  <2>5. k < l <=> x < y \/ (x = y /\ i < j)
    BY <1>6, <1>10, <2>1, <2>2, <2>3, <2>4 DEF Precedes
  <2>6. l < k <=> y < x \/ (y = x /\ j < i)
    BY <1>6, <1>10, <2>1, <2>2, <2>3, <2>4 DEF Precedes
  <2>7. s[k] = list[i] /\ s[l] = list[j]
    BY <1>9, <2>1, <2>2
  <2>8. <<k, l>> \in Order(s) <=> x < y \/ (x = y /\ k < l)
    <3>1. <<k, l>> \in Order(s) <=> Precedes(s, k, l)
      BY <1>9, OrderFacts
    <3>2. QED
      BY <2>3, <2>4, <2>7, <3>1 DEF Precedes
  <2>9. QED
    BY ONLY <2>5, <2>6, <2>8, k \in Int, l \in Int, x \in Int, y \in Int
<1>14. ByBegin(s) = s
  <2>1. PICK Q : Q = Order(s)
    OBVIOUS
  <2>2. PICK g : g = [i \in 1 .. n |-> Cardinality(UpToHim(1 .. n, Q, i))]
    OBVIOUS
  <2>3. Orders(Q, 1 .. n) /\ ByBegin(s) = Arranged(s, g)
    BY <1>9, <2>1, <2>2, OrderFacts
  <2>4. \A k, l \in 1 .. n : <<k, l>> \in Q <=> k < l
    BY <1>13, <2>1
  <2>5. QED
    BY <1>9, <2>2, <2>3, <2>4, SamePlaces
<1>15. QED
  BY <1>1, <1>5, <1>9, <1>11, <1>12, <1>14

(***************************************************************************)
(* What one person gathers.                                                *)
(***************************************************************************)
\* The numbers of people that may be asked for: whole teams in a pair game.
Sizes == IF Pair THEN {n \in Nat : 2 <= n}
         ELSE {n \in 1 .. Num : NumMin <= n}

\* What the search relies on of those who wait.
Asks(a) == /\ a.val \in Int /\ a.begin \in Int /\ a.end \in Int
           /\ a.begin <= a.val /\ a.val <= a.end /\ a.num \in Sizes
Waiting == \A p \in individualMap : Asks(args[p])

\* The box is in the windows of those gathered, and has their values.
Boxed(box, a) == /\ a.begin <= box.begin /\ box.end <= a.end /\ a.num <= box.num
                 /\ box.valBegin <= a.val /\ a.val <= box.valEnd

BoxOK(box) ==
  /\ box \in [begin : Int, end : Int, valBegin : Int, valEnd : Int, num : Sizes]
  /\ box.begin <= box.valBegin /\ box.valEnd <= box.end

Gathered(s, removed) ==
  /\ s \in [tmp : Seq(individualMap), last : BOOLEAN, next : BOOLEAN, full : BOOLEAN,
            box : [begin : Int, end : Int, valBegin : Int, valEnd : Int, num : Sizes]]
  /\ BoxOK(s.box)
  /\ s.tmp # <<>> /\ Distinct(s.tmp)
  /\ \A p \in ToSet(s.tmp) : p \notin removed /\ Boxed(s.box, args[p])
  /\ s.full => Len(s.tmp) >= Num \/ Len(s.tmp) >= s.box.num

\* What an Append does to the members of a sequence.
Adds(S, q, x, r) == q \in Seq(S) /\ x \in S /\ r = Append(q, x)

\* An Append adds one member.
LEMMA AppendMembers ==
  ASSUME NEW S, NEW q, NEW x, NEW r, Adds(S, q, x, r)
  PROVE  /\ r \in Seq(S) /\ Len(r) = Len(q) + 1 /\ r # <<>>
         /\ ToSet(r) = ToSet(q) \cup {x}
         /\ Distinct(q) /\ x \notin ToSet(q) => Distinct(r)
<1> USE DEF Adds
<1>1. PICK n \in Nat : n = Len(q)
  OBVIOUS
<1>2. /\ r \in Seq(S) /\ Len(r) = n + 1 /\ r[n + 1] = x
      /\ \A i \in 1 .. n : r[i] = q[i]
  BY <1>1
<1>3. ToSet(q) = {q[i] : i \in 1 .. n} /\ ToSet(r) = {r[i] : i \in 1 .. n + 1}
  BY <1>1, <1>2 DEF ToSet
<1>4. r # <<>>
  BY <1>2
<1>5. ToSet(r) = ToSet(q) \cup {x}
  <2>1. ASSUME NEW y \in ToSet(r) PROVE y \in ToSet(q) \cup {x}
    <3>1. PICK i \in 1 .. n + 1 : y = r[i]
      BY <1>3
    <3>2. i \in 1 .. n \/ i = n + 1
      OBVIOUS
    <3>3. QED
      BY <1>2, <1>3, <3>1, <3>2
  <2>2. ASSUME NEW y \in ToSet(q) PROVE y \in ToSet(r)
    <3>1. PICK i \in 1 .. n : y = q[i]
      BY <1>3
    <3>2. i \in 1 .. n + 1
      OBVIOUS
    <3>3. QED
      BY <1>2, <1>3, <3>1, <3>2
  <2>3. x \in ToSet(r)
    <3>1. n + 1 \in 1 .. n + 1
      OBVIOUS
    <3>2. QED
      BY <1>2, <1>3, <3>1
  <2>4. QED
    BY <2>1, <2>2, <2>3
<1>6. ASSUME Distinct(q), x \notin ToSet(q) PROVE Distinct(r)
  <2>1. DOMAIN r = 1 .. n + 1 /\ DOMAIN q = 1 .. n
    BY <1>1, <1>2
  <2>2. \A i \in 1 .. n : q[i] # x
    BY <1>3, <1>6
  <2>3. ASSUME NEW i \in 1 .. n + 1, NEW j \in 1 .. n + 1, r[i] = r[j] PROVE i = j
    <3>1. CASE i \in 1 .. n /\ j \in 1 .. n
      BY <1>2, <1>6, <2>1, <2>3, <3>1 DEF Distinct
    <3>2. CASE ~(i \in 1 .. n /\ j \in 1 .. n)
      <4>1. i = n + 1 \/ j = n + 1
        BY <3>2
      <4>2. i \in 1 .. n \/ i = n + 1
        OBVIOUS
      <4>3. j \in 1 .. n \/ j = n + 1
        OBVIOUS
      <4>4. QED
        BY <1>2, <2>2, <2>3, <4>1, <4>2, <4>3
    <3>3. QED
      BY <3>1, <3>2
  <2>4. QED
    BY <2>1, <2>3 DEF Distinct
<1>7. QED
  BY <1>1, <1>2, <1>4, <1>5, <1>6

\* Alone, somebody is his own box.
LEMMA AloneGathers ==
  ASSUME Waiting, NEW p \in individualMap, NEW removed, p \notin removed
  PROVE  Gathered(Alone(p), removed) /\ ToSet(Alone(p).tmp) = {p}
<1>1. PICK a : a = args[p]
  OBVIOUS
<1>2. Asks(a)
  BY <1>1 DEF Waiting
<1>3. PICK s : s = Alone(p)
  OBVIOUS
<1>4. s = [tmp |-> <<p>>, last |-> TRUE, next |-> TRUE, full |-> FALSE,
           box |-> [begin |-> a.begin, end |-> a.end, valBegin |-> a.val, valEnd |-> a.val,
                    num |-> a.num]]
  BY <1>1, <1>3 DEF Alone
<1>5. PICK b : b = [begin |-> a.begin, end |-> a.end, valBegin |-> a.val, valEnd |-> a.val,
                    num |-> a.num]
  OBVIOUS
<1>6. BoxOK(b) /\ Boxed(b, a)
  BY <1>2, <1>5 DEF BoxOK, Boxed, Asks, Sizes
<1>7. PICK q \in Seq(individualMap) : q = <<p>>
  <2>1. <<p>> \in Seq(individualMap)
    OBVIOUS
  <2>2. QED
    BY <2>1
<1>8. /\ s = [tmp |-> q, last |-> TRUE, next |-> TRUE, full |-> FALSE, box |-> b]
      /\ s.tmp = q /\ s.box = b /\ ~s.full
  BY <1>4, <1>5, <1>7
<1>9. ToSet(q) = {p} /\ q # <<>> /\ Distinct(q)
  BY <1>7 DEF ToSet, Distinct
<1>10. s \in [tmp : Seq(individualMap), last : BOOLEAN, next : BOOLEAN, full : BOOLEAN,
              box : [begin : Int, end : Int, valBegin : Int, valEnd : Int, num : Sizes]]
  BY <1>6, <1>8 DEF BoxOK
<1>11. QED
  BY <1>1, <1>3, <1>6, <1>8, <1>9, <1>10 DEF Gathered

\* Somebody who fits shrinks the box to what it has in common with his window.
LEMMA InsertFits ==
  ASSUME NEW box, BoxOK(box), NEW a, Asks(a), Fits(box, a), NEW b, b = InsertBox(box, a)
  PROVE  /\ BoxOK(b) /\ Boxed(b, a)
         /\ \A c : Asks(c) /\ Boxed(box, c) => Boxed(b, c)
<1>1. /\ box.begin \in Int /\ box.end \in Int /\ box.valBegin \in Int /\ box.valEnd \in Int
      /\ box.num \in Nat /\ a.num \in Nat /\ box.num \in Sizes /\ a.num \in Sizes
      /\ box.begin <= box.valBegin /\ box.valEnd <= box.end
      /\ a.val \in Int /\ a.begin \in Int /\ a.end \in Int
  BY DEF BoxOK, Asks, Sizes
<1>2. /\ b.begin = (IF box.begin > a.begin THEN box.begin ELSE a.begin)
      /\ b.end = (IF box.end < a.end THEN box.end ELSE a.end)
      /\ b.valBegin = (IF a.val < box.valBegin THEN a.val ELSE box.valBegin)
      /\ b.valEnd = (IF a.val > box.valEnd THEN a.val ELSE box.valEnd)
      /\ b.num = (IF box.num < a.num THEN a.num ELSE box.num)
      /\ b = [begin |-> b.begin, end |-> b.end, valBegin |-> b.valBegin, valEnd |-> b.valEnd,
              num |-> b.num]
  BY DEF InsertBox
<1>3. /\ b.begin \in Int /\ b.end \in Int /\ b.valBegin \in Int /\ b.valEnd \in Int
      /\ b.num \in Sizes
  BY <1>1, <1>2
<1>4. b \in [begin : Int, end : Int, valBegin : Int, valEnd : Int, num : Sizes]
  BY <1>2, <1>3
<1>5. /\ b.begin <= box.valBegin /\ box.valEnd <= b.end /\ b.begin <= a.val /\ a.val <= b.end
  BY <1>2 DEF Fits
<1>6. BoxOK(b)
  BY <1>1, <1>2, <1>3, <1>4, <1>5 DEF BoxOK
<1>7. Boxed(b, a)
  BY <1>1, <1>2, <1>3 DEF Boxed
<1>8. ASSUME NEW c, Asks(c), Boxed(box, c) PROVE Boxed(b, c)
  <2>1. c.val \in Int /\ c.begin \in Int /\ c.end \in Int /\ c.num \in Nat
    BY <1>8 DEF Asks, Sizes
  <2>2. QED
    BY <1>1, <1>2, <1>8, <2>1 DEF Boxed
<1>9. QED
  BY <1>6, <1>7, <1>8

\* A visit keeps what was gathered a good set, and may add the one who is visited.
LEMMA VisitGathers ==
  ASSUME Waiting, NEW removed, NEW s, Gathered(s, removed), NEW p \in individualMap,
         p \notin removed, p \notin ToSet(s.tmp), NEW before \in BOOLEAN
  PROVE  /\ Gathered(Visit(s, p, before), removed)
         /\ ToSet(Visit(s, p, before).tmp) \subseteq ToSet(s.tmp) \cup {p}
<1>1. PICK v : v = Visit(s, p, before)
  OBVIOUS
<1>2. PICK a : a = args[p]
  OBVIOUS
<1>3. PICK box : box = s.box
  OBVIOUS
<1>4. PICK q : q = s.tmp
  OBVIOUS
<1>5. /\ Asks(a) /\ BoxOK(box) /\ q \in Seq(individualMap) /\ q # <<>> /\ Distinct(q)
      /\ \A x \in ToSet(q) : x \in individualMap /\ x \notin removed /\ Boxed(box, args[x])
      /\ s.last \in BOOLEAN /\ s.next \in BOOLEAN
      /\ s = [tmp |-> q, last |-> s.last, next |-> s.next, full |-> s.full, box |-> box]
      /\ box \in [begin : Int, end : Int, valBegin : Int, valEnd : Int, num : Sizes]
      /\ box.num \in Nat
  BY <1>2, <1>3, <1>4 DEF Gathered, Waiting, ToSet, BoxOK, Sizes
<1>6. CASE v = [s EXCEPT !.last = FALSE] \/ v = [s EXCEPT !.next = FALSE]
  <2>1. /\ v.tmp = q /\ v.box = box /\ v.full = s.full
        /\ v \in [tmp : Seq(individualMap), last : BOOLEAN, next : BOOLEAN, full : BOOLEAN,
                  box : [begin : Int, end : Int, valBegin : Int, valEnd : Int, num : Sizes]]
    BY <1>3, <1>4, <1>6 DEF Gathered
  <2>2. QED
    BY <1>1, <1>3, <1>4, <2>1 DEF Gathered
<1>7. CASE /\ Fits(box, a)
           /\ v = [s EXCEPT !.tmp = Append(q, p), !.box = InsertBox(box, a),
                            !.full = Len(Append(q, p)) >= Num]
  <2>1. PICK r : r = Append(q, p)
    OBVIOUS
  <2>2. PICK b : b = InsertBox(box, a)
    OBVIOUS
  <2>3. /\ r \in Seq(individualMap) /\ r # <<>> /\ ToSet(r) = ToSet(q) \cup {p} /\ Distinct(r)
        /\ Len(r) \in Nat
    <3>1. q \in Seq(individualMap) /\ Distinct(q) /\ p \notin ToSet(q)
      BY <1>4, <1>5
    <3>2. /\ r \in Seq(individualMap) /\ Len(r) = Len(q) + 1 /\ r # <<>>
          /\ ToSet(r) = ToSet(q) \cup {p}
          /\ Distinct(q) /\ p \notin ToSet(q) => Distinct(r)
      <4>1. Adds(individualMap, q, p, r)
        BY <2>1, <3>1 DEF Adds
      <4>2. QED
        BY <4>1, AppendMembers
    <3>3. QED
      BY <3>1, <3>2
  <2>4. /\ BoxOK(b) /\ Boxed(b, a)
        /\ \A c : Asks(c) /\ Boxed(box, c) => Boxed(b, c)
    BY <1>5, <1>7, <2>2, InsertFits
  <2>5. v = [tmp |-> r, last |-> s.last, next |-> s.next, full |-> Len(r) >= Num, box |-> b]
    BY <1>5, <1>7, <2>1, <2>2
  <2>6. v \in [tmp : Seq(individualMap), last : BOOLEAN, next : BOOLEAN, full : BOOLEAN,
               box : [begin : Int, end : Int, valBegin : Int, valEnd : Int, num : Sizes]]
    <3>1. (Len(r) >= Num) \in BOOLEAN
      OBVIOUS
    <3>2. b \in [begin : Int, end : Int, valBegin : Int, valEnd : Int, num : Sizes]
      BY <2>4 DEF BoxOK
    <3>3. QED
      BY <1>5, <2>3, <2>5, <3>1, <3>2
  <2>7. \A x \in ToSet(r) : x \notin removed /\ Boxed(b, args[x])
    <3>1. ASSUME NEW x \in ToSet(q) PROVE Boxed(b, args[x])
      BY <1>5, <2>4 DEF Waiting
    <3>2. QED
      BY <1>2, <1>5, <2>3, <2>4, <3>1
  <2>8. /\ v.tmp = r /\ v.box = b /\ (v.full => Len(r) >= Num)
    BY <2>5
  <2>9. Gathered(v, removed)
    BY <2>3, <2>4, <2>6, <2>7, <2>8 DEF Gathered
  <2>10. QED
    BY <1>1, <1>4, <2>3, <2>8, <2>9
<1>8. CASE v = [s EXCEPT !.tmp = q, !.box = box, !.full = Len(q) >= box.num]
  <2>1. v = [tmp |-> q, last |-> s.last, next |-> s.next, full |-> Len(q) >= box.num, box |-> box]
    BY <1>5, <1>8
  <2>2. v \in [tmp : Seq(individualMap), last : BOOLEAN, next : BOOLEAN, full : BOOLEAN,
               box : [begin : Int, end : Int, valBegin : Int, valEnd : Int, num : Sizes]]
    <3>1. (Len(q) >= box.num) \in BOOLEAN
      OBVIOUS
    <3>2. QED
      BY <1>5, <2>1, <3>1
  <2>3. /\ v.tmp = q /\ v.box = box /\ (v.full => Len(q) >= box.num)
    BY <2>1
  <2>4. Gathered(v, removed)
    BY <1>5, <2>2, <2>3 DEF Gathered
  <2>5. QED
    BY <1>1, <1>4, <2>3, <2>4
<1>9. QED
  BY <1>1, <1>2, <1>3, <1>4, <1>6, <1>7, <1>8 DEF Visit

\* Those at the places in D.
People(list, D) == {list[d] : d \in D \cap (1 .. Len(list))}

\* The places that somebody at place i has looked at after k looks, his own among them.
Met(i, k) == {i} \cup {Around(i, m) : m \in 1 .. k}

\* No place is looked at twice.
LEMMA AroundIsNew ==
  ASSUME NEW i \in Nat, NEW k \in Nat, k # 0
  PROVE  Around(i, k) \in Int /\ Around(i, k) \notin Met(i, k - 1) /\ Met(i, k) = Met(i, k - 1) \cup {Around(i, k)}
<1>1. Around(i, k) \in Int /\ Around(i, k) # i
  BY DEF Around
<1>2. ASSUME NEW m \in 1 .. k - 1 PROVE Around(i, m) # Around(i, k)
  BY <1>2 DEF Around
<1>3. Met(i, k) = Met(i, k - 1) \cup {Around(i, k)}
  <2>1. 1 .. k = (1 .. k - 1) \cup {k}
    OBVIOUS
  <2>2. {Around(i, m) : m \in 1 .. k} = {Around(i, m) : m \in 1 .. k - 1} \cup {Around(i, k)}
    BY <2>1
  <2>3. QED
    BY <2>2 DEF Met
<1>4. QED
  BY <1>1, <1>2, <1>3 DEF Met

\* A look keeps what was gathered a good set, and may add the one who is looked at.
LEMMA LookGathers ==
  ASSUME Waiting, NEW list, list \in Seq(individualMap), Distinct(list), NEW removed, NEW s, Gathered(s, removed),
         NEW i \in Nat, NEW D, ToSet(s.tmp) \subseteq People(list, D), NEW c \in Int, c \notin D
  PROVE  /\ Gathered(Look(list, removed, i, s, c), removed)
         /\ ToSet(Look(list, removed, i, s, c).tmp) \subseteq People(list, D \cup {c})
<1>1. PICK v : v = Look(list, removed, i, s, c)
  OBVIOUS
<1>2. PICK n \in Nat : n = Len(list)
  OBVIOUS
<1>3. /\ DOMAIN list = 1 .. n /\ \A d \in 1 .. n : list[d] \in individualMap
      /\ People(list, D) = {list[d] : d \in D \cap (1 .. n)}
      /\ People(list, D \cup {c}) = {list[d] : d \in (D \cup {c}) \cap (1 .. n)}
  BY <1>2 DEF People
<1>4. People(list, D) \subseteq People(list, D \cup {c})
  BY <1>3
<1>5. CASE v = s
  BY <1>1, <1>4, <1>5
<1>6. CASE v # s
  <2>1. /\ c \in 1 .. n /\ list[c] \notin removed
        /\ v = Visit(s, list[c], c < i)
    BY <1>1, <1>3, <1>6 DEF Look
  <2>2. PICK p \in individualMap : p = list[c]
    BY <1>3, <2>1
  <2>3. PICK b \in BOOLEAN : b = (c < i)
    <3>1. (c < i) \in BOOLEAN
      OBVIOUS
    <3>2. QED
      BY <3>1, Zenon
  <2>4. p \notin ToSet(s.tmp)
    <3>1. ASSUME NEW d \in D \cap (1 .. n) PROVE list[d] # p
      BY <1>3, <2>1, <2>2 DEF Distinct
    <3>2. QED
      BY <1>3, <3>1
  <2>5. v = Visit(s, p, b) /\ p \notin removed
    BY <2>1, <2>2, <2>3
  <2>6. Gathered(v, removed) /\ ToSet(v.tmp) \subseteq ToSet(s.tmp) \cup {p}
    BY <2>4, <2>5, VisitGathers
  <2>7. p \in People(list, D \cup {c})
    BY <1>3, <2>1, <2>2
  <2>8. QED
    BY <1>1, <1>4, <2>6, <2>7
<1>7. QED
  BY <1>5, <1>6

\* f is what the person at place i has gathered after each of n looks.
IsGathering(f, list, removed, i, n) ==
  f = [k \in 0 .. n |-> IF k = 0 THEN Alone(list[i])
                        ELSE Look(list, removed, i, f[k - 1], Around(i, k))]

\* There is such a function, for any number of looks.
LEMMA GatheringExists ==
  \A list, removed, i : \A n \in Nat : \E f : IsGathering(f, list, removed, i, n)
<1> SUFFICES ASSUME NEW list, NEW removed, NEW i, NEW M \in Nat
             PROVE  \E f : IsGathering(f, list, removed, i, M)
  OBVIOUS
<1>1. PICK S : S = {n \in Nat : \E f : IsGathering(f, list, removed, i, n)}
  OBVIOUS
<1>2. 0 \in S
  <2>1. PICK f : f = [k \in 0 .. 0 |-> Alone(list[i])]
    OBVIOUS
  <2>2. IsGathering(f, list, removed, i, 0)
    BY <2>1 DEF IsGathering
  <2>3. QED
    BY <1>1, <2>2
<1>3. ASSUME NEW n \in Nat, n \in S PROVE n + 1 \in S
  <2>1. PICK f : IsGathering(f, list, removed, i, n)
    BY <1>1, <1>3
  <2>2. PICK h : h = [k \in 0 .. n + 1 |-> IF k <= n THEN f[k]
                                           ELSE Look(list, removed, i, f[n], Around(i, n + 1))]
    OBVIOUS
  <2>3. \A k \in 0 .. n + 1 :
          h[k] = IF k = 0 THEN Alone(list[i]) ELSE Look(list, removed, i, h[k - 1], Around(i, k))
    <3>1. \A k \in 0 .. n : h[k] = f[k]
      BY <2>2
    <3>2. h[n + 1] = Look(list, removed, i, f[n], Around(i, n + 1))
      BY <2>2
    <3>3. \A k \in 0 .. n :
            f[k] = IF k = 0 THEN Alone(list[i]) ELSE Look(list, removed, i, f[k - 1], Around(i, k))
      BY <2>1 DEF IsGathering
    <3>4. QED
      BY ONLY <3>1, <3>2, <3>3, n \in Nat
  <2>4. IsGathering(h, list, removed, i, n + 1)
    BY ONLY <2>2, <2>3 DEF IsGathering
  <2>5. QED
    BY <1>1, <2>4
<1>4. \A n \in 0 .. M - 1 : n \in S => n + 1 \in S
  BY <1>3
<1>5. M \in S
  BY <1>2, <1>4, UpTo
<1>6. QED
  BY <1>1, <1>5

\* Gather is the last of them.
GatherIsTheLast ==
  \A list, removed, i : \A n \in Nat :
    n = 2 * Len(list) => \E f : IsGathering(f, list, removed, i, n) /\ Gather(list, removed, i) = f[n]

\* Gather is its last value, whatever the list.
LEMMA GatherDef == GatherIsTheLast
<1> SUFFICES ASSUME NEW list, NEW removed, NEW i, NEW n \in Nat, n = 2 * Len(list)
             PROVE  \E f : IsGathering(f, list, removed, i, n) /\ Gather(list, removed, i) = f[n]
  BY DEF GatherIsTheLast
<1>1. PICK g : g = CHOOSE f : IsGathering(f, list, removed, i, n)
  OBVIOUS
<1>2. IsGathering(g, list, removed, i, n)
  BY <1>1, GatheringExists, Zenon
<1>3. Gather(list, removed, i) = g[n]
  BY <1>1, Zenon DEF Gather, IsGathering
<1>4. QED
  BY <1>2, <1>3

\* What the values of f are.
LEMMA GatheringValues ==
  ASSUME NEW list, NEW removed, NEW i, NEW n \in Nat, NEW f, IsGathering(f, list, removed, i, n)
  PROVE  /\ f[0] = Alone(list[i])
         /\ \A k \in 1 .. n : f[k] = Look(list, removed, i, f[k - 1], Around(i, k))
<1>1. \A k \in 0 .. n : f[k] = IF k = 0 THEN Alone(list[i]) ELSE Look(list, removed, i, f[k - 1], Around(i, k))
  BY DEF IsGathering
<1>2. QED
  BY <1>1

\* Whatever somebody gathers is a good set.
LEMMA GatherGathers ==
  ASSUME Waiting, NEW list, list \in Seq(individualMap), Distinct(list), NEW removed,
         NEW i \in 1 .. Len(list), list[i] \notin removed
  PROVE  Gathered(Gather(list, removed, i), removed)
<1>1. PICK n \in Nat : n = 2 * Len(list)
  OBVIOUS
<1>2. PICK f : IsGathering(f, list, removed, i, n) /\ Gather(list, removed, i) = f[n]
  BY <1>1, GatherDef DEF GatherIsTheLast
<1>3. /\ f[0] = Alone(list[i])
      /\ \A k \in 1 .. n : f[k] = Look(list, removed, i, f[k - 1], Around(i, k))
  <2>1. IsGathering(f, list, removed, i, n)
    BY <1>2
  <2>2. QED
    BY ONLY <2>1, n \in Nat, GatheringValues
<1>4. PICK S : S = {k \in 0 .. n : Gathered(f[k], removed) /\ ToSet(f[k].tmp) \subseteq People(list, Met(i, k))}
  OBVIOUS
<1>5. 0 \in S
  <2>1. PICK p \in individualMap : p = list[i]
    OBVIOUS
  <2>2. Gathered(f[0], removed) /\ ToSet(f[0].tmp) = {p}
    BY <1>3, <2>1, AloneGathers
  <2>3. p \in People(list, Met(i, 0))
    BY <2>1 DEF People, Met
  <2>4. QED
    BY <1>4, <2>2, <2>3
<1>6. ASSUME NEW k \in 0 .. n - 1, k \in S PROVE k + 1 \in S
  <2>1. PICK s : s = f[k]
    OBVIOUS
  <2>2. PICK c : c = Around(i, k + 1)
    OBVIOUS
  <2>3. f[k + 1] = Look(list, removed, i, s, c)
    BY <1>3, <2>1, <2>2
  <2>4. c \in Int /\ c \notin Met(i, k) /\ Met(i, k + 1) = Met(i, k) \cup {c}
    <3>1. PICK l \in Nat : l = k + 1 /\ l # 0 /\ l - 1 = k
      OBVIOUS
    <3>2. i \in Nat /\ c = Around(i, l)
      BY <2>2, <3>1
    <3>3. c \in Int /\ c \notin Met(i, l - 1) /\ Met(i, l) = Met(i, l - 1) \cup {c}
      BY <3>1, <3>2, AroundIsNew
    <3>4. QED
      BY <3>1, <3>3
  <2>5. Gathered(s, removed) /\ ToSet(s.tmp) \subseteq People(list, Met(i, k))
    BY <1>4, <1>6, <2>1
  <2>6. /\ Gathered(f[k + 1], removed)
        /\ ToSet(f[k + 1].tmp) \subseteq People(list, Met(i, k) \cup {c})
    BY <2>3, <2>4, <2>5, LookGathers
  <2>7. ToSet(f[k + 1].tmp) \subseteq People(list, Met(i, k + 1))
    BY <2>4, <2>6
  <2>8. k + 1 \in 0 .. n
    OBVIOUS
  <2>9. QED
    BY <1>4, <2>6, <2>7, <2>8
<1>7. n \in S
  <2>1. \A k \in 0 .. n - 1 : k \in S => k + 1 \in S
    BY <1>6
  <2>2. \A k \in 0 .. n : k \in S
    BY ONLY <1>5, <2>1, n \in Nat, UpTo
  <2>3. QED
    BY <2>2
<1>8. QED
  BY <1>2, <1>4, <1>7

(***************************************************************************)
(* What the search finds.                                                  *)
(***************************************************************************)
\* The m members of a sequence that follow the first a.
Segment(q, a, m, r) == r = SubSeq(q, a + 1, a + m)

\* A segment has the members at its places.
LEMMA SegmentFacts ==
  ASSUME NEW S, NEW q, q \in Seq(S), NEW a \in Nat, NEW m \in Nat, NEW n \in Nat, n = Len(q), a + m <= n,
         NEW r, Segment(q, a, m, r)
  PROVE  r \in Seq(S) /\ ToSet(r) = {q[j] : j \in a + 1 .. a + m}
<1>1. PICK b \in Nat : b = a + 1
  OBVIOUS
<1>2. PICK c \in Nat : c = a + m
  OBVIOUS
<1>3. r = SubSeq(q, b, c)
  BY <1>1, <1>2 DEF Segment
<1>4. /\ r \in Seq(S) /\ Len(r) = m
      /\ \A j \in 1 .. m : r[j] = q[a + j]
  BY <1>1, <1>2, <1>3
<1>5. ToSet(r) = {r[j] : j \in 1 .. m}
  BY <1>4 DEF ToSet
<1>6. ASSUME NEW x \in ToSet(r) PROVE x \in {q[j] : j \in a + 1 .. a + m}
  <2>1. PICK j \in 1 .. m : x = r[j]
    BY <1>5
  <2>2. x = q[a + j] /\ a + j \in a + 1 .. a + m
    BY <1>4, <2>1
  <2>3. QED
    BY <2>2
<1>7. ASSUME NEW j \in a + 1 .. a + m PROVE q[j] \in ToSet(r)
  <2>1. j - a \in 1 .. m /\ r[j - a] = q[j]
    BY <1>4
  <2>2. QED
    BY <1>5, <2>1
<1>8. QED
  BY <1>4, <1>6, <1>7

\* A match is cut from the front of what was gathered: all of it for partners, unless it is
\* more than Num, and twice half of it in a pair game.
FromFront(q, n, S) ==
  /\ SetsOf(q) \in [1 .. Sides -> Seq(S)]
  /\ \E m \in 1 .. n : /\ MembersOf(SetsOf(q)) = {q[j] : j \in 1 .. m}
                       /\ ~Pair => m = IF n > Num THEN Num ELSE n

\* The sets of a match are cut from the front.
LEMMA SetsFacts ==
  ASSUME NEW S, NEW q, q \in Seq(S), NEW n \in Nat, n = Len(q), Sides <= n PROVE FromFront(q, n, S)
<1> USE SearchAssumption DEF FromFront
<1>1. PICK size : size = n \div Sides
  OBVIOUS
<1>2. PICK num : num = IF size > Num THEN Num ELSE size
  OBVIOUS
<1>3. size \in Nat /\ Num \in Nat /\ num \in Nat /\ 1 <= num /\ Sides * num <= n
  <2>1. CASE Pair
    <3>1. Sides = 2 /\ size \in Nat /\ 1 <= size /\ 2 * size <= n
      BY <1>1, <2>1 DEF Sides
    <3>2. QED
      BY <1>2, <3>1
  <2>2. CASE ~Pair
    <3>1. Sides = 1 /\ size = n
      BY <1>1, <2>2 DEF Sides
    <3>2. QED
      BY <1>2, <3>1
  <2>3. QED
    BY <2>1, <2>2
<1>4. PICK sets : sets = SetsOf(q)
  OBVIOUS
<1>5. sets = [t \in 1 .. Sides |-> SubSeq(q, (t - 1) * num + 1, t * num)]
  BY <1>1, <1>2, <1>4 DEF SetsOf
<1>6. CASE Pair
  <2>1. Sides = 2 /\ 2 * num <= n
    BY <1>3, <1>6 DEF Sides
  <2>2. DOMAIN sets = {1, 2} /\ sets = [t \in {1, 2} |-> sets[t]]
    <3>1. 1 .. 2 = {1, 2}
      OBVIOUS
    <3>2. QED
      BY <1>5, <2>1, <3>1
  <2>3. Segment(q, 0, num, sets[1])
    <3>1. sets[1] = SubSeq(q, (1 - 1) * num + 1, 1 * num)
      <4>1. 1 \in 1 .. Sides
        BY <2>1
      <4>2. QED
        BY <1>5, <4>1, Zenon
    <3>2. (1 - 1) * num + 1 = 0 + 1 /\ 1 * num = 0 + num
      BY <1>3
    <3>3. QED
      BY <3>1, <3>2 DEF Segment
  <2>4. Segment(q, num, num, sets[2])
    <3>1. sets[2] = SubSeq(q, (2 - 1) * num + 1, 2 * num)
      <4>1. 2 \in 1 .. Sides
        BY <2>1
      <4>2. QED
        BY <1>5, <4>1, Zenon
    <3>2. (2 - 1) * num + 1 = num + 1 /\ 2 * num = num + num
      BY <1>3
    <3>3. QED
      BY <3>1, <3>2 DEF Segment
  <2>5. sets[1] \in Seq(S) /\ ToSet(sets[1]) = {q[j] : j \in 0 + 1 .. 0 + num}
    BY <1>3, <2>1, <2>3, SegmentFacts
  <2>6. sets[2] \in Seq(S) /\ ToSet(sets[2]) = {q[j] : j \in num + 1 .. num + num}
    BY <1>3, <2>1, <2>4, SegmentFacts
  <2>7. PICK m \in 1 .. n : m = num + num
    BY <1>3, <2>1
  <2>8. ToSet(sets[1]) \cup ToSet(sets[2]) = {q[j] : j \in 1 .. m}
    <3>1. 1 .. m = (0 + 1 .. 0 + num) \cup (num + 1 .. num + num)
      BY <1>3, <2>7
    <3>2. QED
      BY <2>5, <2>6, <3>1
  <2>9. MembersOf(sets) = {q[j] : j \in 1 .. m}
    BY <2>2, <2>8 DEF MembersOf
  <2>10. sets \in [1 .. Sides -> Seq(S)]
    <3>1. 1 .. Sides = {1, 2}
      BY <2>1
    <3>2. QED
      BY <2>2, <2>5, <2>6, <3>1
  <2>11. QED
    BY <1>4, <1>6, <2>9, <2>10
<1>7. CASE ~Pair
  <2>1. Sides = 1 /\ size = n /\ num <= n
    BY <1>1, <1>3, <1>7 DEF Sides
  <2>2. DOMAIN sets = {1} /\ sets = [t \in {1} |-> sets[t]]
    <3>1. 1 .. 1 = {1}
      OBVIOUS
    <3>2. QED
      BY <1>5, <2>1, <3>1
  <2>3. Segment(q, 0, num, sets[1])
    <3>1. sets[1] = SubSeq(q, (1 - 1) * num + 1, 1 * num)
      <4>1. 1 \in 1 .. Sides
        BY <2>1
      <4>2. QED
        BY <1>5, <4>1, Zenon
    <3>2. (1 - 1) * num + 1 = 0 + 1 /\ 1 * num = 0 + num
      BY <1>3
    <3>3. QED
      BY <3>1, <3>2 DEF Segment
  <2>4. sets[1] \in Seq(S) /\ ToSet(sets[1]) = {q[j] : j \in 0 + 1 .. 0 + num}
    BY <1>3, <2>1, <2>3, SegmentFacts
  <2>5. 0 + 1 .. 0 + num = 1 .. num
    BY <1>3
  <2>6. MembersOf(sets) = {q[j] : j \in 1 .. num}
    <3>1. MembersOf(sets) = UNION {ToSet(sets[t]) : t \in {1}}
      BY ONLY <2>2 DEF MembersOf
    <3>2. MembersOf(sets) = ToSet(sets[1])
      BY ONLY <3>1
    <3>3. QED
      BY ONLY <2>4, <2>5, <3>2
  <2>7. sets \in [1 .. Sides -> Seq(S)]
    <3>1. 1 .. Sides = {1}
      BY <2>1
    <3>2. QED
      BY <2>2, <2>4, <3>1
  <2>8. num \in 1 .. n /\ num = IF n > Num THEN Num ELSE n
    BY <1>2, <1>3, <2>1
  <2>9. QED
    BY <1>4, <2>6, <2>7, <2>8
<1>8. QED
  BY <1>6, <1>7

\* The first m members of a sequence that has nobody twice are m people.
LEMMA FirstOnes ==
  ASSUME NEW q, Distinct(q), NEW m \in Nat, 1 .. m \subseteq DOMAIN q
  PROVE  Cardinality({q[j] : j \in 1 .. m}) = m
<1>1. PICK T : T = {q[j] : j \in 1 .. m}
  OBVIOUS
<1>2. PICK f : f = [j \in 1 .. m |-> q[j]]
  OBVIOUS
<1>3. f \in Bijection(1 .. m, T)
  <2>1. f \in [1 .. m -> T]
    BY <1>1, <1>2
  <2>2. \A i, j \in 1 .. m : f[i] = f[j] => i = j
    BY <1>2 DEF Distinct
  <2>3. \A x \in T : \E j \in 1 .. m : f[j] = x
    BY <1>1, <1>2
  <2>4. QED
    BY <2>1, <2>2, <2>3 DEF Bijection, Injection, IsInjective, Surjection
<1>4. ExistsBijection(1 .. m, T)
  BY <1>3 DEF ExistsBijection
<1>5. QED
  BY <1>1, <1>4, FS_CountingElements

\* The sets of a match are as the properties say.
MatchOK(sets) ==
  /\ MembersOf(sets) \subseteq individualMap /\ MembersOf(sets) # {}
  /\ \A p, q \in MembersOf(sets) : args[q].begin <= args[p].val /\ args[p].val <= args[q].end
  /\ ~Pair => /\ Cardinality(MembersOf(sets)) \in NumMin .. Num
              /\ \A p \in MembersOf(sets) : args[p].num <= Cardinality(MembersOf(sets))

\* What is gathered makes a match, when it is full or at the end large enough.
LEMMA GatheredMatches ==
  ASSUME Waiting, NEW s, NEW removed, Gathered(s, removed), s.full \/ Len(s.tmp) >= s.box.num
  PROVE  /\ SetsOf(s.tmp) \in [1 .. Sides -> Seq(individualMap)] /\ MatchOK(SetsOf(s.tmp))
         /\ MembersOf(SetsOf(s.tmp)) \cap removed = {}
<1> USE SearchAssumption
<1>1. PICK q : q = s.tmp
  OBVIOUS
<1>2. PICK b : b = s.box
  OBVIOUS
<1>3. /\ q \in Seq(individualMap) /\ Distinct(q) /\ BoxOK(b)
      /\ \A p \in ToSet(q) : p \notin removed /\ Boxed(b, args[p])
      /\ b.num \in Sizes /\ (Len(q) >= Num \/ Len(q) >= b.num)
  BY <1>1, <1>2 DEF Gathered
<1>4. PICK n \in Nat : n = Len(q)
  BY <1>3
<1>5. /\ b.num \in Nat /\ Sides <= n /\ (n >= Num \/ n >= b.num)
      /\ ~Pair => b.num <= Num /\ NumMin <= b.num
  BY <1>3, <1>4 DEF Sizes, Sides
<1>6. FromFront(q, n, individualMap)
  BY <1>3, <1>4, <1>5, SetsFacts
<1>7. PICK m \in 1 .. n : /\ MembersOf(SetsOf(q)) = {q[j] : j \in 1 .. m}
                          /\ ~Pair => m = IF n > Num THEN Num ELSE n
  BY <1>6 DEF FromFront
<1>8. SetsOf(q) \in [1 .. Sides -> Seq(individualMap)]
  BY <1>6 DEF FromFront
<1>9. PICK M : M = MembersOf(SetsOf(q))
  OBVIOUS
<1>10. M = {q[j] : j \in 1 .. m} /\ M # {} /\ M \subseteq ToSet(q) /\ M \subseteq individualMap
  <2>1. \A j \in 1 .. m : q[j] \in individualMap /\ q[j] \in ToSet(q)
    BY <1>3, <1>4 DEF ToSet
  <2>2. q[1] \in M
    BY <1>7, <1>9
  <2>3. QED
    BY <1>7, <1>9, <2>1, <2>2
<1>11. ASSUME NEW x \in M, NEW y \in M PROVE args[y].begin <= args[x].val /\ args[x].val <= args[y].end
  <2>1. /\ Asks(args[x]) /\ Asks(args[y]) /\ Boxed(b, args[x]) /\ Boxed(b, args[y])
    BY <1>3, <1>10 DEF Waiting
  <2>2. /\ b.begin \in Int /\ b.end \in Int /\ b.valBegin \in Int /\ b.valEnd \in Int
        /\ b.begin <= b.valBegin /\ b.valEnd <= b.end
    BY <1>3 DEF BoxOK
  <2>3. QED
    BY <2>1, <2>2 DEF Asks, Boxed
<1>12. ASSUME ~Pair
       PROVE  Cardinality(M) \in NumMin .. Num /\ \A x \in M : args[x].num <= Cardinality(M)
  <2>1. Cardinality(M) = m
    <3>1. 1 .. m \subseteq DOMAIN q
      BY <1>3, <1>4
    <3>2. QED
      BY <1>3, <1>10, <3>1, FirstOnes
  <2>2. m \in NumMin .. Num /\ b.num <= m
    BY <1>5, <1>7, <1>12
  <2>3. ASSUME NEW x \in M PROVE args[x].num <= m
    <3>1. args[x].num \in Nat /\ args[x].num <= b.num
      <4>1. Asks(args[x]) /\ Boxed(b, args[x])
        BY <1>3, <1>10 DEF Waiting
      <4>2. QED
        BY <4>1 DEF Asks, Sizes, Boxed
    <3>2. QED
      BY <1>5, <2>2, <3>1
  <2>4. QED
    BY <2>1, <2>2, <2>3
<1>13. MatchOK(SetsOf(q))
  BY <1>9, <1>10, <1>11, <1>12 DEF MatchOK
<1>14. M \cap removed = {}
  BY <1>3, <1>10
<1>15. QED
  BY <1>1, <1>8, <1>9, <1>13, <1>14

\* What a match is handed over as.
MatchSets == [1 .. Sides -> Seq(individualMap)]

\* What was found: matches as they should be, who is in one, and nobody in two.
Found(r) ==
  /\ r.removed \subseteq individualMap /\ r.made \in Seq(MatchSets)
  /\ \A m \in 1 .. Len(r.made) : MatchOK(r.made[m]) /\ MembersOf(r.made[m]) \subseteq r.removed
  /\ \A m, k \in 1 .. Len(r.made) :
       m # k => MembersOf(r.made[m]) \cap MembersOf(r.made[k]) = {}

\* A turn adds a match at most, of people who were not in one.
LEMMA TurnFinds ==
  ASSUME Waiting, NEW list, list \in Seq(individualMap), Distinct(list), NEW r, Found(r),
         NEW i \in 1 .. Len(list)
  PROVE  Found(Turn(list, r, i))
<1>1. PICK v : v = Turn(list, r, i)
  OBVIOUS
<1>2. PICK g : g = Gather(list, r.removed, i)
  OBVIOUS
<1>3. CASE v = r
  BY <1>1, <1>3
<1>4. CASE v # r
  <2>1. /\ g.full \/ Len(g.tmp) >= g.box.num
        /\ list[i] \notin r.removed
        /\ v = [removed |-> r.removed \cup MembersOf(SetsOf(g.tmp)),
                made |-> Append(r.made, SetsOf(g.tmp)), cut |-> ~g.full]
    BY <1>1, <1>2, <1>4 DEF Turn
  <2>2. PICK x : x = SetsOf(g.tmp)
    OBVIOUS
  <2>4. x \in MatchSets /\ MatchOK(x) /\ MembersOf(x) \cap r.removed = {}
    <3>1. Gathered(g, r.removed)
      BY <1>2, <2>1, GatherGathers
    <3>2. QED
      BY <2>1, <2>2, <3>1, GatheredMatches DEF MatchSets
  <2>5. PICK q \in Seq(MatchSets) : q = r.made
    BY DEF Found
  <2>6. PICK n \in Nat : n = Len(q)
    BY <2>5
  <2>7. PICK w : w = Append(q, x)
    OBVIOUS
  <2>8. /\ w \in Seq(MatchSets) /\ Len(w) = n + 1 /\ w[n + 1] = x
        /\ \A m \in 1 .. n : w[m] = q[m]
    BY <2>4, <2>5, <2>6, <2>7
  <2>9. /\ v.made = w /\ v.removed = r.removed \cup MembersOf(x)
    BY <2>1, <2>2, <2>5, <2>7
  <2>10. /\ r.removed \subseteq individualMap
         /\ \A m \in 1 .. n : MatchOK(q[m]) /\ MembersOf(q[m]) \subseteq r.removed
         /\ \A m, k \in 1 .. n : m # k => MembersOf(q[m]) \cap MembersOf(q[k]) = {}
    BY <2>5, <2>6 DEF Found
  <2>11. v.removed \subseteq individualMap
    BY <2>4, <2>9, <2>10 DEF MatchOK
  <2>12. ASSUME NEW m \in 1 .. n + 1 PROVE MatchOK(w[m]) /\ MembersOf(w[m]) \subseteq v.removed
    <3>1. CASE m \in 1 .. n
      BY <2>8, <2>9, <2>10, <3>1
    <3>2. CASE m = n + 1
      BY <2>4, <2>8, <2>9, <3>2
    <3>3. QED
      BY <3>1, <3>2
  <2>13. ASSUME NEW m \in 1 .. n + 1, NEW k \in 1 .. n + 1, m # k
         PROVE  MembersOf(w[m]) \cap MembersOf(w[k]) = {}
    <3>1. CASE m \in 1 .. n /\ k \in 1 .. n
      BY <2>8, <2>10, <2>13, <3>1
    <3>2. CASE m \in 1 .. n /\ k = n + 1
      BY <2>4, <2>8, <2>10, <2>13, <3>2
    <3>3. CASE m = n + 1 /\ k \in 1 .. n
      BY <2>4, <2>8, <2>10, <2>13, <3>3
    <3>4. QED
      BY <2>13, <3>1, <3>2, <3>3
  <2>14. QED
    BY <1>1, <2>8, <2>9, <2>11, <2>12, <2>13 DEF Found
<1>5. QED
  BY <1>3, <1>4

\* f is what was found after each of n turns.
Nobody == [removed |-> {}, made |-> <<>>, cut |-> FALSE]

IsSearch(f, list, n) ==
  f = [i \in 0 .. n |-> IF i = 0 THEN Nobody ELSE Turn(list, f[i - 1], i)]

\* There is such a function, for any number of turns.
LEMMA SearchExists == \A list : \A n \in Nat : \E f : IsSearch(f, list, n)
<1> SUFFICES ASSUME NEW list, NEW M \in Nat PROVE \E f : IsSearch(f, list, M)
  OBVIOUS
<1>1. PICK S : S = {n \in Nat : \E f : IsSearch(f, list, n)}
  OBVIOUS
<1>2. 0 \in S
  <2>1. PICK f : f = [i \in 0 .. 0 |-> Nobody]
    OBVIOUS
  <2>2. IsSearch(f, list, 0)
    BY <2>1 DEF IsSearch
  <2>3. QED
    BY <1>1, <2>2
<1>3. ASSUME NEW n \in Nat, n \in S PROVE n + 1 \in S
  <2>1. PICK f : IsSearch(f, list, n)
    BY <1>1, <1>3
  <2>2. PICK h : h = [i \in 0 .. n + 1 |-> IF i <= n THEN f[i] ELSE Turn(list, f[n], n + 1)]
    OBVIOUS
  <2>3. \A i \in 0 .. n + 1 : h[i] = IF i = 0 THEN Nobody ELSE Turn(list, h[i - 1], i)
    <3>1. \A i \in 0 .. n : h[i] = f[i]
      BY <2>2
    <3>2. h[n + 1] = Turn(list, f[n], n + 1)
      BY <2>2
    <3>3. \A i \in 0 .. n : f[i] = IF i = 0 THEN Nobody ELSE Turn(list, f[i - 1], i)
      BY <2>1 DEF IsSearch
    <3>4. \A i \in 0 .. n : h[i] = IF i = 0 THEN Nobody ELSE Turn(list, h[i - 1], i)
      <4> TAKE i \in 0 .. n
      <4>1. i # 0 => i - 1 \in 0 .. n
        OBVIOUS
      <4> QED
        BY ONLY <3>1, <3>3, <4>1, i \in 0 .. n
    <3>5. h[n + 1] = Turn(list, h[n], n + 1) /\ n + 1 # 0 /\ n + 1 - 1 = n
      BY ONLY <3>1, <3>2, n \in Nat
    <3>6. \A i \in 0 .. n + 1 : i \in 0 .. n \/ i = n + 1
      OBVIOUS
    <3>7. QED
      BY ONLY <3>4, <3>5, <3>6
  <2>4. IsSearch(h, list, n + 1)
    BY ONLY <2>2, <2>3 DEF IsSearch
  <2>5. QED
    BY <1>1, <2>4
<1>4. \A n \in 0 .. M - 1 : n \in S => n + 1 \in S
  BY <1>3
<1>5. \A n \in 0 .. M : n \in S
  BY ONLY <1>2, <1>4, M \in Nat, UpTo
<1>6. QED
  BY <1>1, <1>5

\* Search is the last of them.
SearchIsTheLast ==
  \A list : \A n \in Nat : n = Len(list) => \E f : IsSearch(f, list, n) /\ Search(list) = f[n]

\* Search is its last value, whatever the list.
LEMMA SearchDef == SearchIsTheLast
<1> SUFFICES ASSUME NEW list, NEW n \in Nat, n = Len(list)
             PROVE  \E f : IsSearch(f, list, n) /\ Search(list) = f[n]
  BY DEF SearchIsTheLast
<1>1. PICK g : g = CHOOSE f : IsSearch(f, list, n)
  OBVIOUS
<1>2. IsSearch(g, list, n)
  BY <1>1, SearchExists, Zenon
<1>3. Search(list) = g[n]
  BY <1>1, Zenon DEF Search, IsSearch, Nobody
<1>4. QED
  BY <1>2, <1>3

\* What the values of f are.
LEMMA SearchValues ==
  ASSUME NEW list, NEW n \in Nat, NEW f, IsSearch(f, list, n)
  PROVE  f[0] = Nobody /\ \A i \in 1 .. n : f[i] = Turn(list, f[i - 1], i)
<1>1. \A i \in 0 .. n : f[i] = IF i = 0 THEN Nobody ELSE Turn(list, f[i - 1], i)
  BY DEF IsSearch
<1>2. QED
  BY <1>1

\* Whatever the search finds are matches.
LEMMA SearchFinds ==
  ASSUME Waiting, NEW list, list \in Seq(individualMap), Distinct(list)
  PROVE  Found(Search(list))
<1>1. PICK n \in Nat : n = Len(list)
  OBVIOUS
<1>2. PICK f : IsSearch(f, list, n) /\ Search(list) = f[n]
  BY <1>1, SearchDef DEF SearchIsTheLast
<1>3. f[0] = Nobody /\ \A i \in 1 .. n : f[i] = Turn(list, f[i - 1], i)
  <2>1. IsSearch(f, list, n)
    BY <1>2
  <2>2. QED
    BY ONLY <2>1, n \in Nat, SearchValues
<1>4. PICK S : S = {i \in 0 .. n : Found(f[i])}
  OBVIOUS
<1>5. 0 \in S
  <2>1. <<>> \in Seq(MatchSets) /\ Len(<<>>) = 0
    OBVIOUS
  <2>2. Found(Nobody)
    BY <2>1 DEF Found, Nobody
  <2>3. QED
    BY <1>3, <1>4, <2>2
<1>6. ASSUME NEW i \in 0 .. n - 1, i \in S PROVE i + 1 \in S
  <2>1. PICK j \in 1 .. n : j = i + 1 /\ j - 1 = i
    OBVIOUS
  <2>2. PICK r : r = f[i]
    OBVIOUS
  <2>3. Found(r) /\ f[j] = Turn(list, r, j)
    BY <1>3, <1>4, <1>6, <2>1, <2>2
  <2>4. Found(f[j])
    BY <1>1, <2>3, TurnFinds
  <2>5. QED
    BY <1>4, <2>1, <2>4
<1>7. \A i \in 0 .. n : i \in S
  <2>1. \A i \in 0 .. n - 1 : i \in S => i + 1 \in S
    BY <1>6
  <2>2. QED
    BY ONLY <1>5, <2>1, n \in Nat, UpTo
<1>8. QED
  BY <1>2, <1>4, <1>7

(***************************************************************************)
(* A search depends on what people ask for, and on nothing else.           *)
(***************************************************************************)
\* a and b ask for the same.
SameAsk(a, b) == a.val = b.val /\ a.begin = b.begin /\ a.end = b.end /\ a.num = b.num

\* In the next state those in A ask for the same.
Unmoved(A) == model' = model /\ \A p \in A : SameAsk(args'[p], args[p])

\* Whoever asks for the same starts with the same.
LEMMA SameStart ==
  ASSUME NEW A, Unmoved(A), NEW p \in A PROVE Alone(p)' = Alone(p)
  BY DEF Alone, Unmoved, SameAsk

\* A visit to somebody who asks for the same ends the same.
LEMMA SameVisit ==
  ASSUME NEW A, Unmoved(A), NEW p \in A, NEW s, NEW before PROVE Visit(s, p, before)' = Visit(s, p, before)
<1>1. PICK a : a = args[p]
  OBVIOUS
<1>2. PICK b : b = args'[p]
  OBVIOUS
<1>3. SameAsk(b, a)
  BY <1>1, <1>2 DEF Unmoved
<1>4. /\ Fits(s.box, a) <=> Fits(s.box, b)
      /\ InsertBox(s.box, a) = InsertBox(s.box, b)
      /\ (IF before THEN a.end < s.box.begin ELSE a.begin > s.box.end)
           = (IF before THEN b.end < s.box.begin ELSE b.begin > s.box.end)
  BY <1>3 DEF Fits, InsertBox, SameAsk
<1>5. QED
  BY <1>1, <1>2, <1>4 DEF Visit

\* So does a look.
LEMMA SameLook ==
  ASSUME NEW A, Unmoved(A), NEW list, list \in Seq(A), NEW removed, NEW i, NEW s, NEW c
  PROVE  Look(list, removed, i, s, c)' = Look(list, removed, i, s, c)
<1>1. CASE c \in DOMAIN list
  <2>1. PICK p \in A : p = list[c]
    BY <1>1
  <2>2. PICK b : b = (c < i)
    OBVIOUS
  <2>3. Visit(s, p, b)' = Visit(s, p, b)
    BY SameVisit
  <2>4. QED
    BY <2>1, <2>2, <2>3 DEF Look
<1>2. CASE c \notin DOMAIN list
  BY <1>2 DEF Look
<1>3. QED
  BY <1>1, <1>2

\* Among those who ask for the same, everybody gathers the same.
LEMMA SameGather ==
  ASSUME NEW A, Unmoved(A), NEW list, list \in Seq(A), NEW removed, NEW i \in 1 .. Len(list)
  PROVE  Gather(list, removed, i)' = Gather(list, removed, i)
<1>1. PICK n \in Nat : n = 2 * Len(list)
  OBVIOUS
<1>2. PICK f : IsGathering(f, list, removed, i, n) /\ Gather(list, removed, i) = f[n]
  BY <1>1, GatherDef DEF GatherIsTheLast
<1>3. PICK g : IsGathering(g, list, removed, i, n)' /\ Gather(list, removed, i)' = g[n]
  <2>1. GatherIsTheLast'
    BY GatherDef, PTL
  <2>2. QED
    BY <1>1, <2>1 DEF GatherIsTheLast
<1>4. /\ f[0] = Alone(list[i])
      /\ \A k \in 1 .. n : f[k] = Look(list, removed, i, f[k - 1], Around(i, k))
  <2>1. \A k \in 0 .. n : f[k] = IF k = 0 THEN Alone(list[i]) ELSE Look(list, removed, i, f[k - 1], Around(i, k))
    BY <1>2 DEF IsGathering
  <2>2. QED
    BY <2>1
<1>5. /\ g[0] = Alone(list[i])'
      /\ \A k \in 1 .. n : g[k] = Look(list, removed, i, g[k - 1], Around(i, k))'
  <2>1. g = [k \in 0 .. n |-> IF k = 0 THEN Alone(list[i])' ELSE Look(list, removed, i, g[k - 1], Around(i, k))']
    BY <1>3 DEF IsGathering
  <2>2. \A k \in 0 .. n : g[k] = IF k = 0 THEN Alone(list[i])' ELSE Look(list, removed, i, g[k - 1], Around(i, k))'
    BY <2>1
  <2>3. QED
    BY <2>2
<1>6. PICK S : S = {k \in 0 .. n : g[k] = f[k]}
  OBVIOUS
<1>7. 0 \in S
  <2>1. PICK p \in A : p = list[i]
    OBVIOUS
  <2>2. Alone(p)' = Alone(p)
    BY SameStart
  <2>3. QED
    BY <1>4, <1>5, <1>6, <2>1, <2>2
<1>8. ASSUME NEW k \in 0 .. n - 1, k \in S PROVE k + 1 \in S
  <2>1. PICK l \in 1 .. n : l = k + 1 /\ l - 1 = k
    OBVIOUS
  <2>2. PICK s : s = f[k] /\ s = g[k]
    BY <1>6, <1>8
  <2>3. PICK c : c = Around(i, l)
    OBVIOUS
  <2>4. Look(list, removed, i, s, c)' = Look(list, removed, i, s, c)
    BY SameLook
  <2>5. f[l] = Look(list, removed, i, s, c) /\ g[l] = Look(list, removed, i, s, c)'
    BY <1>4, <1>5, <2>1, <2>2, <2>3
  <2>6. QED
    BY <1>6, <2>1, <2>4, <2>5
<1>9. \A k \in 0 .. n : k \in S
  <2>1. \A k \in 0 .. n - 1 : k \in S => k + 1 \in S
    BY <1>8
  <2>2. QED
    BY ONLY <1>7, <2>1, n \in Nat, UpTo
<1>10. QED
  BY <1>2, <1>3, <1>6, <1>9

\* The cut into sets depends on the model alone.
LEMMA SameSets == ASSUME model' = model, NEW q PROVE SetsOf(q)' = SetsOf(q)
  BY DEF SetsOf, Sides, Pair

\* A turn among those who ask for the same ends the same.
LEMMA SameTurn ==
  ASSUME NEW A, Unmoved(A), NEW list, list \in Seq(A), NEW r, NEW i \in 1 .. Len(list)
  PROVE  Turn(list, r, i)' = Turn(list, r, i)
<1>1. PICK removed : removed = r.removed
  OBVIOUS
<1>2. PICK g : g = Gather(list, removed, i)
  OBVIOUS
<1>3. Gather(list, removed, i)' = g
  BY <1>2, SameGather
<1>4. SetsOf(g.tmp)' = SetsOf(g.tmp)
  <2>1. PICK q : q = g.tmp
    OBVIOUS
  <2>2. SetsOf(q)' = SetsOf(q)
    BY SameSets DEF Unmoved
  <2>3. QED
    BY <2>1, <2>2
<1>5. QED
  BY <1>1, <1>2, <1>3, <1>4 DEF Turn

\* A search among those who ask for the same finds the same.
LEMMA SameSearch ==
  ASSUME NEW A, Unmoved(A), NEW list, list \in Seq(A) PROVE Search(list)' = Search(list)
<1>1. PICK n \in Nat : n = Len(list)
  OBVIOUS
<1>2. PICK f : IsSearch(f, list, n) /\ Search(list) = f[n]
  BY <1>1, SearchDef DEF SearchIsTheLast
<1>3. PICK g : IsSearch(g, list, n)' /\ Search(list)' = g[n]
  <2>1. SearchIsTheLast'
    BY SearchDef, PTL
  <2>2. QED
    BY <1>1, <2>1 DEF SearchIsTheLast
<1>4. f[0] = Nobody /\ \A i \in 1 .. n : f[i] = Turn(list, f[i - 1], i)
  <2>1. \A i \in 0 .. n : f[i] = IF i = 0 THEN Nobody ELSE Turn(list, f[i - 1], i)
    BY <1>2 DEF IsSearch
  <2>2. QED
    BY <2>1
<1>5. g[0] = Nobody /\ \A i \in 1 .. n : g[i] = Turn(list, g[i - 1], i)'
  <2>1. g = [i \in 0 .. n |-> IF i = 0 THEN Nobody ELSE Turn(list, g[i - 1], i)']
    BY <1>3 DEF IsSearch, Nobody
  <2>2. \A i \in 0 .. n : g[i] = IF i = 0 THEN Nobody ELSE Turn(list, g[i - 1], i)'
    BY <2>1
  <2>3. QED
    BY <2>2
<1>6. PICK S : S = {i \in 0 .. n : g[i] = f[i]}
  OBVIOUS
<1>7. 0 \in S
  BY <1>4, <1>5, <1>6
<1>8. ASSUME NEW i \in 0 .. n - 1, i \in S PROVE i + 1 \in S
  <2>1. PICK l \in 1 .. n : l = i + 1 /\ l - 1 = i
    OBVIOUS
  <2>2. PICK r : r = f[i] /\ r = g[i]
    BY <1>6, <1>8
  <2>3. Turn(list, r, l)' = Turn(list, r, l)
    BY <1>1, SameTurn
  <2>4. f[l] = Turn(list, r, l) /\ g[l] = Turn(list, r, l)'
    BY <1>4, <1>5, <2>1, <2>2
  <2>5. QED
    BY <1>6, <2>1, <2>3, <2>4
<1>9. \A i \in 0 .. n : i \in S
  <2>1. \A i \in 0 .. n - 1 : i \in S => i + 1 \in S
    BY <1>8
  <2>2. QED
    BY ONLY <1>7, <2>1, n \in Nat, UpTo
<1>10. QED
  BY <1>2, <1>3, <1>6, <1>9

\* Those who ask for the same keep their order.
LEMMA SameByBegin ==
  ASSUME NEW A, Unmoved(A), NEW list, list \in Seq(A) PROVE ByBegin(list)' = ByBegin(list)
<1>1. ASSUME NEW i \in DOMAIN list, NEW j \in DOMAIN list PROVE Precedes(list, j, i)' <=> Precedes(list, j, i)
  <2>1. PICK p \in A : p = list[i]
    OBVIOUS
  <2>2. PICK q \in A : q = list[j]
    OBVIOUS
  <2>3. SameAsk(args'[p], args[p]) /\ SameAsk(args'[q], args[q])
    BY DEF Unmoved
  <2>4. QED
    BY <2>1, <2>2, <2>3 DEF Precedes, SameAsk
<1>2. \A i \in DOMAIN list :
        {j \in DOMAIN list : j = i \/ Precedes(list, j, i)'} = {j \in DOMAIN list : j = i \/ Precedes(list, j, i)}
  BY <1>1
<1>3. [i \in DOMAIN list |-> Cardinality({j \in DOMAIN list : j = i \/ Precedes(list, j, i)})]'
        = [i \in DOMAIN list |-> Cardinality({j \in DOMAIN list : j = i \/ Precedes(list, j, i)})]
  BY <1>2
<1>4. PICK rank : rank = [i \in DOMAIN list |-> Cardinality({j \in DOMAIN list : j = i \/ Precedes(list, j, i)})]
  OBVIOUS
<1>5. ByBegin(list) = Arranged(list, rank)
  BY <1>4 DEF ByBegin
<1>6. ByBegin(list)' = Arranged(list, rank)
  BY <1>3, <1>4 DEF ByBegin
<1>7. QED
  BY <1>5, <1>6

\* What a search of the list as it is would find.
Finds(list) == Search(ByBegin(list)).made

\* So a search of the list as it is finds what it would have found.
LEMMA SameFinds ==
  ASSUME NEW A, Unmoved(A), NEW list, list \in Seq(A), \A p \in A : args[p].begin \in Int
  PROVE  Finds(list)' = Finds(list)
<1>1. PICK s : s = ByBegin(list)
  OBVIOUS
<1>2. s \in Seq(A)
  BY <1>1, ByBeginFacts
<1>3. ByBegin(list)' = s
  BY <1>1, SameByBegin
<1>4. Search(s)' = Search(s)
  BY <1>2, SameSearch
<1>5. QED
  BY <1>1, <1>3, <1>4 DEF Finds

(***************************************************************************)
(* The specification.                                                      *)
(***************************************************************************)
\* List and map hold the same people, each once, and what they ask for can be relied on.
SearchPeople ==
  /\ model \in Models /\ update \in BOOLEAN /\ gone \in BOOLEAN
  /\ individualMap \subseteq Persons
  /\ individual \in Seq(individualMap) /\ ToSet(individual) = individualMap /\ Distinct(individual)
  /\ args \in [individualMap -> Args] /\ Waiting

\* What is said of the matches of the last step.
SearchMatches == MutuallyAcceptable /\ MatchedOnce /\ LargeEnough

SearchInv == SearchPeople /\ SearchMatches /\ CleanMeansNothingToFind

\* What they ask for is judged by the model, which never changes.
LEMMA WaitingNow ==
  ASSUME model' = model, \A x \in individualMap' : Asks(args'[x]) PROVE Waiting'
<1>1. ASSUME NEW x \in individualMap' PROVE Asks(args[x])'
  BY DEF Asks, Sizes, Pair
<1>2. QED
  BY <1>1 DEF Waiting

\* Whoever enters has his value in his window, which is his cell.
LEMMA InitAsks ==
  ASSUME NEW val \in Vals PROVE InitSearchArgs(val) \in Args /\ Asks(InitSearchArgs(val))
<1> USE SearchAssumption
<1>1. PICK index : index = (val - ValMin) \div CellVal
  OBVIOUS
<1>2. val \in Int /\ ValMin <= val /\ CellVal \in Nat \ {0} /\ ValMin \in Int
  OBVIOUS
<1>3. index \in Nat /\ index * CellVal <= val - ValMin /\ val - ValMin < index * CellVal + CellVal
  <2>1. PICK d \in Nat : d = val - ValMin
    BY <1>2
  <2>2. index = d \div CellVal
    BY <1>1, <2>1
  <2>3. d = CellVal * (d \div CellVal) + (d % CellVal) /\ d % CellVal \in 0 .. CellVal - 1
    BY <1>2
  <2>4. index \in Nat
    BY <1>2, <2>2
  <2>5. CellVal * index = index * CellVal
    BY <1>2, <2>4
  <2>6. QED
    BY <1>2, <2>1, <2>2, <2>3, <2>4, <2>5
<1>4. PICK begin : begin = IF index < 1 THEN ValMin ELSE ValMin + index * CellVal
  OBVIOUS
<1>5. begin \in Int /\ begin <= val /\ val <= begin + CellVal - 1 /\ begin + CellVal - 1 \in Int
  <2>1. PICK w \in Int : w = index * CellVal
    BY <1>2, <1>3
  <2>2. index < 1 => w = 0
    BY <1>2, <1>3, <2>1
  <2>3. QED
    BY <1>2, <1>3, <1>4, <2>1, <2>2
<1>6. PICK num : num = Num * Sides
  OBVIOUS
<1>7. num \in Nat /\ num \in Sizes
  BY <1>6 DEF Sizes, Sides
<1>8. InitSearchArgs(val) = [val |-> val, deep |-> 0, num |-> num, begin |-> begin, end |-> begin + CellVal - 1]
  BY <1>1, <1>4, <1>6 DEF InitSearchArgs
<1>9. 0 \in 0 .. TransfMax
  OBVIOUS
<1>10. QED
  BY <1>2, <1>5, <1>7, <1>8, <1>9 DEF Args, Asks

\* What widens a window or lowers a number keeps both in order.
LEMMA ReducedAsks ==
  ASSUME NEW a, a \in Args, Asks(a), Reduces(a) PROVE Reduced(a) \in Nat /\ Reduced(a) \in Sizes
<1> USE SearchAssumption
<1>1. a.deep \in Nat /\ NumMin \in Nat /\ NumMin # 0
  BY DEF Args, Reduces
<1>2. PICK k \in Nat : k = Reduce * a.deep
  BY <1>1
<1>3. PICK n : n = IF Num - k < NumMin THEN NumMin ELSE Num - k
  OBVIOUS
<1>4. n \in Nat /\ NumMin <= n /\ n <= Num /\ 1 <= n
  BY <1>1, <1>3
<1>5. Reduced(a) = n * Sides
  BY <1>2, <1>3 DEF Reduced
<1>6. QED
  BY <1>1, <1>4, <1>5 DEF Sizes, Sides

\* SearchExpand keeps everybody's value in his window, also at the borders.
LEMMA WidenedAsks ==
  ASSUME NEW a, a \in Args, Asks(a), a.deep < TransfMax
  PROVE  SearchExpand(a) \in Args /\ Asks(SearchExpand(a))
<1> USE SearchAssumption
<1>1. /\ a.val \in Vals /\ a.val \in Int /\ ValMin <= a.val /\ a.val <= ValMax
      /\ a.begin \in Int /\ a.end \in Int /\ a.begin <= a.val /\ a.val <= a.end
      /\ a.deep + 1 \in 0 .. TransfMax /\ a.num \in Nat /\ a.num \in Sizes
  BY DEF Args, Asks
<1>2. PICK k \in Nat : k = TransfRadio * CellVal
  OBVIOUS
<1>3. PICK begin : begin = IF a.begin = ValMin THEN a.begin ELSE IF a.begin - k < ValMin THEN ValMin ELSE a.begin - k
  OBVIOUS
<1>4. PICK end : end = IF a.end = ValMax THEN a.end ELSE IF a.end + k > ValMax THEN ValMax ELSE a.end + k
  OBVIOUS
<1>5. begin \in Int /\ end \in Int /\ begin <= a.val /\ a.val <= end
  BY <1>1, <1>2, <1>3, <1>4
<1>6. SearchExpand(a) = [val |-> a.val, deep |-> a.deep + 1, begin |-> begin, end |-> end, num |-> a.num]
  <2>1. a \in [val : Vals, deep : 0 .. TransfMax, begin : Int, end : Int, num : Nat]
    BY DEF Args
  <2>2. SearchExpand(a) = [a EXCEPT !.begin = begin, !.end = end, !.deep = a.deep + 1]
    BY <1>2, <1>3, <1>4, <2>1 DEF SearchExpand
  <2>3. QED
    BY <2>1, <2>2
<1>7. QED
  BY <1>1, <1>5, <1>6 DEF Args, Asks

\* What ValExpand does to one person, and that it does nothing to him unless _update is set.
LEMMA ExpandAsks ==
  ASSUME NEW a, a \in Args, Asks(a)
  PROVE  Expanded(a) \in Args /\ Asks(Expanded(a)) /\ (~Updates(a) => SameAsk(Expanded(a), a))
<1>1. PICK b : b = IF Reduces(a) THEN [a EXCEPT !.num = Reduced(a)] ELSE a
  OBVIOUS
<1>2. b \in Args /\ Asks(b) /\ b.deep = a.deep /\ (~Reduces(a) => b = a)
  <2>1. CASE Reduces(a)
    <3>1. PICK n \in Nat : n = Reduced(a) /\ n \in Sizes
      BY <2>1, ReducedAsks
    <3>2. b = [a EXCEPT !.num = n]
      BY <1>1, <2>1, <3>1
    <3>3. QED
      BY <2>1, <3>1, <3>2 DEF Args, Asks
  <2>2. CASE ~Reduces(a)
    BY <1>1, <2>2
  <2>3. QED
    BY <2>1, <2>2
<1>3. Expanded(a) = IF Expands(a) THEN SearchExpand(b) ELSE b
  BY <1>1 DEF Expanded
<1>4. CASE Expands(a)
  <2>1. b.deep < TransfMax
    BY <1>2, <1>4 DEF Expands
  <2>2. SearchExpand(b) \in Args /\ Asks(SearchExpand(b))
    BY <1>2, <2>1, WidenedAsks
  <2>3. ASSUME ~Updates(a) PROVE SameAsk(SearchExpand(b), a)
    <3>1. b = a /\ a.begin = ValMin /\ a.end = ValMax
      BY <1>2, <1>4, <2>3 DEF Updates
    <3>2. QED
      BY <3>1 DEF SearchExpand, SameAsk, Args
  <2>4. QED
    BY <1>3, <1>4, <2>2, <2>3
<1>5. CASE ~Expands(a)
  <2>1. ~Updates(a) => b = a
    BY <1>2 DEF Updates
  <2>2. QED
    BY <1>2, <1>3, <1>5, <2>1 DEF SameAsk
<1>6. QED
  BY <1>4, <1>5

\* Without matches there is nothing wrong with them.
LEMMA NoMatches == ASSUME made = <<>> PROVE SearchMatches
  BY DEF SearchMatches, MutuallyAcceptable, LargeEnough, MatchedOnce

\* The same for the next state.
LEMMA NoMatchesNow == ASSUME made' = <<>> PROVE SearchMatches'
  BY DEF SearchMatches, MutuallyAcceptable, LargeEnough, MatchedOnce

\* A sequence is one of its own members.
LEMMA OwnMembers == ASSUME NEW S, NEW q \in Seq(S) PROVE q \in Seq(ToSet(q))
<1>1. PICK n \in Nat : n = Len(q)
  OBVIOUS
<1>2. q = [i \in 1 .. n |-> q[i]] /\ \A i \in 1 .. n : q[i] \in ToSet(q)
  BY <1>1 DEF ToSet
<1>3. QED
  BY <1>2

\* What a search of the list would find is told by the list.
FindsThat == \A l : l = individual => Search(ByBegin(individual)).made = Finds(l)

\* That is what the property speaks of.
LEMMA FindsIt == FindsThat
  BY DEF FindsThat, Finds

\* A next list that holds nothing to find is clean.
LEMMA CleanNow == ASSUME NEW l, l = individual', Finds(l)' = <<>> PROVE CleanMeansNothingToFind'
<1>1. FindsThat'
  BY FindsIt, PTL
<1>2. Search(ByBegin(individual)).made' = Finds(l)'
  BY <1>1 DEF FindsThat
<1>3. QED
  BY <1>2 DEF CleanMeansNothingToFind

\* Entering keeps the invariant.
LEMMA EnterKeeps ==
  ASSUME SearchPeople, NEW p \in Persons, NEW val \in Vals, EnterIndividualSearch(p, val) PROVE SearchInv'
<1> USE DEF EnterIndividualSearch, SearchPeople
<1>1. PICK M : M = individualMap \cup {p}
  OBVIOUS
<1>2. PICK a : a = InitSearchArgs(val)
  OBVIOUS
<1>3. PICK q \in Seq(individualMap) : q = individual
  OBVIOUS
<1>4. PICK r : r = Append(q, p)
  OBVIOUS
<1>5. /\ individual' = r /\ individualMap' = M
      /\ args' = [x \in M |-> IF x = p THEN a ELSE args[x]]
  BY <1>1, <1>2, <1>3, <1>4
<1>6. a \in Args /\ Asks(a)
  BY <1>2, InitAsks
<1>7. r \in Seq(M) /\ ToSet(r) = M /\ Distinct(r)
  <2>1. q \in Seq(M)
    BY <1>1, <1>3
  <2>2. Adds(M, q, p, r)
    BY <1>1, <1>4, <2>1 DEF Adds
  <2>3. /\ r \in Seq(M) /\ ToSet(r) = ToSet(q) \cup {p}
        /\ Distinct(q) /\ p \notin ToSet(q) => Distinct(r)
    BY <2>2, AppendMembers
  <2>4. QED
    BY <1>1, <1>3, <2>3
<1>8. \A x \in M : args'[x] \in Args /\ Asks(args'[x])
  <2>1. \A x \in individualMap : args[x] \in Args /\ Asks(args[x])
    BY DEF Waiting
  <2>2. QED
    BY <1>1, <1>5, <1>6, <2>1
<1>9. args' \in [M -> Args]
  BY <1>5, <1>8
<1>10. Waiting'
  BY <1>5, <1>8, WaitingNow
<1>11. SearchPeople'
  BY <1>1, <1>5, <1>7, <1>9, <1>10 DEF Distinct
<1>12. CleanMeansNothingToFind'
  BY DEF CleanMeansNothingToFind
<1>13. QED
  BY <1>11, <1>12, NoMatchesNow DEF SearchInv

\* Those who remain when some leave.
LEMMA OthersRemain ==
  ASSUME SearchPeople, NEW out, NEW list, list \in Seq(individualMap), ToSet(list) = individualMap, Distinct(list),
         model' = model, update' \in BOOLEAN, gone' \in BOOLEAN,
         individual' = Kept(list, out), individualMap' = individualMap \ out,
         args' = Only(individualMap \ out)
  PROVE  SearchPeople'
<1> USE DEF SearchPeople
<1>1. PICK M : M = individualMap \ out
  OBVIOUS
<1>2. PICK r : r = Kept(list, out)
  OBVIOUS
<1>3. individualMap' = M /\ individual' = r /\ args' = [x \in M |-> args[x]]
  BY <1>1, <1>2 DEF Only
<1>4. r \in Seq(individualMap) /\ ToSet(r) = M /\ Distinct(r)
  BY <1>1, <1>2, KeptFacts
<1>5. r \in Seq(M)
  BY <1>4, OwnMembers
<1>6. \A x \in M : args'[x] \in Args /\ Asks(args'[x])
  BY <1>1, <1>3 DEF Waiting
<1>7. args' \in [M -> Args]
  BY <1>3, <1>6
<1>8. Waiting'
  BY <1>3, <1>6, WaitingNow
<1>9. QED
  BY <1>1, <1>3, <1>4, <1>5, <1>7, <1>8 DEF Distinct

\* So does leaving.
LEMMA LeaveKeeps ==
  ASSUME SearchPeople, NEW p \in Persons, LeaveIndividualSearchChannel(p) PROVE SearchInv'
<1> USE DEF LeaveIndividualSearchChannel
<1>1. SearchPeople'
  <2>1. PICK out : out = {p}
    OBVIOUS
  <2>2. PICK list : list = individual
    OBVIOUS
  <2>3. /\ list \in Seq(individualMap) /\ ToSet(list) = individualMap /\ Distinct(list)
        /\ model' = model /\ update' \in BOOLEAN /\ gone' \in BOOLEAN
    BY <2>2 DEF SearchPeople
  <2>4. individual' = Kept(list, out) /\ individualMap' = individualMap \ out /\ args' = Only(individualMap \ out)
    BY <2>1, <2>2
  <2>5. QED
    BY <2>3, <2>4, OthersRemain
<1>2. CleanMeansNothingToFind'
  BY DEF CleanMeansNothingToFind
<1>3. QED
  BY <1>1, <1>2, NoMatchesNow DEF SearchInv

\* So does ValExpand: what it leaves unmarked asks for what it asked before.
LEMMA ExpandKeeps == ASSUME SearchPeople, CleanMeansNothingToFind, ValExpand PROVE SearchInv'
<1> USE DEF ValExpand
<1>1. \A x \in individualMap : args[x] \in Args /\ Asks(args[x])
  BY DEF SearchPeople, Waiting
<1>2. \A x \in individualMap : /\ args'[x] \in Args /\ Asks(args'[x])
                               /\ ~Updates(args[x]) => SameAsk(args'[x], args[x])
  BY <1>1, ExpandAsks
<1>3. args' \in [individualMap -> Args]
  BY <1>2
<1>4. Waiting'
  BY <1>2, WaitingNow
<1>5. SearchPeople'
  BY <1>3, <1>4 DEF SearchPeople, Distinct
<1>6. ASSUME ~update', ~gone' PROVE CleanMeansNothingToFind'
  <2>1. ~update /\ ~gone /\ \A x \in individualMap : ~Updates(args[x])
    BY <1>6
  <2>2. Unmoved(individualMap)
    BY <1>2, <2>1 DEF Unmoved
  <2>3. PICK l : l = individual
    OBVIOUS
  <2>4. Finds(l) = <<>>
    BY <2>1, <2>3, FindsIt DEF FindsThat, CleanMeansNothingToFind
  <2>5. Finds(l)' = Finds(l)
    <3>1. PICK A : A = individualMap
      OBVIOUS
    <3>2. Unmoved(A) /\ l \in Seq(A) /\ \A x \in A : args[x].begin \in Int
      BY <1>1, <2>2, <2>3, <3>1 DEF SearchPeople, Asks
    <3>3. QED
      BY <3>2, SameFinds
  <2>6. QED
    BY <2>3, <2>4, <2>5, CleanNow
<1>7. CleanMeansNothingToFind'
  BY <1>6 DEF CleanMeansNothingToFind
<1>8. QED
  BY <1>5, <1>7, NoMatchesNow DEF SearchInv

\* What is found are good matches when it is handed to the callback.
LEMMA FoundMatches ==
  ASSUME NEW r, Found(r), model' = model,
         made' = [m \in DOMAIN r.made |-> [sets |-> r.made[m], args |-> Only(MembersOf(r.made[m]))]]
  PROVE  SearchMatches'
<1>1. PICK n \in Nat : n = Len(r.made) /\ DOMAIN r.made = 1 .. n
  BY DEF Found
<1>2. PICK mem : mem = [m \in 1 .. n |-> MembersOf(r.made[m])]
  OBVIOUS
<1>3. /\ \A m \in 1 .. n : MatchOK(r.made[m])
      /\ \A m, k \in 1 .. n : m # k => mem[m] \cap mem[k] = {}
  BY <1>1, <1>2 DEF Found
<1>4. /\ DOMAIN made' = 1 .. n
      /\ \A m \in 1 .. n : made'[m].args = [x \in mem[m] |-> args[x]]
  BY <1>1, <1>2 DEF Only
<1>5. \A m \in 1 .. n : /\ DOMAIN made'[m].args = mem[m]
                        /\ \A x \in mem[m] : made'[m].args[x] = args[x]
  BY ONLY <1>4
<1>6. \A m \in 1 .. n :
        /\ \A p, q \in mem[m] : args[q].begin <= args[p].val /\ args[p].val <= args[q].end
        /\ ~Pair => /\ Cardinality(mem[m]) \in NumMin .. Num
                    /\ \A p \in mem[m] : args[p].num <= Cardinality(mem[m])
  BY <1>2, <1>3 DEF MatchOK
<1>7. MutuallyAcceptable'
  <2>1. \A m \in DOMAIN made' : \A p, q \in DOMAIN made'[m].args :
          /\ made'[m].args[q].begin <= made'[m].args[p].val
          /\ made'[m].args[p].val <= made'[m].args[q].end
    <3>1. ASSUME NEW m \in 1 .. n, NEW p \in mem[m], NEW q \in mem[m]
          PROVE  /\ made'[m].args[q].begin <= made'[m].args[p].val
                 /\ made'[m].args[p].val <= made'[m].args[q].end
      <4>1. made'[m].args[p] = args[p] /\ made'[m].args[q] = args[q]
        BY <1>5
      <4>2. args[q].begin <= args[p].val /\ args[p].val <= args[q].end
        BY <1>6
      <4>3. QED
        BY <4>1, <4>2
    <3>2. ASSUME NEW m \in DOMAIN made', NEW p \in DOMAIN made'[m].args, NEW q \in DOMAIN made'[m].args
          PROVE  /\ made'[m].args[q].begin <= made'[m].args[p].val
                 /\ made'[m].args[p].val <= made'[m].args[q].end
      <4>1. m \in 1 .. n
        BY ONLY <1>4, <3>2
      <4>2. DOMAIN made'[m].args = mem[m]
        BY ONLY <1>5, <4>1
      <4>3. p \in mem[m] /\ q \in mem[m]
        BY ONLY <3>2, <4>2
      <4>4. QED
        BY ONLY <3>1, <4>1, <4>3
    <3>3. QED
      BY ONLY <3>2
  <2>2. QED
    BY <2>1 DEF MutuallyAcceptable
<1>8. LargeEnough'
  <2>1. Pair' <=> Pair
    BY DEF Pair
  <2>2. ASSUME ~Pair, NEW m \in 1 .. n
        PROVE  LET size == Cardinality(DOMAIN made'[m].args)
               IN  /\ size \in NumMin .. Num
                   /\ \A p \in DOMAIN made'[m].args : made'[m].args[p].num <= size
    <3>1. PICK M : M = mem[m]
      OBVIOUS
    <3>2. DOMAIN made'[m].args = M /\ \A p \in M : made'[m].args[p] = args[p]
      BY <1>5, <3>1
    <3>3. Cardinality(M) \in NumMin .. Num /\ \A p \in M : args[p].num <= Cardinality(M)
      BY <1>6, <2>2, <3>1
    <3>4. QED
      BY <3>2, <3>3
  <2>3. QED
    BY <1>4, <2>1, <2>2 DEF LargeEnough
<1>9. \A m, k \in DOMAIN made' : m # k => DOMAIN made'[m].args \cap DOMAIN made'[k].args = {}
  <2>1. \A m \in 1 .. n : DOMAIN made'[m].args = mem[m]
    BY <1>5
  <2>2. ASSUME NEW m \in DOMAIN made', NEW k \in DOMAIN made', m # k
        PROVE  DOMAIN made'[m].args \cap DOMAIN made'[k].args = {}
    <3>1. m \in 1 .. n /\ k \in 1 .. n
      BY ONLY <1>4, <2>2
    <3>2. mem[m] \cap mem[k] = {}
      BY ONLY <1>3, <2>2, <3>1
    <3>3. DOMAIN made'[m].args = mem[m] /\ DOMAIN made'[k].args = mem[k]
      BY ONLY <2>1, <3>1
    <3>4. QED
      BY ONLY <3>2, <3>3
  <2>3. QED
    BY ONLY <2>2
<1>10. MatchedOnce'
  BY <1>9 DEF MatchedOnce
<1>11. QED
  BY <1>7, <1>8, <1>10 DEF SearchMatches

\* So does FlushSearch: what is left clean is a sorted list that was searched in vain.
LEMMA FlushKeeps == ASSUME SearchPeople, FlushSearch PROVE SearchInv'
<1>1. PICK l \in Seq(individualMap) : l = individual
  BY DEF SearchPeople
<1>2. PICK b : b = ByBegin(l)
  OBVIOUS
<1>3. PICK r : r = Search(b)
  OBVIOUS
<1>4. \A x \in individualMap : args[x].begin \in Int
  BY DEF SearchPeople, Waiting, Asks
<1>5. /\ b \in Seq(individualMap) /\ ToSet(b) = individualMap /\ Distinct(b) /\ ByBegin(b) = b
  BY <1>1, <1>2, <1>4, ByBeginFacts DEF SearchPeople
<1>6. Found(r)
  BY <1>3, <1>5, SearchFinds DEF SearchPeople
<1>7. /\ individual' = Kept(b, r.removed)
      /\ individualMap' = individualMap \ r.removed
      /\ args' = Only(individualMap \ r.removed)
      /\ made' = [m \in DOMAIN r.made |-> [sets |-> r.made[m], args |-> Only(MembersOf(r.made[m]))]]
      /\ update' = FALSE /\ gone' = (gone \/ r.removed # {}) /\ model' = model
  BY <1>1, <1>2, <1>3 DEF FlushSearch
<1>8. SearchPeople'
  <2>1. PICK out : out = r.removed
    OBVIOUS
  <2>2. update' \in BOOLEAN /\ gone' \in BOOLEAN /\ model' = model
    BY <1>7
  <2>3. individual' = Kept(b, out) /\ individualMap' = individualMap \ out /\ args' = Only(individualMap \ out)
    BY <1>7, <2>1
  <2>4. QED
    BY <1>5, <2>2, <2>3, OthersRemain
<1>9. SearchMatches'
  BY <1>6, <1>7, FoundMatches
<1>10. ASSUME ~gone' PROVE CleanMeansNothingToFind'
  <2>1. r.removed = {}
    BY <1>7, <1>10
  <2>2. r.made = <<>>
    <3>1. PICK n \in Nat : n = Len(r.made)
      BY <1>6 DEF Found
    <3>2. ASSUME NEW m \in 1 .. n PROVE FALSE
      BY <1>6, <2>1, <3>1 DEF Found, MatchOK
    <3>3. n = 0
      BY <3>2
    <3>4. PICK q \in Seq(MatchSets) : q = r.made
      BY <1>6 DEF Found
    <3>5. Len(q) = 0
      BY ONLY <3>1, <3>3, <3>4
    <3>6. q = <<>>
      BY ONLY <3>5, q \in Seq(MatchSets)
    <3>7. QED
      BY <3>4, <3>6
  <2>3. individual' = b
    BY <1>5, <1>7, <2>1, KeptFacts
  <2>4. Finds(b) = <<>>
    BY <1>3, <1>5, <2>2 DEF Finds
  <2>5. Finds(b)' = Finds(b)
    <3>1. PICK A : A = individualMap
      OBVIOUS
    <3>2. \A x \in A : args'[x] = args[x]
      BY <1>7, <2>1, <3>1 DEF Only
    <3>3. Unmoved(A) /\ b \in Seq(A) /\ \A x \in A : args[x].begin \in Int
      BY <1>4, <1>5, <1>7, <3>1, <3>2 DEF Unmoved, SameAsk
    <3>4. QED
      BY <3>3, SameFinds
  <2>6. QED
    BY <2>3, <2>4, <2>5, CleanNow
<1>11. CleanMeansNothingToFind'
  BY <1>10 DEF CleanMeansNothingToFind
<1>12. QED
  BY <1>8, <1>9, <1>11 DEF SearchInv

\* An empty channel holds nothing to find.
LEMMA SearchStart == SearchInit => SearchInv
<1> SUFFICES ASSUME SearchInit PROVE SearchInv
  OBVIOUS
<1> USE DEF SearchInit
<1>1. SearchPeople
  <2>1. individual = <<>> /\ individualMap = {}
    OBVIOUS
  <2>2. <<>> \in Seq({}) /\ ToSet(<<>>) = {} /\ Distinct(<<>>)
    BY DEF ToSet, Distinct
  <2>3. args \in [{} -> Args]
    OBVIOUS
  <2>4. QED
    BY <2>1, <2>2, <2>3 DEF SearchPeople, Waiting
<1>2. CleanMeansNothingToFind
  <2>1. PICK l : l = <<>> /\ l = individual
    OBVIOUS
  <2>2. ByBegin(l) \in Seq({}) /\ Len(ByBegin(l)) = 0
    <3>1. PICK S : S = {}
      OBVIOUS
    <3>2. l \in Seq(S) /\ Len(l) = 0 /\ \A x \in S : args[x].begin \in Int
      BY <2>1, <3>1
    <3>3. ByBegin(l) \in Seq(S) /\ Len(ByBegin(l)) = Len(l)
      BY <3>2, ByBeginFacts
    <3>4. QED
      BY <3>1, <3>2, <3>3
  <2>3. PICK b : b = ByBegin(l)
    OBVIOUS
  <2>4. PICK n \in Nat : n = Len(b) /\ n = 0
    BY <2>2, <2>3
  <2>5. PICK f : IsSearch(f, b, n) /\ Search(b) = f[n]
    BY <2>4, SearchDef DEF SearchIsTheLast
  <2>6. Search(b) = Nobody
    <3>1. IsSearch(f, b, n)
      BY <2>5
    <3>2. f[0] = Nobody
      BY ONLY <3>1, n \in Nat, SearchValues
    <3>3. QED
      BY <2>4, <2>5, <3>2
  <2>7. Search(b).made = <<>>
    BY <2>6 DEF Nobody
  <2>8. QED
    BY <2>1, <2>3, <2>7 DEF CleanMeansNothingToFind
<1>3. QED
  BY <1>1, <1>2, NoMatches DEF SearchInv

\* Nothing changes when nothing is done.
LEMMA SearchStutters == ASSUME SearchInv, UNCHANGED searchVars PROVE SearchInv'
<1> USE DEF searchVars, SearchInv
<1>1. SearchPeople'
  <2>1. Waiting'
    BY WaitingNow DEF SearchPeople, Waiting
  <2>2. QED
    BY <2>1 DEF SearchPeople, Distinct
<1>2. SearchMatches'
  BY DEF SearchMatches, MutuallyAcceptable, LargeEnough, MatchedOnce, Pair
<1>3. ASSUME ~update', ~gone' PROVE CleanMeansNothingToFind'
  <2>1. PICK l : l = individual
    OBVIOUS
  <2>2. Finds(l) = <<>>
    BY <1>3, <2>1, FindsIt DEF FindsThat, CleanMeansNothingToFind
  <2>3. Finds(l)' = Finds(l)
    <3>1. PICK A : A = individualMap
      OBVIOUS
    <3>2. Unmoved(A) /\ l \in Seq(A) /\ \A x \in A : args[x].begin \in Int
      BY <2>1, <3>1 DEF SearchPeople, Waiting, Asks, Unmoved, SameAsk
    <3>3. QED
      BY <3>2, SameFinds
  <2>4. QED
    BY <2>1, <2>2, <2>3, CleanNow
<1>4. CleanMeansNothingToFind'
  BY <1>3 DEF CleanMeansNothingToFind
<1>5. QED
  BY <1>1, <1>2, <1>4

\* Every step keeps the invariant.
LEMMA SearchKeeps == SearchInv /\ [SearchNext]_searchVars => SearchInv'
<1> SUFFICES ASSUME SearchInv, [SearchNext]_searchVars PROVE SearchInv'
  OBVIOUS
<1>1. SearchPeople /\ CleanMeansNothingToFind
  BY DEF SearchInv
<1>2. ASSUME NEW p \in Persons, LeaveIndividualSearchChannel(p) PROVE SearchInv'
  BY <1>1, <1>2, LeaveKeeps
<1>3. ASSUME NEW p \in Persons, NEW val \in Vals, EnterIndividualSearch(p, val) PROVE SearchInv'
  BY <1>1, <1>3, EnterKeeps
<1>4. CASE ValExpand
  BY <1>1, <1>4, ExpandKeeps
<1>5. CASE FlushSearch
  BY <1>1, <1>5, FlushKeeps
<1>6. CASE UNCHANGED searchVars
  BY <1>6, SearchStutters
<1>7. QED
  BY <1>2, <1>3, <1>4, <1>5, <1>6 DEF SearchNext

\* So it always holds.
LEMMA SearchAlways == SearchSpec => []SearchInv
<1>1. SearchInit => SearchInv
  BY SearchStart
<1>2. SearchInv /\ [SearchNext]_searchVars => SearchInv'
  BY SearchKeeps
<1>3. QED
  BY <1>1, <1>2, PTL DEF SearchSpec

\* List and map hold the same people, each once, and nobody's window loses his own value
\* when it is moved to the border.
THEOREM SearchTypes == SearchSpec => []SearchTypeOK
<1>1. SearchInv => SearchTypeOK
  <2> SUFFICES ASSUME SearchPeople PROVE SearchTypeOK
    BY DEF SearchInv
  <2> USE DEF SearchPeople
  <2>1. PICK q \in Seq(individualMap) : q = individual
    OBVIOUS
  <2>2. PICK n \in Nat : n = Len(q) /\ DOMAIN q = 1 .. n
    OBVIOUS
  <2>3. ToSet(q) = {q[j] : j \in 1 .. n}
    BY <2>2 DEF ToSet
  <2>4. Cardinality({q[j] : j \in 1 .. n}) = n
    BY <2>1, <2>2, FirstOnes
  <2>5. Len(individual) = Cardinality(individualMap)
    BY <2>1, <2>2, <2>3, <2>4
  <2>6. individual \in Seq(Persons)
    OBVIOUS
  <2>7. QED
    BY <2>5, <2>6 DEF SearchTypeOK, Waiting, Asks
<1>2. QED
  BY <1>1, SearchAlways, PTL

\* Whom FlushSearch puts in one match accept each other, though each was only compared with
\* the box of those before him.
THEOREM MatchesAreAcceptable == SearchSpec => []MutuallyAcceptable
<1>1. SearchInv => MutuallyAcceptable
  BY DEF SearchInv, SearchMatches
<1>2. QED
  BY <1>1, SearchAlways, PTL

\* FlushSearch hands nobody to the callback in two matches of one search, in any configuration:
\* whoever was matched stays in the list till the search has ended, but has no turn and is not
\* looked at any more.
THEOREM MatchesAreApart == SearchSpec => []MatchedOnce
<1>1. SearchInv => MatchedOnce
  BY DEF SearchInv, SearchMatches
<1>2. QED
  BY <1>1, SearchAlways, PTL

\* Looking for partners, nobody is put in a set of fewer people than he asked for, and no
\* set has more than num or fewer than numMin, as OnMatchSuccess asserts.
THEOREM MatchesAreLargeEnough == SearchSpec => []LargeEnough
<1>1. SearchInv => LargeEnough
  BY DEF SearchInv, SearchMatches
<1>2. QED
  BY <1>1, SearchAlways, PTL

\* As long as nobody has left or was matched since _update was last set, a list that is clean
\* holds nothing to find: what FlushSearch passes over then is nothing.  After a match, and so
\* after a search that ended early, nothing is said.
THEOREM CleanHasNothing == SearchSpec => []CleanMeansNothingToFind
<1>1. SearchInv => CleanMeansNothingToFind
  BY DEF SearchInv
<1>2. QED
  BY <1>1, SearchAlways, PTL
=============================================================================
