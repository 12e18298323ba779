---------------------------- MODULE HarborProofs ----------------------------
(***************************************************************************)
(* Proofs about Harbor, for any number of sessions and connections: no     *)
(* pointer to a session outlives it, the registry agrees with what the     *)
(* sessions know and with what the listeners were told, and a client       *)
(* session that nobody closed goes on trying.                              *)
(*                                                                         *)
(* The handlers call each other, so the invariant is one of the states w   *)
(* that they pass on, and each way of changing such a state is shown to    *)
(* keep it before the actions are put together.                            *)
(***************************************************************************)
EXTENDS Harbor, TLAPS

NodeFields == [sessions : Sess \cup {None}, clientSessions : Clients \cup {None},
               known : BOOLEAN, crashed : BOOLEAN, refused : BOOLEAN]
SessFields == [live : BOOLEAN, conn : Links \cup {None}, identity : BOOLEAN,
               delay : {"garbage", "null", "armed"}, active : BOOLEAN,
               connecting : BOOLEAN, timer : BOOLEAN, denied : BOOLEAN]
EndFields == [tcp : {"none", "pending", "backlog", "open", "closing", "gone"},
              session : Sess \cup {None}, establish : BOOLEAN, out : BOOLEAN,
              in : BOOLEAN, lost : BOOLEAN]
States == [node : [Ends -> NodeFields], sess : [Sess -> SessFields],
           link : [Links -> [Ends -> EndFields]]]

(***************************************************************************)
(* The inductive invariant, for the part of a state that belongs to one    *)
(* end.  It says nothing of a process that has crashed.                    *)
(***************************************************************************)
Mine(e) == IF e = "c" THEN Clients ELSE Links
Held == {"pending", "open"}      \* the states of a connection that has a session

\* A connection has a session exactly while it is being made or is open; no other connection
\* has that session, and an open one and its session refer to each other.
LinkOK(w, e, l) ==
  LET s == w.link[l][e].session
      tcp == w.link[l][e].tcp
  IN  /\ s # None <=> tcp \in Held
      /\ s # None => /\ s \in Mine(e) /\ (e = "s" => s = l)
                     /\ w.sess[s].live /\ ~w.sess[s].timer
                     /\ \A m \in Links : w.link[m][e].session = s => m = l
      /\ tcp = "open" => w.sess[s].conn = l
      /\ tcp = "pending" => w.sess[s].conn = None /\ w.sess[s].connecting

\* A session with a connection is the one that the connection has; only such a session has an
\* identity, and only one with an identity waits to be opened.
SessOK(w, e, s) ==
  LET f == w.sess[s]
  IN  /\ f.conn # None => w.link[f.conn][e].session = s
      /\ f.timer => f.live /\ e = "c"
      /\ f.identity => f.conn # None
      /\ f.delay = "armed" => f.identity
      /\ e = "c" /\ f.live /\ ~f.active =>
           \/ f.conn # None \/ f.timer \/ f.denied
           \/ \E l \in Links : w.link[l][e].tcp = "pending" /\ w.link[l][e].session = s

\* The maps hold sessions of this end that were not deleted; s_sessions the one with an identity.
NodeOK(w, e) ==
  LET n == w.node[e]
  IN  /\ n.sessions # None => /\ n.sessions \in Mine(e) /\ w.sess[n.sessions].identity
                              /\ w.sess[n.sessions].delay # "garbage"
      /\ n.clientSessions # None => e = "c" /\ w.sess[n.clientSessions].live
      /\ ~n.refused => /\ \A s \in Mine(e) : w.sess[s].identity => n.sessions = s
                       /\ n.known <=> (n.sessions # None /\ w.sess[n.sessions].delay = "null")

EndOK(w, e) ==
  ~w.node[e].crashed => /\ \A l \in Links : LinkOK(w, e, l)
                        /\ \A s \in Mine(e) : SessOK(w, e, s)
                        /\ NodeOK(w, e)

\* Nothing is accepted on a connection that is not made.
Backlogs(w) ==
  \A l \in Links : w.link[l]["c"].tcp \in {"none", "pending"} => w.link[l]["s"].tcp = "none"

Good(w) == w \in States /\ Backlogs(w) /\ EndOK(w, "c") /\ EndOK(w, "s")

IInv == Good(Now) /\ broken \subseteq Links

(***************************************************************************)
(* Names, types and changes of records.                                    *)
(***************************************************************************)
\* Every session belongs to one end.
LEMMA Names ==
  /\ Mine("c") = Clients /\ Mine("s") = Links
  /\ \A s \in Clients : s \in Sess /\ s \notin Links /\ EndOf(s) = "c" /\ s # None
  /\ \A l \in Links : l \in Sess /\ l \notin Clients /\ EndOf(l) = "s" /\ l # None
  /\ \A s \in Sess : EndOf(s) \in Ends /\ s \in Mine(EndOf(s)) /\ s # None
  /\ \A e \in Ends, s \in Sess : s \in Mine(e) <=> EndOf(s) = e
  /\ \A e \in Ends : /\ Mine(e) \subseteq Sess /\ Peer(e) \in Ends /\ Peer(e) # e
                     /\ \A d \in Ends : d # e <=> d = Peer(e)
BY SessionsAssumption DEF Mine, Sess, EndOf, Ends, Peer

\* What a state is made of.
LEMMA Typed ==
  ASSUME NEW w \in States
  PROVE  /\ \A e \in Ends : w.node[e] \in NodeFields
         /\ \A s \in Sess : w.sess[s] \in SessFields
         /\ \A l \in Links, e \in Ends : w.link[l][e] \in EndFields
BY DEF States

\* The state of an instant is a state.
LEMMA NowIsState == TypeOK <=> Now \in States /\ broken \subseteq Links
BY DEF TypeOK, Now, States, NodeFields, SessFields, EndFields

\* An action that ends in a good state keeps the invariant.
LEMMA BecomeGood ==
  ASSUME NEW w, Good(w), Become(w), IInv
  PROVE  IInv'
<1>1. w = [node |-> w.node, sess |-> w.sess, link |-> w.link]
  BY DEF Good, States
<1>2. Now' = w
  BY <1>1 DEF Become, Now
<1>3. Good(Now') /\ broken' \subseteq Links
  BY <1>2 DEF Become, IInv
<1> QED
  BY <1>3, Zenon DEF IInv

(***************************************************************************)
(* An end whose part of the state is not changed, or not in what matters.  *)
(***************************************************************************)
\* A connection that is not changed, with a session that is not changed in what matters.
LEMMA LinkStays ==
  ASSUME NEW w, NEW v, NEW e, NEW l \in Links, LinkOK(w, e, l), NEW x,
         x = w.link[l][e].session, x = v.link[l][e].session,
         \/ v.link[l][e].tcp = w.link[l][e].tcp
         \/ v.link[l][e].tcp \notin Held /\ w.link[l][e].tcp \notin Held,
         x # None /\ x \in Mine(e) =>
           /\ v.sess[x].live = w.sess[x].live /\ v.sess[x].conn = w.sess[x].conn
           /\ v.sess[x].timer = w.sess[x].timer
           /\ w.sess[x].connecting => v.sess[x].connecting \/ w.sess[x].conn # None
           /\ \A m \in Links : v.link[m][e].session = x => w.link[m][e].session = x
  PROVE  LinkOK(v, e, l)
<1>1. CASE x = None
  <2>1. w.link[l][e].tcp \notin Held
    BY <1>1 DEF LinkOK
  <2>2. v.link[l][e].tcp \notin Held
    BY <2>1
  <2> QED
    BY <1>1, <2>2 DEF LinkOK, Held
<1>2. CASE x # None
  <2>1. /\ w.link[l][e].tcp \in Held /\ x \in Mine(e) /\ (e = "s" => x = l)
        /\ w.sess[x].live /\ ~w.sess[x].timer
        /\ \A m \in Links : w.link[m][e].session = x => m = l
        /\ w.link[l][e].tcp = "open" => w.sess[x].conn = l
        /\ w.link[l][e].tcp = "pending" => w.sess[x].conn = None /\ w.sess[x].connecting
    BY <1>2 DEF LinkOK
  <2>2. /\ v.link[l][e].tcp = w.link[l][e].tcp
        /\ v.sess[x].live /\ ~v.sess[x].timer
        /\ \A m \in Links : v.link[m][e].session = x => m = l
        /\ w.link[l][e].tcp = "open" => v.sess[x].conn = l
        /\ w.link[l][e].tcp = "pending" => v.sess[x].conn = None /\ v.sess[x].connecting
    BY <1>2, <2>1
  <2> QED
    BY <1>2, <2>1, <2>2 DEF LinkOK
<1> QED
  BY <1>1, <1>2

\* Flags that the invariant does not use, and connections that have no session, may change.
LEMMA Mild ==
  ASSUME NEW w \in States, NEW v \in States, NEW e \in Ends, EndOK(w, e),
         v.node[e] = w.node[e],
         \A s \in Mine(e) :
           /\ v.sess[s].live = w.sess[s].live /\ v.sess[s].conn = w.sess[s].conn
           /\ v.sess[s].identity = w.sess[s].identity /\ v.sess[s].delay = w.sess[s].delay
           /\ v.sess[s].timer = w.sess[s].timer /\ v.sess[s].denied = w.sess[s].denied
           /\ w.sess[s].active => v.sess[s].active
           /\ w.sess[s].connecting => v.sess[s].connecting \/ w.sess[s].conn # None,
         \A l \in Links :
           /\ v.link[l][e].session = w.link[l][e].session
           /\ \/ v.link[l][e].tcp = w.link[l][e].tcp
              \/ v.link[l][e].tcp \notin Held /\ w.link[l][e].tcp \notin Held
  PROVE  EndOK(v, e)
<1> SUFFICES ASSUME ~v.node[e].crashed
             PROVE  /\ \A l \in Links : LinkOK(v, e, l)
                    /\ \A s \in Mine(e) : SessOK(v, e, s)
                    /\ NodeOK(v, e)
  BY DEF EndOK
<1>1. /\ \A l \in Links : LinkOK(w, e, l)
      /\ \A s \in Mine(e) : SessOK(w, e, s)
      /\ NodeOK(w, e)
  BY DEF EndOK
<1>2. \A l \in Links : /\ v.link[l][e].tcp \in Held <=> w.link[l][e].tcp \in Held
                       /\ v.link[l][e].tcp = "open" <=> w.link[l][e].tcp = "open"
                       /\ v.link[l][e].tcp = "pending" <=> w.link[l][e].tcp = "pending"
  BY DEF Held
<1>3. ASSUME NEW l \in Links PROVE LinkOK(v, e, l)
  <2>1. PICK s : s = w.link[l][e].session /\ s = v.link[l][e].session
    OBVIOUS
  <2>2. LinkOK(w, e, l)
    BY <1>1
  <2> QED
    BY <2>1, <2>2, LinkStays
<1>4. ASSUME NEW s \in Mine(e) PROVE SessOK(v, e, s)
  <2>1. w.sess[s].conn \in Links \cup {None}
    BY Typed, Names DEF SessFields
  <2>2. SessOK(w, e, s)
    BY <1>1
  <2>3. v.sess[s].conn # None => v.link[v.sess[s].conn][e].session = s
    BY <2>1, <2>2 DEF SessOK
  <2>4. \A l \in Links : w.link[l][e].tcp = "pending" /\ w.link[l][e].session = s =>
          v.link[l][e].tcp = "pending" /\ v.link[l][e].session = s
    BY <1>2
  <2> QED
    BY <2>2, <2>3, <2>4 DEF SessOK
<1>5. NodeOK(v, e)
  BY <1>1, Typed, Names DEF NodeOK, NodeFields
<1> QED
  BY <1>3, <1>4, <1>5

(***************************************************************************)
(* The ways in which an end changes.                                       *)
(***************************************************************************)
\* Session s leaves its connection, if it has one, and is released: OnTerminate and OnRelease.
LEMMA Released ==
  ASSUME NEW w \in States, NEW v \in States, NEW e \in Ends, NEW s \in Mine(e), EndOK(w, e),
         \A x \in Mine(e) : x # s => v.sess[x] = w.sess[x],
         \A l \in Links :
           IF w.link[l][e].session = s
           THEN v.link[l][e].session = None /\ v.link[l][e].tcp \notin Held
           ELSE v.link[l][e].session = w.link[l][e].session /\ v.link[l][e].tcp = w.link[l][e].tcp,
         v.sess[s].conn = None, ~v.sess[s].identity,
         v.sess[s].delay = IF w.sess[s].identity THEN "null" ELSE w.sess[s].delay,
         v.node[e].crashed = w.node[e].crashed, v.node[e].refused = w.node[e].refused,
         v.node[e].sessions = IF w.sess[s].identity THEN None ELSE w.node[e].sessions,
         v.node[e].known = IF w.sess[s].identity THEN FALSE ELSE w.node[e].known,
         \/ /\ v.node[e].clientSessions = None
            /\ ~v.sess[s].timer
            /\ ~v.sess[s].live \/ v.sess[s].active
         \/ /\ v.node[e].clientSessions = w.node[e].clientSessions
            /\ IF e = "c" THEN v.sess[s].live /\ v.sess[s].timer ELSE ~v.sess[s].timer
  PROVE  EndOK(v, e)
<1> SUFFICES ASSUME ~v.node[e].crashed
             PROVE  /\ \A l \in Links : LinkOK(v, e, l)
                    /\ \A x \in Mine(e) : SessOK(v, e, x)
                    /\ NodeOK(v, e)
  BY DEF EndOK
<1>1. /\ \A l \in Links : LinkOK(w, e, l)
      /\ \A x \in Mine(e) : SessOK(w, e, x)
      /\ NodeOK(w, e)
  BY DEF EndOK
<1>2. s # None /\ s \in Sess
  BY Names
<1>3. ASSUME NEW l \in Links PROVE LinkOK(v, e, l)
  <2>1. CASE w.link[l][e].session = s
    <3>1. v.link[l][e].session = None /\ v.link[l][e].tcp \notin Held
      BY <2>1
    <3> QED
      BY <3>1 DEF LinkOK, Held
  <2>2. CASE w.link[l][e].session # s
    <3>1. PICK x : x = w.link[l][e].session /\ x = v.link[l][e].session /\ x # s
      BY <2>2
    <3>2. LinkOK(w, e, l) /\ v.link[l][e].tcp = w.link[l][e].tcp
      BY <1>1, <2>2
    <3>3. x # None /\ x \in Mine(e) =>
            /\ v.sess[x] = w.sess[x]
            /\ \A p \in Links : v.link[p][e].session = x => w.link[p][e].session = x
      BY <3>1, <1>2
    <3> QED
      BY <3>1, <3>2, <3>3, LinkStays
  <2> QED
    BY <2>1, <2>2
<1>4. ASSUME NEW x \in Mine(e) PROVE SessOK(v, e, x)
  <2>1. CASE x = s
    <3>1. v.sess[s].delay # "armed"
      BY <1>1 DEF SessOK
    <3>2. v.sess[s].timer => v.sess[s].live /\ e = "c"
      OBVIOUS
    <3>3. e = "c" /\ v.sess[s].live /\ ~v.sess[s].active => v.sess[s].timer
      OBVIOUS
    <3> QED
      BY <2>1, <3>1, <3>2, <3>3 DEF SessOK
  <2>2. CASE x # s
    <3>1. SessOK(w, e, x) /\ v.sess[x] = w.sess[x]
      BY <1>1, <2>2
    <3>2. \A l \in Links : w.link[l][e].session = x =>
            v.link[l][e].session = x /\ v.link[l][e].tcp = w.link[l][e].tcp
      BY <2>2
    <3>3. w.sess[x].conn \in Links \cup {None}
      BY Typed, Names DEF SessFields
    <3> QED
      BY <3>1, <3>2, <3>3 DEF SessOK
  <2> QED
    BY <2>1, <2>2
<1>5. NodeOK(v, e)
  <2>0. NodeOK(w, e)
    BY <1>1
  <2>1. v.node[e].sessions # None =>
          /\ v.node[e].sessions = w.node[e].sessions /\ v.node[e].sessions # s
          /\ v.node[e].sessions \in Mine(e)
    BY <2>0 DEF NodeOK
  <2>2. v.node[e].sessions # None =>
          /\ v.node[e].sessions \in Mine(e) /\ v.sess[v.node[e].sessions].identity
          /\ v.sess[v.node[e].sessions].delay # "garbage"
          /\ v.sess[v.node[e].sessions] = w.sess[v.node[e].sessions]
    BY <2>0, <2>1 DEF NodeOK
  <2>3. v.node[e].clientSessions # None => e = "c" /\ v.sess[v.node[e].clientSessions].live
    <3>1. w.node[e].clientSessions \in Clients \cup {None}
      BY Typed DEF NodeFields
    <3>2. w.node[e].clientSessions # None => e = "c" /\ w.sess[w.node[e].clientSessions].live
                                             /\ w.node[e].clientSessions \in Mine(e)
      BY <2>0, <3>1, Names DEF NodeOK
    <3> QED
      BY <3>2
  <2>4. ~v.node[e].refused =>
          \A x \in Mine(e) : v.sess[x].identity => v.node[e].sessions = x
    <3>1. ~w.node[e].refused =>
            \A x \in Mine(e) : w.sess[x].identity => w.node[e].sessions = x
      BY <2>0 DEF NodeOK
    <3> QED
      BY <3>1
  <2>5. ~v.node[e].refused =>
          (v.node[e].known <=> (v.node[e].sessions # None /\ v.sess[v.node[e].sessions].delay = "null"))
    <3>1. ~w.node[e].refused =>
            (w.node[e].known <=> (w.node[e].sessions # None /\ w.sess[w.node[e].sessions].delay = "null"))
      BY <2>0 DEF NodeOK
    <3> QED
      BY <2>2, <3>1
  <2> QED
    BY <2>2, <2>3, <2>4, <2>5 DEF NodeOK
<1> QED
  BY <1>3, <1>4, <1>5

\* Session s gets connection l: TcpConnection::Init.
LEMMA Opened ==
  ASSUME NEW w \in States, NEW v \in States, NEW e \in Ends, NEW s \in Mine(e), NEW l \in Links,
         EndOK(w, e), e = "s" => s = l,
         \A x \in Mine(e) : x # s => v.sess[x] = w.sess[x],
         \A m \in Links : m # l => /\ v.link[m][e] = w.link[m][e]
                                   /\ w.link[m][e].session # s,
         w.link[l][e].session \in {None, s}, w.sess[s].conn = None,
         v.link[l][e].session = s, v.link[l][e].tcp = "open",
         v.sess[s].conn = l, v.sess[s].live, ~v.sess[s].timer,
         v.sess[s].identity = w.sess[s].identity, v.sess[s].delay = w.sess[s].delay,
         v.node[e].crashed = w.node[e].crashed, v.node[e].refused = w.node[e].refused,
         v.node[e].sessions = w.node[e].sessions, v.node[e].known = w.node[e].known,
         \/ v.node[e].clientSessions = w.node[e].clientSessions
         \/ e = "c" /\ v.node[e].clientSessions = s
  PROVE  EndOK(v, e)
<1> SUFFICES ASSUME ~v.node[e].crashed
             PROVE  /\ \A m \in Links : LinkOK(v, e, m)
                    /\ \A x \in Mine(e) : SessOK(v, e, x)
                    /\ NodeOK(v, e)
  BY DEF EndOK
<1>1. /\ \A m \in Links : LinkOK(w, e, m)
      /\ \A x \in Mine(e) : SessOK(w, e, x)
      /\ NodeOK(w, e)
  BY DEF EndOK
<1>2. s # None /\ s \in Sess /\ l # None
  BY Names
<1>3. ASSUME NEW m \in Links PROVE LinkOK(v, e, m)
  <2>1. CASE m = l
    <3>1. \A p \in Links : v.link[p][e].session = s => p = l
      OBVIOUS
    <3> QED
      BY <2>1, <3>1, <1>2 DEF LinkOK, Held
  <2>2. CASE m # l
    <3>1. PICK x : x = w.link[m][e].session /\ x = v.link[m][e].session /\ x # s
      BY <2>2
    <3>2. LinkOK(w, e, m) /\ v.link[m][e].tcp = w.link[m][e].tcp
      BY <1>1, <2>2
    <3>3. x # None /\ x \in Mine(e) =>
            /\ v.sess[x] = w.sess[x]
            /\ \A p \in Links : v.link[p][e].session = x => w.link[p][e].session = x
      BY <3>1, <1>2
    <3> QED
      BY <3>1, <3>2, <3>3, LinkStays
  <2> QED
    BY <2>1, <2>2
<1>4. ASSUME NEW x \in Mine(e) PROVE SessOK(v, e, x)
  <2>1. CASE x = s
    <3>1. SessOK(w, e, s)
      BY <1>1
    <3> QED
      BY <2>1, <3>1, <1>2 DEF SessOK
  <2>2. CASE x # s
    <3>1. SessOK(w, e, x) /\ v.sess[x] = w.sess[x]
      BY <1>1, <2>2
    <3>2. x # None
      BY Names
    <3>3. \A m \in Links : w.link[m][e].session = x =>
            v.link[m][e].session = x /\ v.link[m][e].tcp = w.link[m][e].tcp
      BY <2>2, <3>2
    <3>4. w.sess[x].conn \in Links \cup {None}
      BY Typed, Names DEF SessFields
    <3> QED
      BY <3>1, <3>3, <3>4 DEF SessOK
  <2> QED
    BY <2>1, <2>2
<1>5. NodeOK(v, e)
  <2>0. NodeOK(w, e)
    BY <1>1
  <2>1. \A x \in Mine(e) : v.sess[x].identity = w.sess[x].identity /\ v.sess[x].delay = w.sess[x].delay
                           /\ (w.sess[x].live => v.sess[x].live)
    OBVIOUS
  <2>2. w.node[e].clientSessions # None => w.node[e].clientSessions \in Mine(e)
    <3>1. w.node[e].clientSessions \in Clients \cup {None}
      BY Typed DEF NodeFields
    <3> QED
      BY <2>0, <3>1, Names DEF NodeOK
  <2>3. v.node[e].clientSessions # None => e = "c" /\ v.sess[v.node[e].clientSessions].live
    BY <2>0, <2>1, <2>2 DEF NodeOK
  <2>4. v.node[e].sessions # None =>
          /\ v.node[e].sessions \in Mine(e) /\ v.sess[v.node[e].sessions].identity
          /\ v.sess[v.node[e].sessions].delay # "garbage"
          /\ v.sess[v.node[e].sessions].delay = w.sess[v.node[e].sessions].delay
    BY <2>0, <2>1 DEF NodeOK
  <2> QED
    BY <2>0, <2>1, <2>3, <2>4 DEF NodeOK
<1> QED
  BY <1>3, <1>4, <1>5

\* Client session s begins a connect over l, or is denied one: CreateNetConnecter.
LEMMA Tried ==
  ASSUME NEW w \in States, NEW v \in States, NEW s \in Clients, NEW l \in Links, EndOK(w, "c"),
         \A x \in Clients : x # s => v.sess[x] = w.sess[x],
         \A m \in Links : /\ w.link[m]["c"].session # s
                          /\ m # l => v.link[m]["c"] = w.link[m]["c"],
         w.link[l]["c"].session = None, w.sess[s].conn = None,
         v.sess[s].conn = None, v.sess[s].live, ~v.sess[s].timer,
         v.sess[s].identity = w.sess[s].identity, v.sess[s].delay = w.sess[s].delay,
         \/ /\ v.link[l]["c"].tcp = "pending" /\ v.link[l]["c"].session = s
            /\ v.sess[s].connecting
         \/ /\ v.link[l]["c"].tcp = "gone" /\ v.link[l]["c"].session = None
            /\ v.sess[s].denied,
         v.node["c"].crashed = w.node["c"].crashed, v.node["c"].refused = w.node["c"].refused,
         v.node["c"].sessions = w.node["c"].sessions, v.node["c"].known = w.node["c"].known,
         \/ v.node["c"].clientSessions = w.node["c"].clientSessions
         \/ v.node["c"].clientSessions = s
  PROVE  EndOK(v, "c")
<1> SUFFICES ASSUME ~v.node["c"].crashed
             PROVE  /\ \A m \in Links : LinkOK(v, "c", m)
                    /\ \A x \in Clients : SessOK(v, "c", x)
                    /\ NodeOK(v, "c")
  BY Names DEF EndOK
<1>1. /\ \A m \in Links : LinkOK(w, "c", m)
      /\ \A x \in Clients : SessOK(w, "c", x)
      /\ NodeOK(w, "c")
  BY Names DEF EndOK
<1>2. s # None /\ s \in Sess /\ l # None /\ Mine("c") = Clients
  BY Names
<1>3. ASSUME NEW m \in Links PROVE LinkOK(v, "c", m)
  <2>1. CASE m = l /\ v.link[l]["c"].tcp = "pending"
    <3>1. v.link[l]["c"].session = s /\ v.sess[s].connecting
      BY <2>1
    <3>2. \A p \in Links : v.link[p]["c"].session = s => p = l
      OBVIOUS
    <3> QED
      BY <2>1, <3>1, <3>2, <1>2 DEF LinkOK, Held
  <2>2. CASE m = l /\ v.link[l]["c"].tcp # "pending"
    BY <2>2 DEF LinkOK, Held
  <2>3. CASE m # l
    <3>1. PICK x : x = w.link[m]["c"].session /\ x = v.link[m]["c"].session /\ x # s
      BY <2>3
    <3>2. LinkOK(w, "c", m) /\ v.link[m]["c"].tcp = w.link[m]["c"].tcp
      BY <1>1, <2>3
    <3>3. x # None /\ x \in Mine("c") =>
            /\ v.sess[x] = w.sess[x]
            /\ \A p \in Links : v.link[p]["c"].session = x => w.link[p]["c"].session = x
      BY <3>1, <1>2
    <3> QED
      BY <3>1, <3>2, <3>3, LinkStays
  <2> QED
    BY <2>1, <2>2, <2>3
<1>4. ASSUME NEW x \in Clients PROVE SessOK(v, "c", x)
  <2>1. CASE x = s
    <3>1. SessOK(w, "c", s)
      BY <1>1
    <3> QED
      BY <2>1, <3>1, <1>2 DEF SessOK
  <2>2. CASE x # s
    <3>1. SessOK(w, "c", x) /\ v.sess[x] = w.sess[x]
      BY <1>1, <2>2
    <3>2. x # None
      BY Names
    <3>3. \A m \in Links : w.link[m]["c"].session = x =>
            v.link[m]["c"].session = x /\ v.link[m]["c"].tcp = w.link[m]["c"].tcp
      BY <2>2, <3>2
    <3>4. w.sess[x].conn \in Links \cup {None}
      BY Typed, Names DEF SessFields
    <3> QED
      BY <3>1, <3>3, <3>4 DEF SessOK
  <2> QED
    BY <2>1, <2>2
<1>5. NodeOK(v, "c")
  <2>0. NodeOK(w, "c")
    BY <1>1
  <2>1. \A x \in Clients : v.sess[x].identity = w.sess[x].identity /\ v.sess[x].delay = w.sess[x].delay
                           /\ (w.sess[x].live => v.sess[x].live)
    OBVIOUS
  <2>2. w.node["c"].clientSessions \in Clients \cup {None}
    BY Typed DEF NodeFields, Ends
  <2>3. v.node["c"].clientSessions # None => v.sess[v.node["c"].clientSessions].live
    BY <2>0, <2>1, <2>2 DEF NodeOK
  <2>4. v.node["c"].sessions # None =>
          /\ v.node["c"].sessions \in Clients /\ v.sess[v.node["c"].sessions].identity
          /\ v.sess[v.node["c"].sessions].delay # "garbage"
          /\ v.sess[v.node["c"].sessions].delay = w.sess[v.node["c"].sessions].delay
    BY <2>0, <2>1, <1>2 DEF NodeOK
  <2> QED
    BY <2>0, <2>1, <2>3, <2>4, <1>2 DEF NodeOK
<1> QED
  BY <1>3, <1>4, <1>5

\* Session s, which has a connection, gets an identity, a place in s_sessions or a refusal, or
\* is past its delay: OnRecvHarborHandshakeMsg and OnTimerSessionDelayOpen.
LEMMA Identified ==
  ASSUME NEW w \in States, NEW v \in States, NEW e \in Ends, NEW s \in Mine(e), EndOK(w, e),
         \A x \in Mine(e) : x # s => v.sess[x] = w.sess[x],
         \A l \in Links : /\ v.link[l][e].session = w.link[l][e].session
                          /\ v.link[l][e].tcp = w.link[l][e].tcp,
         v.sess[s].live = w.sess[s].live, v.sess[s].conn = w.sess[s].conn, w.sess[s].conn # None,
         v.sess[s].timer = w.sess[s].timer,
         v.sess[s].connecting = w.sess[s].connecting, v.sess[s].identity,
         v.node[e].crashed = w.node[e].crashed,
         v.node[e].clientSessions = w.node[e].clientSessions,
         \/ /\ w.node[e].sessions = None /\ v.node[e].sessions = s /\ v.sess[s].delay = "armed"
            /\ v.node[e].known = w.node[e].known /\ v.node[e].refused = w.node[e].refused
         \/ /\ v.node[e].sessions = w.node[e].sessions /\ v.sess[s].delay = w.sess[s].delay
            /\ v.node[e].refused
         \/ /\ v.node[e].sessions = w.node[e].sessions /\ w.sess[s].delay = "armed"
            /\ v.sess[s].delay = "null" /\ v.node[e].known /\ v.node[e].refused = w.node[e].refused
  PROVE  EndOK(v, e)
<1> SUFFICES ASSUME ~v.node[e].crashed
             PROVE  /\ \A l \in Links : LinkOK(v, e, l)
                    /\ \A x \in Mine(e) : SessOK(v, e, x)
                    /\ NodeOK(v, e)
  BY DEF EndOK
<1>1. /\ \A l \in Links : LinkOK(w, e, l)
      /\ \A x \in Mine(e) : SessOK(w, e, x)
      /\ NodeOK(w, e)
  BY DEF EndOK
<1>2. s # None /\ s \in Sess
  BY Names
<1>3. ASSUME NEW l \in Links PROVE LinkOK(v, e, l)
  <2>1. PICK x : x = w.link[l][e].session /\ x = v.link[l][e].session
    OBVIOUS
  <2>2. LinkOK(w, e, l) /\ v.link[l][e].tcp = w.link[l][e].tcp
    BY <1>1
  <2>3. x \in Mine(e) =>
          /\ v.sess[x].live = w.sess[x].live /\ v.sess[x].conn = w.sess[x].conn
          /\ v.sess[x].timer = w.sess[x].timer /\ v.sess[x].connecting = w.sess[x].connecting
    OBVIOUS
  <2>4. \A m \in Links : v.link[m][e].session = x => w.link[m][e].session = x
    OBVIOUS
  <2> QED
    BY <2>1, <2>2, <2>3, <2>4, LinkStays, ZenonT(40)
<1>4. ASSUME NEW x \in Mine(e) PROVE SessOK(v, e, x)
  <2>0. SessOK(w, e, x) /\ w.sess[x].conn \in Links \cup {None}
    BY <1>1, Typed, Names DEF SessFields
  <2>1. CASE x = s
    BY <2>0, <2>1 DEF SessOK
  <2>2. CASE x # s
    <3>1. v.sess[x] = w.sess[x]
      BY <2>2
    <3> QED
      BY <2>0, <3>1 DEF SessOK
  <2> QED
    BY <2>1, <2>2
<1>5. NodeOK(v, e)
  <2>0. NodeOK(w, e) /\ SessOK(w, e, s)
    BY <1>1
  <2>1. v.node[e].clientSessions # None => e = "c" /\ v.sess[v.node[e].clientSessions].live
    <3>1. w.node[e].clientSessions \in Clients \cup {None}
      BY Typed DEF NodeFields
    <3>2. w.node[e].clientSessions # None => e = "c" /\ w.sess[w.node[e].clientSessions].live
                                             /\ w.node[e].clientSessions \in Mine(e)
      BY <2>0, <3>1, Names DEF NodeOK
    <3> QED
      BY <3>2
  <2>2. CASE /\ w.node[e].sessions = None /\ v.node[e].sessions = s /\ v.sess[s].delay = "armed"
             /\ v.node[e].known = w.node[e].known /\ v.node[e].refused = w.node[e].refused
    <3>1. ~v.node[e].refused => ~v.node[e].known /\ \A x \in Mine(e) : x # s => ~v.sess[x].identity
      <4>1. ~w.node[e].refused => ~w.node[e].known
        BY <2>0, <2>2 DEF NodeOK
      <4>2. ~w.node[e].refused => \A x \in Mine(e) : ~w.sess[x].identity
        BY <2>0, <2>2, Names DEF NodeOK
      <4> QED
        BY <4>1, <4>2, <2>2
    <3> QED
      BY <2>1, <2>2, <3>1, <1>2 DEF NodeOK
  <2>3. CASE /\ v.node[e].sessions = w.node[e].sessions /\ v.sess[s].delay = w.sess[s].delay
             /\ v.node[e].refused
    <3>1. \A x \in Mine(e) : (w.sess[x].identity => v.sess[x].identity) /\ v.sess[x].delay = w.sess[x].delay
      BY <2>3
    <3> QED
      BY <2>0, <2>1, <2>3, <3>1 DEF NodeOK
  <2>4. CASE /\ v.node[e].sessions = w.node[e].sessions /\ w.sess[s].delay = "armed"
             /\ v.sess[s].delay = "null" /\ v.node[e].known /\ v.node[e].refused = w.node[e].refused
    <3>1. w.sess[s].identity
      BY <2>0, <2>4 DEF SessOK
    <3>2. \A x \in Mine(e) : /\ w.sess[x].identity <=> v.sess[x].identity
                             /\ w.sess[x].delay # "garbage" => v.sess[x].delay # "garbage"
      BY <2>4, <3>1
    <3>3. ~v.node[e].refused => v.node[e].sessions = s
      BY <2>0, <2>4, <3>1 DEF NodeOK
    <3> QED
      BY <2>0, <2>1, <2>4, <3>2, <3>3, <1>2 DEF NodeOK
  <2> QED
    BY <2>2, <2>3, <2>4
<1> QED
  BY <1>3, <1>4, <1>5

(***************************************************************************)
(* What the handlers return.                                               *)
(***************************************************************************)
\* A release touches its session and, for a client session, the map of clients.
LEMMA ReleaseReturns ==
  ASSUME NEW w \in States, NEW s \in Sess, NEW v, v = OnRelease(w, s)
  PROVE  /\ v \in States /\ v.link = w.link
         /\ \A x \in Sess : x # s => v.sess[x] = w.sess[x]
         /\ v.sess[s].conn = w.sess[s].conn /\ v.sess[s].identity = w.sess[s].identity
         /\ v.sess[s].delay = w.sess[s].delay /\ v.sess[s].active = w.sess[s].active
         /\ v.node["s"] = w.node["s"]
         /\ v.node["c"].crashed = w.node["c"].crashed /\ v.node["c"].refused = w.node["c"].refused
         /\ v.node["c"].sessions = w.node["c"].sessions /\ v.node["c"].known = w.node["c"].known
         /\ s \in Links => v.node = w.node /\ v.sess[s].timer = w.sess[s].timer
         /\ s \in Clients =>
              \/ /\ v.node["c"].clientSessions = None /\ ~v.sess[s].timer
                 /\ ~v.sess[s].live \/ v.sess[s].active
              \/ /\ v.node = w.node /\ ~w.sess[s].active
                 /\ v.sess[s].live = w.sess[s].live /\ v.sess[s].timer
<1> DEFINE f == w.sess[s]
           n == w.node["c"]
<1>1. f \in SessFields /\ n \in NodeFields /\ "c" \in Ends /\ "s" \in Ends
  BY Typed DEF Ends
<1>2. CASE s \in Links
  <2>1. PICK g : g = [f EXCEPT !.live = FALSE]
    OBVIOUS
  <2>1a. /\ g \in SessFields
         /\ g.live = FALSE /\ g.conn = f.conn /\ g.identity = f.identity
         /\ g.delay = f.delay /\ g.active = f.active
         /\ g.connecting = f.connecting /\ g.timer = f.timer
         /\ g.denied = f.denied
    BY <1>1, <2>1 DEF SessFields
  <2>2. v = [w EXCEPT !.sess[s] = g]
    BY <2>1, <1>2 DEF OnRelease, States
  <2>3. /\ v \in States /\ v.node = w.node /\ v.link = w.link /\ v.sess[s] = g
        /\ \A x \in Sess : x # s => v.sess[x] = w.sess[x]
    BY <2>1a, <2>2 DEF States
  <2> QED
    BY <2>1a, <2>3, <1>1, <1>2, Names
<1>3. CASE s \in Clients /\ ~f.active
  <2>1. PICK g : g = [f EXCEPT !.timer = TRUE]
    OBVIOUS
  <2>1a. /\ g \in SessFields
         /\ g.live = f.live /\ g.conn = f.conn /\ g.identity = f.identity
         /\ g.delay = f.delay /\ g.active = f.active
         /\ g.connecting = f.connecting /\ g.timer = TRUE
         /\ g.denied = f.denied
    BY <1>1, <2>1 DEF SessFields
  <2>2. v = [w EXCEPT !.sess[s] = g]
    BY <2>1, <1>3, Names DEF OnRelease, States
  <2>3. /\ v \in States /\ v.node = w.node /\ v.link = w.link /\ v.sess[s] = g
        /\ \A x \in Sess : x # s => v.sess[x] = w.sess[x]
    BY <2>1a, <2>2 DEF States
  <2> QED
    BY <2>1a, <2>3, <1>1, <1>3, Names
<1>4. CASE s \in Clients /\ f.active /\ n.clientSessions = None
  <2>1. PICK g : g = [f EXCEPT !.timer = FALSE]
    OBVIOUS
  <2>1a. /\ g \in SessFields
         /\ g.live = f.live /\ g.conn = f.conn /\ g.identity = f.identity
         /\ g.delay = f.delay /\ g.active = f.active
         /\ g.connecting = f.connecting /\ g.timer = FALSE
         /\ g.denied = f.denied
    BY <1>1, <2>1 DEF SessFields
  <2>2. v = [w EXCEPT !.sess[s] = g]
    BY <2>1, <1>4, Names DEF OnRelease, OnHarborClientSessionRelease, States
  <2>3. /\ v \in States /\ v.node = w.node /\ v.link = w.link /\ v.sess[s] = g
        /\ \A x \in Sess : x # s => v.sess[x] = w.sess[x]
    BY <2>1a, <2>2 DEF States
  <2> QED
    BY <2>1a, <2>3, <1>1, <1>4, Names
<1>5. CASE s \in Clients /\ f.active /\ n.clientSessions # None
  <2>1. PICK g : g = [f EXCEPT !.timer = FALSE, !.live = FALSE]
    OBVIOUS
  <2>1a. /\ g \in SessFields
         /\ g.live = FALSE /\ g.conn = f.conn /\ g.identity = f.identity
         /\ g.delay = f.delay /\ g.active = f.active
         /\ g.connecting = f.connecting /\ g.timer = FALSE
         /\ g.denied = f.denied
    BY <1>1, <2>1 DEF SessFields
  <2>2. PICK k : k = [n EXCEPT !.clientSessions = None]
    OBVIOUS
  <2>2a. /\ k \in NodeFields
         /\ k.sessions = n.sessions /\ k.clientSessions = None
         /\ k.known = n.known /\ k.crashed = n.crashed
         /\ k.refused = n.refused
    BY <1>1, <2>2 DEF NodeFields
  <2>3. PICK u : u = [w EXCEPT !.sess[s].timer = FALSE]
    OBVIOUS
  <2>4. v = [u EXCEPT !.node["c"].clientSessions = None, !.sess[s].live = FALSE]
    BY <1>5, <2>3, Names DEF OnRelease, OnHarborClientSessionRelease, States
  <2>5. /\ u.node = w.node /\ u.link = w.link /\ u.sess = [w.sess EXCEPT ![s].timer = FALSE]
        /\ u = [node |-> u.node, sess |-> u.sess, link |-> u.link]
    BY <2>3 DEF States
  <2>6. /\ v.node = [w.node EXCEPT !["c"] = k] /\ v.link = w.link
        /\ v.sess = [u.sess EXCEPT ![s].live = FALSE]
        /\ v = [node |-> v.node, sess |-> v.sess, link |-> v.link]
    BY <2>2, <2>4, <2>5
  <2>7. v.sess = [w.sess EXCEPT ![s] = g]
    BY <2>1, <2>5, <2>6 DEF States
  <2>8. /\ v \in States /\ v.sess[s] = g /\ v.node["c"] = k /\ v.node["s"] = w.node["s"]
        /\ \A x \in Sess : x # s => v.sess[x] = w.sess[x]
    BY <2>1a, <2>2a, <2>6, <2>7, <1>1 DEF States
  <2> QED
    BY <2>1a, <2>2a, <2>6, <2>8, <1>1, <1>5, Names
<1> QED
  BY <1>1, <1>2, <1>3, <1>4, <1>5 DEF Sess, SessFields

\* OnClose gives up the identity, or the process follows a wild pointer.
LEMMA CloseReturns ==
  ASSUME NEW w \in States, NEW e \in Ends, NEW s \in Sess, NEW v \in OnClose(w, e, s)
  PROVE  /\ v \in States /\ v.link = w.link
         /\ \A x \in Sess : x # s => v.sess[x] = w.sess[x]
         /\ v.sess[s].conn = w.sess[s].conn /\ v.sess[s].live = w.sess[s].live
         /\ v.sess[s].active = w.sess[s].active /\ v.sess[s].timer = w.sess[s].timer
         /\ \A d \in Ends : d # e => v.node[d] = w.node[d]
         /\ \/ v.node[e].crashed
            \/ /\ ~v.sess[s].identity
               /\ v.sess[s].delay = IF w.sess[s].identity THEN "null" ELSE w.sess[s].delay
               /\ v.node[e].crashed = w.node[e].crashed /\ v.node[e].refused = w.node[e].refused
               /\ v.node[e].sessions = IF w.sess[s].identity THEN None ELSE w.node[e].sessions
               /\ v.node[e].known = IF w.sess[s].identity THEN FALSE ELSE w.node[e].known
               /\ v.node[e].clientSessions = w.node[e].clientSessions
<1> DEFINE f == w.sess[s]
           n == w.node[e]
<1>1. f \in SessFields /\ n \in NodeFields
  BY Typed
<1>2. CASE ~f.identity
  BY <1>1, <1>2 DEF OnClose
<1>3. CASE f.identity /\ v = Crash(w, e)
  <2>1. PICK k : k = [n EXCEPT !.crashed = TRUE]
    OBVIOUS
  <2>1a. /\ k \in NodeFields
         /\ k.sessions = n.sessions
         /\ k.clientSessions = n.clientSessions /\ k.known = n.known
         /\ k.crashed = TRUE /\ k.refused = n.refused
    BY <1>1, <2>1 DEF NodeFields
  <2>2. v = [w EXCEPT !.node[e] = k]
    BY <2>1, <1>3 DEF Crash, States
  <2> QED
    BY <2>1a, <2>2, <1>1 DEF States
<1>4. CASE f.identity /\ v # Crash(w, e)
  <2>0. v = [w EXCEPT !.sess[s].identity = FALSE, !.sess[s].delay = "null",
                        !.node[e].known = FALSE, !.node[e].sessions = None]
    BY <1>4 DEF OnClose
  <2>1. PICK g : g = [f EXCEPT !.identity = FALSE, !.delay = "null"]
    OBVIOUS
  <2>1a. /\ g \in SessFields
         /\ g.live = f.live /\ g.conn = f.conn /\ g.identity = FALSE
         /\ g.delay = "null" /\ g.active = f.active
         /\ g.connecting = f.connecting /\ g.timer = f.timer
         /\ g.denied = f.denied
    BY <1>1, <2>1 DEF SessFields
  <2>2. PICK k : k = [n EXCEPT !.known = FALSE, !.sessions = None]
    OBVIOUS
  <2>2a. /\ k \in NodeFields
         /\ k.sessions = None /\ k.clientSessions = n.clientSessions
         /\ k.known = FALSE /\ k.crashed = n.crashed
         /\ k.refused = n.refused
    BY <1>1, <2>2 DEF NodeFields
  <2>3. v = [w EXCEPT !.sess[s] = g, !.node[e] = k]
    BY <2>0, <2>1, <2>2 DEF States
  <2> QED
    BY <2>1a, <2>2a, <2>3, <1>1, <1>4 DEF States
<1> QED
  BY <1>2, <1>3, <1>4

\* The end of a connection that has lost its session.
Cut(w, l, e, tcp) ==
  [w EXCEPT !.link[l][e].session = None, !.link[l][e].tcp = tcp, !.link[l][e].in = FALSE]

LEMMA CutReturns ==
  ASSUME NEW w \in States, NEW l \in Links, NEW e \in Ends, NEW tcp \in {"closing", "gone"},
         NEW v, v = Cut(w, l, e, tcp)
  PROVE  /\ v \in States /\ v.sess = w.sess /\ v.node = w.node
         /\ v.link[l][e].session = None /\ v.link[l][e].tcp = tcp
         /\ \A d \in Ends : d # e => v.link[l][d] = w.link[l][d]
         /\ \A m \in Links : m # l => v.link[m] = w.link[m]
<1> DEFINE f == w.link[l][e]
<1>1. f \in EndFields
  BY Typed
<1>2. PICK k : k = [f EXCEPT !.session = None, !.tcp = tcp, !.in = FALSE]
  OBVIOUS
<1>3. k \in EndFields /\ k.session = None /\ k.tcp = tcp
  BY <1>1, <1>2 DEF EndFields
<1>4. v = [w EXCEPT !.link[l][e] = k]
  BY <1>2, ZenonT(40) DEF Cut, States
<1>5. /\ v.sess = w.sess /\ v.node = w.node /\ v.link = [w.link EXCEPT ![l][e] = k]
      /\ v = [node |-> v.node, sess |-> v.sess, link |-> v.link]
  BY <1>4 DEF States
<1>6. /\ v.link \in [Links -> [Ends -> EndFields]] /\ v.link[l][e] = k
      /\ \A d \in Ends : d # e => v.link[l][d] = w.link[l][d]
      /\ \A m \in Links : m # l => v.link[m] = w.link[m]
  BY <1>3, <1>5 DEF States
<1>7. v \in States
  BY <1>5, <1>6 DEF States
<1> QED
  BY <1>3, <1>5, <1>6, <1>7

\* A session without its connection.
Leave(w, s) == [w EXCEPT !.sess[s].conn = None]

LEMMA LeaveReturns ==
  ASSUME NEW w \in States, NEW s \in Sess, NEW v, v = Leave(w, s)
  PROVE  /\ v \in States /\ v.link = w.link /\ v.node = w.node
         /\ \A x \in Sess : x # s => v.sess[x] = w.sess[x]
         /\ v.sess[s].conn = None /\ v.sess[s].live = w.sess[s].live
         /\ v.sess[s].identity = w.sess[s].identity /\ v.sess[s].delay = w.sess[s].delay
         /\ v.sess[s].active = w.sess[s].active /\ v.sess[s].timer = w.sess[s].timer
<1> DEFINE f == w.sess[s]
<1>1. f \in SessFields
  BY Typed
<1>2. PICK g : g = [f EXCEPT !.conn = None]
  OBVIOUS
<1>3. /\ g \in SessFields
      /\ g.conn = None /\ g.live = f.live /\ g.identity = f.identity /\ g.delay = f.delay
      /\ g.active = f.active /\ g.timer = f.timer
  BY <1>1, <1>2 DEF SessFields
<1>4. v = [w EXCEPT !.sess[s] = g]
  BY <1>2 DEF Leave, States
<1>5. /\ v \in States /\ v.node = w.node /\ v.link = w.link /\ v.sess[s] = g
      /\ \A x \in Sess : x # s => v.sess[x] = w.sess[x]
  BY <1>3, <1>4 DEF States
<1> QED
  BY <1>3, <1>5

\* A connection that is closed or that ends leaves its session, which is released.
LEMMA DetachGood ==
  ASSUME NEW w, Good(w), NEW l \in Links, NEW e \in Ends, NEW tcp \in {"closing", "gone"},
         ~w.node[e].crashed, w.link[l][e].tcp \in {"open", "closing"},
         NEW v \in Detach(w, l, e, tcp)
  PROVE  /\ Good(v)
         /\ \A x \in Sess : x # w.link[l][e].session => v.sess[x] = w.sess[x]
         /\ \A m \in Links : m # l => v.link[m] = w.link[m]
         /\ v.link[l][e].tcp = tcp
<1>0. PICK s : s = w.link[l][e].session
  OBVIOUS
<1>1. PICK cut : cut = Cut(w, l, e, tcp)
  OBVIOUS
<1>2. w \in States /\ EndOK(w, e) /\ EndOK(w, Peer(e)) /\ LinkOK(w, e, l)
  <2>1. w \in States /\ EndOK(w, "c") /\ EndOK(w, "s")
    BY DEF Good
  <2> QED
    BY <2>1, Names DEF EndOK, Ends, Peer
<1>3. /\ cut \in States /\ cut.sess = w.sess /\ cut.node = w.node
      /\ cut.link[l][e].session = None /\ cut.link[l][e].tcp = tcp
      /\ \A d \in Ends : d # e => cut.link[l][d] = w.link[l][d]
      /\ \A m \in Links : m # l => cut.link[m] = w.link[m]
  BY <1>1, <1>2, CutReturns, SMTT(40)
<1>4. ASSUME NEW u, u \in States, u.link = cut.link, EndOK(u, e), u.node[Peer(e)] = w.node[Peer(e)],
             \A x \in Sess : x # s => u.sess[x] = w.sess[x]
      PROVE  /\ Good(u)
             /\ \A x \in Sess : x # s => u.sess[x] = w.sess[x]
             /\ \A m \in Links : m # l => u.link[m] = w.link[m]
             /\ u.link[l][e].tcp = tcp
  <2> DEFINE d == Peer(e)
  <2>1. d \in Ends /\ d # e
    BY Names
  <2>2. \A x \in Mine(d) : u.sess[x] = w.sess[x]
    BY <1>0, <1>2, <1>4, Names DEF LinkOK
  <2>3. \A m \in Links : u.link[m][d] = w.link[m][d]
    BY <2>1, <1>3, <1>4
  <2>4. EndOK(u, d)
    BY <2>1, <2>2, <2>3, <1>2, <1>4, Mild
  <2>5. Backlogs(u)
    <3> SUFFICES ASSUME NEW m \in Links, u.link[m]["c"].tcp \in {"none", "pending"}
                 PROVE  u.link[m]["s"].tcp = "none"
      BY DEF Backlogs
    <3>1. w.link[m]["c"].tcp \in {"none", "pending"} => w.link[m]["s"].tcp = "none"
      BY DEF Good, Backlogs
    <3>2. CASE m # l
      BY <3>1, <3>2, <1>3, <1>4
    <3>3. CASE m = l /\ e = "c"
      BY <3>3, <1>3, <1>4
    <3>4. CASE m = l /\ e = "s"
      BY <3>1, <3>4, <1>3, <1>4 DEF Ends
    <3> QED
      BY <3>2, <3>3, <3>4 DEF Ends
  <2> QED
    BY <1>3, <1>4, <2>4, <2>5 DEF Good, Ends, Peer
<1>5. CASE s = None
  <2>1. v = cut
    BY <1>0, <1>1, <1>5 DEF Detach, Cut, Leave
  <2>2. w.link[l][e].tcp \notin Held
    BY <1>0, <1>2, <1>5 DEF LinkOK
  <2>3. \A m \in Links :
           /\ cut.link[m][e].session = w.link[m][e].session
           /\ \/ cut.link[m][e].tcp = w.link[m][e].tcp
              \/ cut.link[m][e].tcp \notin Held /\ w.link[m][e].tcp \notin Held
    BY <1>0, <1>3, <1>5, <2>2 DEF Held
  <2>4. EndOK(cut, e)
    BY <2>3, <1>2, <1>3, Mild
  <2> QED
    BY <2>1, <2>4, <1>3, <1>4, Names
<1>6. CASE s # None
  <2>1. /\ s \in Mine(e) /\ s \in Sess /\ w.sess[s].live /\ ~w.sess[s].timer
        /\ \A m \in Links : w.link[m][e].session = s => m = l
    BY <1>0, <1>2, <1>6, Names DEF LinkOK
  <2>2. PICK a : a = Leave(cut, s)
    OBVIOUS
  <2>3. PICK b : b \in OnClose(a, e, s) /\ v = OnRelease(b, s)
    BY <1>0, <1>1, <1>6, <2>2 DEF Detach, Cut, Leave
  <2>4. /\ a \in States /\ a.link = cut.link /\ a.node = w.node
        /\ \A x \in Sess : x # s => a.sess[x] = w.sess[x]
        /\ a.sess[s].conn = None /\ a.sess[s].live
        /\ a.sess[s].identity = w.sess[s].identity /\ a.sess[s].delay = w.sess[s].delay
        /\ ~a.sess[s].timer
    BY <1>3, <2>1, <2>2, LeaveReturns, SMTT(40)
  <2>5. /\ b \in States /\ b.link = cut.link
        /\ \A x \in Sess : x # s => b.sess[x] = w.sess[x]
        /\ b.sess[s].conn = None /\ b.sess[s].live /\ ~b.sess[s].timer
        /\ \A d \in Ends : d # e => b.node[d] = w.node[d]
        /\ \/ b.node[e].crashed
           \/ /\ ~b.sess[s].identity
              /\ b.sess[s].delay = IF w.sess[s].identity THEN "null" ELSE w.sess[s].delay
              /\ b.node[e].crashed = w.node[e].crashed /\ b.node[e].refused = w.node[e].refused
              /\ b.node[e].sessions = IF w.sess[s].identity THEN None ELSE w.node[e].sessions
              /\ b.node[e].known = IF w.sess[s].identity THEN FALSE ELSE w.node[e].known
              /\ b.node[e].clientSessions = w.node[e].clientSessions
    <3>0. a \in States /\ s \in Sess /\ b \in OnClose(a, e, s)
      BY <2>1, <2>3, <2>4
    <3>1. /\ b \in States /\ b.link = a.link
          /\ \A x \in Sess : x # s => b.sess[x] = a.sess[x]
          /\ b.sess[s].conn = a.sess[s].conn /\ b.sess[s].live = a.sess[s].live
          /\ b.sess[s].timer = a.sess[s].timer
          /\ \A d \in Ends : d # e => b.node[d] = a.node[d]
      BY <3>0, CloseReturns, ZenonT(40)
    <3>2. \/ b.node[e].crashed
          \/ /\ ~b.sess[s].identity
             /\ b.sess[s].delay = IF a.sess[s].identity THEN "null" ELSE a.sess[s].delay
             /\ b.node[e].crashed = a.node[e].crashed /\ b.node[e].refused = a.node[e].refused
             /\ b.node[e].sessions = IF a.sess[s].identity THEN None ELSE a.node[e].sessions
             /\ b.node[e].known = IF a.sess[s].identity THEN FALSE ELSE a.node[e].known
             /\ b.node[e].clientSessions = a.node[e].clientSessions
      BY <3>0, CloseReturns
    <3> QED
      BY <2>4, <3>1, <3>2
  <2>6. /\ v \in States /\ v.link = cut.link
        /\ \A x \in Sess : x # s => v.sess[x] = w.sess[x]
        /\ v.sess[s].conn = None /\ v.sess[s].identity = b.sess[s].identity
        /\ v.sess[s].delay = b.sess[s].delay
        /\ v.node["s"] = b.node["s"]
        /\ v.node["c"].crashed = b.node["c"].crashed /\ v.node["c"].refused = b.node["c"].refused
        /\ v.node["c"].sessions = b.node["c"].sessions /\ v.node["c"].known = b.node["c"].known
        /\ s \in Links => v.node = b.node /\ ~v.sess[s].timer
        /\ s \in Clients =>
              \/ /\ v.node["c"].clientSessions = None /\ ~v.sess[s].timer
                 /\ ~v.sess[s].live \/ v.sess[s].active
              \/ /\ v.node = b.node /\ v.sess[s].live /\ v.sess[s].timer
    BY <2>1, <2>3, <2>5, ReleaseReturns
  <2>7. v.node[Peer(e)] = w.node[Peer(e)]
    BY <2>1, <2>5, <2>6, Names DEF Ends
  <2>8. EndOK(v, e)
    <3>1. CASE b.node[e].crashed
      BY <3>1, <2>6, Names DEF EndOK, Ends
    <3>2. CASE ~b.node[e].crashed
      <4>1. \A m \in Links :
              IF w.link[m][e].session = s
              THEN v.link[m][e].session = None /\ v.link[m][e].tcp \notin Held
              ELSE v.link[m][e].session = w.link[m][e].session /\ v.link[m][e].tcp = w.link[m][e].tcp
        BY <1>0, <1>3, <2>1, <2>6 DEF Held
      <4>2. /\ v.node[e].crashed = b.node[e].crashed /\ v.node[e].refused = b.node[e].refused
            /\ v.node[e].sessions = b.node[e].sessions /\ v.node[e].known = b.node[e].known
        BY <2>6 DEF Ends
      <4>3. \/ /\ v.node[e].clientSessions = None
               /\ ~v.sess[s].timer
               /\ ~v.sess[s].live \/ v.sess[s].active
            \/ /\ v.node[e].clientSessions = b.node[e].clientSessions
               /\ IF e = "c" THEN v.sess[s].live /\ v.sess[s].timer ELSE ~v.sess[s].timer
        <5>1. CASE e = "c"
          BY <5>1, <2>1, <2>6, Names
        <5>2. CASE e = "s"
          BY <5>2, <2>1, <2>6, Names
        <5> QED
          BY <5>1, <5>2 DEF Ends
      <4>4. \A x \in Mine(e) : x # s => v.sess[x] = w.sess[x]
        BY <2>6, Names
      <4>5. /\ v.sess[s].conn = None /\ ~v.sess[s].identity
            /\ v.sess[s].delay = IF w.sess[s].identity THEN "null" ELSE w.sess[s].delay
            /\ v.node[e].crashed = w.node[e].crashed /\ v.node[e].refused = w.node[e].refused
            /\ v.node[e].sessions = IF w.sess[s].identity THEN None ELSE w.node[e].sessions
            /\ v.node[e].known = IF w.sess[s].identity THEN FALSE ELSE w.node[e].known
            /\ b.node[e].clientSessions = w.node[e].clientSessions
        BY <3>2, <4>2, <2>5, <2>6
      <4>6. v \in States /\ w \in States /\ EndOK(w, e) /\ s \in Mine(e)
        BY <1>2, <2>1, <2>6
      <4>7. \/ /\ v.node[e].clientSessions = None
               /\ ~v.sess[s].timer
               /\ ~v.sess[s].live \/ v.sess[s].active
            \/ /\ v.node[e].clientSessions = w.node[e].clientSessions
               /\ IF e = "c" THEN v.sess[s].live /\ v.sess[s].timer ELSE ~v.sess[s].timer
        BY <4>3, <4>5
      <4> QED
        BY <4>1, <4>4, <4>5, <4>6, <4>7, Released, ZenonT(40)
    <3> QED
      BY <3>1, <3>2
  <2> QED
    BY <1>0, <2>6, <2>7, <2>8, <1>4
<1> QED
  BY <1>0, <1>5, <1>6

\* What a good state says of the two ends.
LEMMA GoodEnds ==
  ASSUME NEW w
  PROVE  Good(w) <=> w \in States /\ Backlogs(w) /\ \A e \in Ends : EndOK(w, e)
BY DEF Good, Ends

\* A session that is closed on purpose.
Act(w, s) == [w EXCEPT !.sess[s].active = TRUE]

LEMMA ActReturns ==
  ASSUME NEW w \in States, NEW s \in Sess, NEW v, v = Act(w, s)
  PROVE  /\ v \in States /\ v.link = w.link /\ v.node = w.node
         /\ \A x \in Sess : x # s => v.sess[x] = w.sess[x]
         /\ v.sess[s].conn = w.sess[s].conn /\ v.sess[s].live = w.sess[s].live
         /\ v.sess[s].identity = w.sess[s].identity /\ v.sess[s].delay = w.sess[s].delay
         /\ v.sess[s].active /\ v.sess[s].timer = w.sess[s].timer
         /\ v.sess[s].connecting = w.sess[s].connecting /\ v.sess[s].denied = w.sess[s].denied
<1> DEFINE f == w.sess[s]
<1>1. f \in SessFields
  BY Typed
<1>2. PICK g : g = [f EXCEPT !.active = TRUE]
  OBVIOUS
<1>3. /\ g \in SessFields
      /\ g.conn = f.conn /\ g.live = f.live /\ g.identity = f.identity /\ g.delay = f.delay
      /\ g.active = TRUE /\ g.timer = f.timer /\ g.connecting = f.connecting /\ g.denied = f.denied
  BY <1>1, <1>2 DEF SessFields
<1>4. v = [w EXCEPT !.sess[s] = g]
  BY <1>2 DEF Act, States
<1>5. /\ v \in States /\ v.node = w.node /\ v.link = w.link /\ v.sess[s] = g
      /\ \A x \in Sess : x # s => v.sess[x] = w.sess[x]
  BY <1>3, <1>4, ZenonT(40) DEF States
<1> QED
  BY <1>3, <1>5

\* Close of a session: it leaves its connection, or a client session that is not connecting is
\* released at once.  A connection that was never tried is not touched.
LEMMA CloseGood ==
  ASSUME NEW w, Good(w), NEW s \in Sess, ~w.node[EndOf(s)].crashed, NEW v \in Close(w, s)
  PROVE  /\ Good(v)
         /\ \A x \in Sess : x # s => v.sess[x] = w.sess[x]
         /\ \A m \in Links : w.link[m][EndOf(s)].tcp = "none" => v.link[m] = w.link[m]
<1>0. PICK e : e = EndOf(s) /\ e \in Ends /\ s \in Mine(e)
  BY Names
<1>1. PICK a : a = Act(w, s)
  OBVIOUS
<1>2. w \in States /\ Backlogs(w) /\ \A d \in Ends : EndOK(w, d)
  BY GoodEnds
<1>3. /\ a \in States /\ a.link = w.link /\ a.node = w.node
      /\ \A x \in Sess : x # s => a.sess[x] = w.sess[x]
      /\ a.sess[s].conn = w.sess[s].conn /\ a.sess[s].live = w.sess[s].live
      /\ a.sess[s].identity = w.sess[s].identity /\ a.sess[s].delay = w.sess[s].delay
      /\ a.sess[s].active /\ a.sess[s].timer = w.sess[s].timer
      /\ a.sess[s].connecting = w.sess[s].connecting /\ a.sess[s].denied = w.sess[s].denied
  <2>1. w \in States
    BY <1>2
  <2> QED
    BY <1>1, <2>1, ActReturns
<1>4. ASSUME NEW d \in Ends PROVE EndOK(a, d)
  <2>1. /\ a.node[d] = w.node[d] /\ EndOK(w, d)
        /\ \A x \in Mine(d) :
             /\ a.sess[x].live = w.sess[x].live /\ a.sess[x].conn = w.sess[x].conn
             /\ a.sess[x].identity = w.sess[x].identity /\ a.sess[x].delay = w.sess[x].delay
             /\ a.sess[x].timer = w.sess[x].timer /\ a.sess[x].denied = w.sess[x].denied
             /\ w.sess[x].active => a.sess[x].active
             /\ w.sess[x].connecting => a.sess[x].connecting \/ w.sess[x].conn # None
        /\ \A l \in Links :
             /\ a.link[l][d].session = w.link[l][d].session
             /\ a.link[l][d].tcp = w.link[l][d].tcp
    BY <1>2, <1>3, Names
  <2> QED
    BY <2>1, <1>2, <1>3, Mild
<1>5. Good(a)
  <2>1. Backlogs(a)
    BY <1>2, <1>3 DEF Backlogs
  <2> QED
    BY <2>1, <1>3, <1>4, GoodEnds
<1>6. (\A m \in Links : LinkOK(a, e, m)) /\ SessOK(a, e, s)
  BY <1>0, <1>3, <1>4 DEF EndOK
<1>7. CASE a.sess[s].conn # None
  <2>1. PICK l \in Links : l = a.sess[s].conn
    BY <1>3, <1>7, Typed DEF SessFields
  <2>2. a.link[l][e].session = s
    BY <1>6, <1>7, <2>1 DEF SessOK
  <2>3. a.link[l][e].tcp = "open"
    <3>1. LinkOK(a, e, l) /\ s # None
      BY <1>6, Names
    <3> QED
      BY <3>1, <2>1, <2>2, <1>7 DEF LinkOK, Held
  <2>4. v \in Detach(a, l, e, "closing") /\ ~a.node[e].crashed
    BY <1>0, <1>1, <1>3, <1>7, <2>1 DEF Close, Act
  <2>5. /\ Good(v)
        /\ \A x \in Sess : x # a.link[l][e].session => v.sess[x] = a.sess[x]
        /\ \A m \in Links : m # l => v.link[m] = a.link[m]
    BY <1>0, <1>5, <2>3, <2>4, DetachGood
  <2> QED
    BY <1>0, <1>3, <2>2, <2>3, <2>5
<1>8. CASE a.sess[s].conn = None /\ s \in Clients /\ ~a.sess[s].connecting
  <2>1. v = OnRelease(a, s)
    BY <1>1, <1>8 DEF Close, Act
  <2>2. e = "c" /\ s \notin Links
    BY <1>0, <1>8, Names
  <2>3. ~a.sess[s].identity
    BY <1>6, <1>8 DEF SessOK
  <2>4. \A m \in Links : a.link[m][e].session # s
    <3>1. SUFFICES ASSUME NEW m \in Links, a.link[m][e].session = s
                   PROVE  FALSE
      OBVIOUS
    <3>2. LinkOK(a, e, m) /\ s # None /\ m # None
      BY <1>6, Names
    <3> QED
      BY <3>1, <3>2, <1>8 DEF LinkOK, Held
  <2>5. /\ v \in States /\ v.link = a.link
        /\ \A x \in Sess : x # s => v.sess[x] = a.sess[x]
        /\ v.sess[s].conn = None /\ v.sess[s].identity = a.sess[s].identity
        /\ v.sess[s].delay = a.sess[s].delay /\ v.sess[s].active
        /\ v.node["s"] = a.node["s"]
        /\ v.node["c"].crashed = a.node["c"].crashed /\ v.node["c"].refused = a.node["c"].refused
        /\ v.node["c"].sessions = a.node["c"].sessions /\ v.node["c"].known = a.node["c"].known
        /\ v.node["c"].clientSessions = None /\ ~v.sess[s].timer
    BY <1>3, <1>8, <2>1, ReleaseReturns
  <2>6. EndOK(v, "c")
    <3>1. /\ v \in States /\ a \in States /\ "c" \in Ends /\ s \in Mine("c") /\ EndOK(a, "c")
          /\ \A x \in Mine("c") : x # s => v.sess[x] = a.sess[x]
      BY <1>0, <1>3, <1>4, <2>2, <2>5, Names DEF Ends
    <3>2. \A l \in Links :
             IF a.link[l]["c"].session = s
             THEN v.link[l]["c"].session = None /\ v.link[l]["c"].tcp \notin Held
             ELSE v.link[l]["c"].session = a.link[l]["c"].session /\ v.link[l]["c"].tcp = a.link[l]["c"].tcp
      BY <2>2, <2>4, <2>5
    <3>3. /\ v.sess[s].conn = None /\ ~v.sess[s].identity
          /\ v.sess[s].delay = IF a.sess[s].identity THEN "null" ELSE a.sess[s].delay
          /\ v.node["c"].crashed = a.node["c"].crashed /\ v.node["c"].refused = a.node["c"].refused
          /\ v.node["c"].sessions = IF a.sess[s].identity THEN None ELSE a.node["c"].sessions
          /\ v.node["c"].known = IF a.sess[s].identity THEN FALSE ELSE a.node["c"].known
      BY <2>3, <2>5
    <3>4. \/ /\ v.node["c"].clientSessions = None
             /\ ~v.sess[s].timer
             /\ ~v.sess[s].live \/ v.sess[s].active
          \/ /\ v.node["c"].clientSessions = a.node["c"].clientSessions
             /\ IF "c" = "c" THEN v.sess[s].live /\ v.sess[s].timer ELSE ~v.sess[s].timer
      BY <2>5
    <3> QED
      BY <3>1, <3>2, <3>3, <3>4, Released, ZenonT(40)
  <2>7. EndOK(v, "s")
    <3>1. /\ v.node["s"] = a.node["s"] /\ EndOK(a, "s") /\ "s" \in Ends
          /\ \A x \in Mine("s") : v.sess[x] = a.sess[x]
          /\ \A l \in Links : v.link[l]["s"] = a.link[l]["s"]
      BY <1>4, <2>2, <2>5, Names DEF Ends
    <3> QED
      BY <3>1, <1>3, <2>5, Mild
  <2>8. Backlogs(v)
    BY <1>5, <2>5 DEF Good, Backlogs
  <2> QED
    BY <1>3, <2>5, <2>6, <2>7, <2>8 DEF Good
<1>9. CASE a.sess[s].conn = None /\ ~(s \in Clients /\ ~a.sess[s].connecting)
  <2>1. v = a
    BY <1>1, <1>9 DEF Close, Act
  <2> QED
    BY <1>3, <1>5, <2>1
<1> QED
  BY <1>7, <1>8, <1>9

\* A connect that succeeds at once, is in progress or fails.
LEMMA CreateReturns ==
  ASSUME NEW w \in States, NEW s \in Clients, NEW l \in Links, NEW v \in CreateNetSession(w, s, l)
  PROVE  /\ v \in States /\ v.node = w.node
         /\ \A x \in Sess : x # s => v.sess[x] = w.sess[x]
         /\ \A m \in Links : m # l => v.link[m] = w.link[m]
         /\ v.sess[s].live = w.sess[s].live /\ v.sess[s].identity = w.sess[s].identity
         /\ v.sess[s].delay = w.sess[s].delay /\ v.sess[s].active = w.sess[s].active
         /\ v.sess[s].timer = w.sess[s].timer
         /\ \/ /\ v.sess[s].conn = l /\ v.link[l]["c"].session = s /\ v.link[l]["c"].tcp = "open"
               /\ v.link[l]["s"].session = w.link[l]["s"].session /\ v.link[l]["s"].tcp = "backlog"
            \/ /\ v.sess[s].conn = w.sess[s].conn /\ v.sess[s].connecting = w.sess[s].connecting
               /\ v.link[l]["c"].session = s /\ v.link[l]["c"].tcp = "pending"
               /\ v.link[l]["s"] = w.link[l]["s"]
            \/ /\ v.sess[s].conn = w.sess[s].conn /\ v.sess[s].denied
               /\ v.link[l]["c"].session = w.link[l]["c"].session /\ v.link[l]["c"].tcp = "gone"
               /\ v.link[l]["s"] = w.link[l]["s"]
<1> DEFINE f == w.sess[s]
           c == w.link[l]["c"]
           p == w.link[l]["s"]
<1>1. f \in SessFields /\ c \in EndFields /\ p \in EndFields /\ s \in Sess /\ "c" \in Ends /\ "s" \in Ends
  BY Typed, Names DEF Ends
<1>2. ASSUME NEW g \in SessFields, NEW k \in EndFields, NEW j \in EndFields,
             v.node = w.node, v.sess = [w.sess EXCEPT ![s] = g],
             v.link = [w.link EXCEPT ![l]["c"] = k, ![l]["s"] = j],
             v = [node |-> v.node, sess |-> v.sess, link |-> v.link]
      PROVE  /\ v \in States /\ v.node = w.node /\ v.sess[s] = g
             /\ \A x \in Sess : x # s => v.sess[x] = w.sess[x]
             /\ v.link[l]["c"] = k /\ v.link[l]["s"] = j
             /\ \A m \in Links : m # l => v.link[m] = w.link[m]
  <2>1. /\ v.link \in [Links -> [Ends -> EndFields]] /\ v.link[l]["c"] = k /\ v.link[l]["s"] = j
        /\ \A m \in Links : m # l => v.link[m] = w.link[m]
    BY <1>1, <1>2 DEF States
  <2>2. /\ v.sess \in [Sess -> SessFields] /\ v.sess[s] = g
        /\ \A x \in Sess : x # s => v.sess[x] = w.sess[x]
    BY <1>1, <1>2 DEF States
  <2> QED
    BY <1>2, <2>1, <2>2 DEF States
<1>3. PICK try : try = [w EXCEPT !.sess[s].denied = FALSE]
  OBVIOUS
<1>4. PICK fail : fail = [w EXCEPT !.sess[s].denied = TRUE, !.link[l]["c"].tcp = "gone"]
  OBVIOUS
<1>5. CASE v = [Attach(try, l, "c", s) EXCEPT !.link[l]["s"].tcp = "backlog"]
  <2>1. PICK g, k, j : /\ g = [f EXCEPT !.denied = FALSE, !.conn = l]
                       /\ k = [c EXCEPT !.tcp = "open", !.session = s]
                       /\ j = [p EXCEPT !.tcp = "backlog"]
    OBVIOUS
  <2>2. /\ g \in SessFields
        /\ g.conn = l /\ g.live = f.live /\ g.identity = f.identity /\ g.delay = f.delay
        /\ g.active = f.active /\ g.timer = f.timer
    BY <1>1, <2>1 DEF SessFields
  <2>3. k \in EndFields /\ k.tcp = "open" /\ k.session = s
    BY <1>1, <2>1 DEF EndFields
  <2>4. j \in EndFields /\ j.tcp = "backlog" /\ j.session = p.session
    BY <1>1, <2>1 DEF EndFields
  <2>5. v = [w EXCEPT !.sess[s] = g, !.link[l]["c"] = k, !.link[l]["s"] = j]
    <3>1. /\ try.node = w.node /\ try.link = w.link
          /\ try.sess = [w.sess EXCEPT ![s] = [f EXCEPT !.denied = FALSE]]
          /\ try = [node |-> try.node, sess |-> try.sess, link |-> try.link]
      BY <1>3 DEF States
    <3>2. PICK a : a = Attach(try, l, "c", s)
      OBVIOUS
    <3>3. /\ a.node = w.node
          /\ a.sess = [try.sess EXCEPT ![s].conn = l]
          /\ a.link = [w.link EXCEPT ![l]["c"].tcp = "open", ![l]["c"].session = s]
          /\ a = [node |-> a.node, sess |-> a.sess, link |-> a.link]
      BY <3>1, <3>2 DEF Attach
    <3>4. a.sess = [w.sess EXCEPT ![s] = g]
      BY <1>1, <2>1, <3>1, <3>3 DEF States
    <3>5. a.link = [w.link EXCEPT ![l]["c"] = k]
      BY <1>1, <2>1, <3>3 DEF States
    <3>6. /\ v.node = w.node /\ v.sess = a.sess
          /\ v.link = [a.link EXCEPT ![l]["s"].tcp = "backlog"]
          /\ v = [node |-> v.node, sess |-> v.sess, link |-> v.link]
      BY <1>5, <3>2, <3>3
    <3>7. v.link = [w.link EXCEPT ![l]["c"] = k, ![l]["s"] = j]
      BY <1>1, <2>1, <3>5, <3>6 DEF States
    <3> QED
      BY <3>4, <3>6, <3>7 DEF States
  <2>6. /\ v.node = w.node /\ v.sess = [w.sess EXCEPT ![s] = g]
        /\ v.link = [w.link EXCEPT ![l]["c"] = k, ![l]["s"] = j]
        /\ v = [node |-> v.node, sess |-> v.sess, link |-> v.link]
    BY <2>5 DEF States
  <2> QED
    BY <1>2, <2>2, <2>3, <2>4, <2>6
<1>6. CASE v = [try EXCEPT !.link[l]["c"].tcp = "pending", !.link[l]["c"].session = s]
  <2>1. PICK g, k : /\ g = [f EXCEPT !.denied = FALSE]
                    /\ k = [c EXCEPT !.tcp = "pending", !.session = s]
    OBVIOUS
  <2>2. /\ g \in SessFields
        /\ g.conn = f.conn /\ g.live = f.live /\ g.identity = f.identity /\ g.delay = f.delay
        /\ g.active = f.active /\ g.timer = f.timer /\ g.connecting = f.connecting
    BY <1>1, <2>1 DEF SessFields
  <2>3. k \in EndFields /\ k.tcp = "pending" /\ k.session = s
    BY <1>1, <2>1 DEF EndFields
  <2>5. v = [w EXCEPT !.sess[s] = g, !.link[l]["c"] = k]
    BY <1>1, <1>3, <1>6, <2>1, ZenonT(40) DEF States
  <2>6. /\ v.node = w.node /\ v.sess = [w.sess EXCEPT ![s] = g]
        /\ v.link = [w.link EXCEPT ![l]["c"] = k, ![l]["s"] = p]
        /\ v = [node |-> v.node, sess |-> v.sess, link |-> v.link]
    BY <1>1, <2>5 DEF States
  <2> QED
    BY <1>1, <1>2, <2>2, <2>3, <2>6
<1>7. CASE v = fail
  <2>1. PICK g, k : /\ g = [f EXCEPT !.denied = TRUE]
                    /\ k = [c EXCEPT !.tcp = "gone"]
    OBVIOUS
  <2>2. /\ g \in SessFields
        /\ g.conn = f.conn /\ g.live = f.live /\ g.identity = f.identity /\ g.delay = f.delay
        /\ g.active = f.active /\ g.timer = f.timer /\ g.denied
    BY <1>1, <2>1 DEF SessFields
  <2>3. k \in EndFields /\ k.tcp = "gone" /\ k.session = c.session
    BY <1>1, <2>1 DEF EndFields
  <2>5. v = [w EXCEPT !.sess[s] = g, !.link[l]["c"] = k]
    BY <1>1, <1>4, <1>7, <2>1 DEF States
  <2>6. /\ v.node = w.node /\ v.sess = [w.sess EXCEPT ![s] = g]
        /\ v.link = [w.link EXCEPT ![l]["c"] = k, ![l]["s"] = p]
        /\ v = [node |-> v.node, sess |-> v.sess, link |-> v.link]
    BY <1>1, <2>5 DEF States
  <2> QED
    BY <1>1, <1>2, <2>2, <2>3, <2>6
<1>8. CASE v = [fail EXCEPT !.sess[s].connecting = FALSE]
  <2>1. PICK g, k : /\ g = [f EXCEPT !.denied = TRUE, !.connecting = FALSE]
                    /\ k = [c EXCEPT !.tcp = "gone"]
    OBVIOUS
  <2>2. /\ g \in SessFields
        /\ g.conn = f.conn /\ g.live = f.live /\ g.identity = f.identity /\ g.delay = f.delay
        /\ g.active = f.active /\ g.timer = f.timer /\ g.denied
    BY <1>1, <2>1 DEF SessFields
  <2>3. k \in EndFields /\ k.tcp = "gone" /\ k.session = c.session
    BY <1>1, <2>1 DEF EndFields
  <2>5. v = [w EXCEPT !.sess[s] = g, !.link[l]["c"] = k]
    BY <1>1, <1>4, <1>8, <2>1 DEF States
  <2>6. /\ v.node = w.node /\ v.sess = [w.sess EXCEPT ![s] = g]
        /\ v.link = [w.link EXCEPT ![l]["c"] = k, ![l]["s"] = p]
        /\ v = [node |-> v.node, sess |-> v.sess, link |-> v.link]
    BY <1>1, <2>5 DEF States
  <2> QED
    BY <1>1, <1>2, <2>2, <2>3, <2>6, SMTT(40)
<1> QED
  BY <1>3, <1>4, <1>5, <1>6, <1>7, <1>8 DEF CreateNetSession

\* What the caller of a connect has set in session s before it (state a), and sets after it (z).
Prepared(w, a, s) ==
  /\ a \in States /\ a.node = w.node /\ a.link = w.link
  /\ \A x \in Sess : x # s => a.sess[x] = w.sess[x]
  /\ a.sess[s].conn = None /\ a.sess[s].identity = w.sess[s].identity
  /\ a.sess[s].delay = w.sess[s].delay

Completed(a, v, z, s) ==
  /\ z \in States /\ z.link = v.link /\ z.node["s"] = v.node["s"]
  /\ \A x \in Sess : x # s => z.sess[x] = v.sess[x]
  /\ z.sess[s].conn = v.sess[s].conn /\ z.sess[s].identity = v.sess[s].identity
  /\ z.sess[s].delay = v.sess[s].delay /\ z.sess[s].denied = v.sess[s].denied
  /\ z.sess[s].live /\ ~z.sess[s].timer
  /\ \/ z.sess[s].connecting
     \/ a.sess[s].connecting /\ z.sess[s].connecting = v.sess[s].connecting
  /\ z.node["c"].crashed = v.node["c"].crashed /\ z.node["c"].refused = v.node["c"].refused
  /\ z.node["c"].sessions = v.node["c"].sessions /\ z.node["c"].known = v.node["c"].known
  /\ \/ z.node["c"].clientSessions = v.node["c"].clientSessions
     \/ z.node["c"].clientSessions = s

\* A connect over l of a session that has no connection.
LEMMA CreateGood ==
  ASSUME NEW w, Good(w), NEW s \in Clients, NEW l \in Links, ~w.node["c"].crashed,
         w.link[l]["c"].tcp = "none", w.sess[s].conn = None,
         \A m \in Links : w.link[m]["c"].session # s,
         NEW a, Prepared(w, a, s), NEW v \in CreateNetSession(a, s, l), NEW z, Completed(a, v, z, s)
  PROVE  Good(z)
<1> USE DEF Prepared, Completed
<1>0. /\ "c" \in Ends /\ "s" \in Ends /\ s \in Sess /\ s \in Mine("c") /\ Mine("c") = Clients
      /\ Mine("s") = Links /\ \A x \in Mine("s") : x \in Sess /\ x # s
  BY Names DEF Ends
<1>1. w \in States /\ Backlogs(w) /\ EndOK(w, "c") /\ EndOK(w, "s") /\ LinkOK(w, "c", l)
  BY DEF Good, EndOK
<1>2. w.link[l]["c"].session = None /\ w.link[l]["s"].tcp = "none"
  BY <1>1 DEF LinkOK, Held, Backlogs
<1>3. /\ v \in States /\ v.node = a.node
      /\ \A x \in Sess : x # s => v.sess[x] = a.sess[x]
      /\ \A m \in Links : m # l => v.link[m] = a.link[m]
      /\ v.sess[s].identity = a.sess[s].identity /\ v.sess[s].delay = a.sess[s].delay
  BY CreateReturns
<1>4. \/ /\ v.sess[s].conn = l /\ v.link[l]["c"].session = s /\ v.link[l]["c"].tcp = "open"
         /\ v.link[l]["s"].session = a.link[l]["s"].session /\ v.link[l]["s"].tcp = "backlog"
      \/ /\ v.sess[s].conn = a.sess[s].conn /\ v.sess[s].connecting = a.sess[s].connecting
         /\ v.link[l]["c"].session = s /\ v.link[l]["c"].tcp = "pending"
         /\ v.link[l]["s"] = a.link[l]["s"]
      \/ /\ v.sess[s].conn = a.sess[s].conn /\ v.sess[s].denied
         /\ v.link[l]["c"].session = a.link[l]["c"].session /\ v.link[l]["c"].tcp = "gone"
         /\ v.link[l]["s"] = a.link[l]["s"]
  BY CreateReturns
<1>5. /\ \A x \in Mine("c") : x # s => z.sess[x] = w.sess[x]
      /\ \A x \in Clients : x # s => z.sess[x] = w.sess[x]
      /\ z.node["c"].crashed = w.node["c"].crashed /\ z.node["c"].refused = w.node["c"].refused
      /\ z.node["c"].sessions = w.node["c"].sessions /\ z.node["c"].known = w.node["c"].known
      /\ z.sess[s].identity = w.sess[s].identity /\ z.sess[s].delay = w.sess[s].delay
      /\ \/ z.node["c"].clientSessions = w.node["c"].clientSessions
         \/ z.node["c"].clientSessions = s
      /\ \A m \in Links : m # l => z.link[m]["c"] = w.link[m]["c"]
  <2>1. /\ \A x \in Mine("c") : x # s => z.sess[x] = w.sess[x]
        /\ \A x \in Clients : x # s => z.sess[x] = w.sess[x]
    <3>1. \A x \in Sess : x # s => v.sess[x] = a.sess[x]
      BY <1>3
    <3>2. Mine("c") = Clients /\ \A x \in Clients : x \in Sess
      BY <1>0, Names
    <3>3. \A x \in Clients : x # s => z.sess[x] = w.sess[x]
      BY <3>1, <3>2
    <3> QED
      BY <3>2, <3>3
  <2>2. /\ z.node["c"].crashed = w.node["c"].crashed /\ z.node["c"].refused = w.node["c"].refused
        /\ z.node["c"].sessions = w.node["c"].sessions /\ z.node["c"].known = w.node["c"].known
        /\ \/ z.node["c"].clientSessions = w.node["c"].clientSessions
           \/ z.node["c"].clientSessions = s
    BY <1>3
  <2>3. /\ z.sess[s].identity = w.sess[s].identity /\ z.sess[s].delay = w.sess[s].delay
        /\ \A m \in Links : m # l => z.link[m]["c"] = w.link[m]["c"]
    BY <1>3
  <2> QED
    BY <2>1, <2>2, <2>3
<1>6. EndOK(z, "c")
  <2>1. CASE z.link[l]["c"].tcp = "open"
    <3>1. z.sess[s].conn = l /\ z.link[l]["c"].session = s
      BY <1>4, <2>1
    <3>2. \A m \in Links : m # l => /\ z.link[m]["c"] = w.link[m]["c"]
                                    /\ w.link[m]["c"].session # s
      BY <1>5
    <3>3. /\ w.link[l]["c"].session \in {None, s}
          /\ \/ z.node["c"].clientSessions = w.node["c"].clientSessions
             \/ "c" = "c" /\ z.node["c"].clientSessions = s
      BY <1>2, <1>5
    <3> QED
      BY <1>0, <1>1, <1>5, <2>1, <3>1, <3>2, <3>3, Opened, SMTT(40)
  <2>2. CASE z.link[l]["c"].tcp # "open"
    <3>1. \/ /\ z.link[l]["c"].tcp = "pending" /\ z.link[l]["c"].session = s
             /\ z.sess[s].connecting
          \/ /\ z.link[l]["c"].tcp = "gone" /\ z.link[l]["c"].session = None
             /\ z.sess[s].denied
      BY <1>2, <1>4, <2>2
    <3>2. z.sess[s].conn = None
      BY <1>4, <2>2
    <3>3. /\ w \in States /\ z \in States /\ s \in Clients /\ l \in Links /\ EndOK(w, "c")
          /\ w.link[l]["c"].session = None /\ w.sess[s].conn = None
          /\ z.sess[s].live /\ ~z.sess[s].timer /\ \A m \in Links : w.link[m]["c"].session # s
      BY <1>1, <1>2, <1>5
    <3> QED
      BY ONLY <1>5, <3>1, <3>2, <3>3, Tried, SMTT(40)
  <2> QED
    BY <2>1, <2>2
<1>7. EndOK(z, "s")
  <2>1. /\ z.node["s"] = w.node["s"]
        /\ \A x \in Mine("s") : z.sess[x] = w.sess[x]
    BY <1>0, <1>3
  <2>2. \A m \in Links : /\ z.link[m]["s"].session = w.link[m]["s"].session
                         /\ \/ z.link[m]["s"].tcp = w.link[m]["s"].tcp
                            \/ z.link[m]["s"].tcp \notin Held /\ w.link[m]["s"].tcp \notin Held
    <3>1. \A m \in Links : m # l => z.link[m]["s"] = w.link[m]["s"]
      BY <1>3
    <3>2. /\ z.link[l]["s"].session = w.link[l]["s"].session
          /\ z.link[l]["s"].tcp \notin Held /\ w.link[l]["s"].tcp \notin Held
      BY <1>2, <1>4 DEF Held
    <3> QED
      BY <3>1, <3>2
  <2> QED
    BY <1>0, <1>1, <2>1, <2>2, Mild
<1>8. Backlogs(z)
  BY <1>1, <1>2, <1>3, <1>4 DEF Backlogs
<1> QED
  BY <1>6, <1>7, <1>8 DEF Good

(***************************************************************************)
(* The actions.                                                            *)
(***************************************************************************)
\* ConnectHarbor closes the session that the channel has, if any, and makes another one.
LEMMA ConnectHarborKeeps ==
  ASSUME IInv, NEW s \in Clients, NEW l \in Links, NEW force \in BOOLEAN, ConnectHarbor(s, l, force)
  PROVE  IInv'
<1>a. PICK o : o = Now
  OBVIOUS
<1>0. o.node = node /\ o.sess = sess /\ o.link = link
  BY <1>a DEF Now
<1>1. /\ Good(o) /\ ~o.node["c"].crashed /\ o.sess[s] = FreshSession /\ o.link[l]["c"].tcp = "none"
      /\ s \in Sess /\ "c" \in Ends
  BY <1>a, <1>0, Names DEF IInv, ConnectHarbor, Running, Unused, Ends
<1>2. PICK p : p = o.node["c"].clientSessions
  OBVIOUS
<1>3. PICK w : /\ w \in IF p = None THEN {o} ELSE Close(o, p)
               /\ IF w.node["c"].crashed THEN Become(w)
                  ELSE \E v \in CreateNetSession([w EXCEPT !.sess[s].live = TRUE], s, l) :
                         Become([v EXCEPT !.sess[s].connecting = TRUE,
                               !.node["c"].clientSessions = IF @ = None THEN s ELSE @])
  BY <1>a, <1>0, <1>2 DEF ConnectHarbor
<1>4. Good(w) /\ w.sess[s] = FreshSession /\ w.link[l]["c"].tcp = "none"
  <2>1. CASE p = None
    BY <1>1, <1>3, <2>1
  <2>2. CASE p # None
    <3>1. o \in States /\ NodeOK(o, "c")
      BY <1>1 DEF Good, EndOK
    <3>2. p \in Clients /\ o.sess[p].live
      BY <1>1, <1>2, <2>2, <3>1, Typed DEF NodeOK, NodeFields
    <3>a. ~o.sess[s].live
      BY <1>1 DEF FreshSession
    <3>3. p # s /\ p \in Sess /\ EndOf(p) = "c" /\ w \in Close(o, p)
      BY <1>3, <2>2, <3>2, <3>a, Names
    <3>4. /\ Good(w)
          /\ \A x \in Sess : x # p => w.sess[x] = o.sess[x]
          /\ \A m \in Links : o.link[m]["c"].tcp = "none" => w.link[m] = o.link[m]
      BY <1>1, <3>3, CloseGood
    <3> QED
      BY <1>1, <3>3, <3>4
  <2> QED
    BY <2>1, <2>2
<1>5. CASE w.node["c"].crashed
  BY <1>3, <1>4, <1>5, BecomeGood
<1>6. CASE ~w.node["c"].crashed
  <2>0. w \in States /\ w.sess[s] \in SessFields
    BY <1>1, <1>4, Typed DEF Good
  <2>1. PICK a : a = [w EXCEPT !.sess[s].live = TRUE]
    OBVIOUS
  <2>2. PICK v \in CreateNetSession(a, s, l) :
          Become([v EXCEPT !.sess[s].connecting = TRUE,
                           !.node["c"].clientSessions = IF @ = None THEN s ELSE @])
    BY <1>3, <1>6, <2>1
  <2>3. PICK z : z = [v EXCEPT !.sess[s].connecting = TRUE,
                           !.node["c"].clientSessions = IF @ = None THEN s ELSE @]
    OBVIOUS
  <2>4. /\ a \in States /\ a.node = w.node /\ a.link = w.link
        /\ \A x \in Sess : x # s => a.sess[x] = w.sess[x]
        /\ a.sess[s].conn = w.sess[s].conn /\ a.sess[s].identity = w.sess[s].identity
        /\ a.sess[s].delay = w.sess[s].delay /\ a.sess[s].live
        /\ a.sess[s].timer = w.sess[s].timer
    <3> DEFINE f == w.sess[s]
    <3>1. PICK g : g = [f EXCEPT !.live = TRUE]
      OBVIOUS
    <3>2. /\ g \in SessFields /\ g.conn = f.conn /\ g.identity = f.identity /\ g.delay = f.delay
          /\ g.live /\ g.timer = f.timer
      BY <2>0, <3>1 DEF SessFields
    <3>3. a = [w EXCEPT !.sess[s] = g]
      BY <2>0, <2>1, <3>1 DEF States
    <3>4. /\ a \in States /\ a.node = w.node /\ a.link = w.link /\ a.sess[s] = g
          /\ \A x \in Sess : x # s => a.sess[x] = w.sess[x]
      BY <1>1, <2>0, <3>2, <3>3 DEF States
    <3> QED
      BY <3>2, <3>4
  <2>5. w.sess[s].conn = None /\ ~w.sess[s].live /\ ~w.sess[s].timer
    BY <1>4 DEF FreshSession
  <2>6. \A m \in Links : w.link[m]["c"].session # s
    <3>1. \A m \in Links : LinkOK(w, "c", m)
      BY <1>4, <1>6 DEF Good, EndOK
    <3> QED
      BY <3>1, <2>5, Names DEF LinkOK
  <2>7. /\ v \in States /\ v.sess[s].live = a.sess[s].live /\ v.sess[s].timer = a.sess[s].timer
        /\ v.sess[s] \in SessFields /\ v.node["c"] \in NodeFields
    <3>1. v \in States /\ v.sess[s].live = a.sess[s].live /\ v.sess[s].timer = a.sess[s].timer
      BY <2>2, <2>4, CreateReturns
    <3> QED
      BY <1>1, <3>1, Typed
  <2>8. /\ z \in States /\ z.link = v.link /\ z.node["s"] = v.node["s"]
        /\ \A x \in Sess : x # s => z.sess[x] = v.sess[x]
        /\ z.sess[s].conn = v.sess[s].conn /\ z.sess[s].identity = v.sess[s].identity
        /\ z.sess[s].delay = v.sess[s].delay /\ z.sess[s].denied = v.sess[s].denied
        /\ z.sess[s].live = v.sess[s].live /\ z.sess[s].timer = v.sess[s].timer
        /\ z.sess[s].connecting
        /\ z.node["c"].crashed = v.node["c"].crashed /\ z.node["c"].refused = v.node["c"].refused
        /\ z.node["c"].sessions = v.node["c"].sessions /\ z.node["c"].known = v.node["c"].known
        /\ \/ z.node["c"].clientSessions = v.node["c"].clientSessions
           \/ z.node["c"].clientSessions = s
    <3> DEFINE f == v.sess[s]
               n == v.node["c"]
    <3>1. PICK q : q = IF n.clientSessions = None THEN s ELSE n.clientSessions
      OBVIOUS
    <3>2. PICK g, k : g = [f EXCEPT !.connecting = TRUE] /\ k = [n EXCEPT !.clientSessions = q]
      OBVIOUS
    <3>3. /\ g \in SessFields /\ g.conn = f.conn /\ g.identity = f.identity /\ g.delay = f.delay
          /\ g.denied = f.denied /\ g.live = f.live /\ g.timer = f.timer /\ g.connecting
      BY <2>7, <3>2 DEF SessFields
    <3>4. /\ k \in NodeFields /\ k.clientSessions = q /\ k.crashed = n.crashed
          /\ k.refused = n.refused /\ k.sessions = n.sessions /\ k.known = n.known
      BY <2>7, <3>1, <3>2 DEF NodeFields
    <3>5. z = [v EXCEPT !.sess[s] = g, !.node["c"] = k]
      BY <2>3, <2>7, <3>1, <3>2 DEF States
    <3>6. /\ z \in States /\ z.link = v.link /\ z.sess[s] = g /\ z.node["c"] = k
          /\ z.node["s"] = v.node["s"]
          /\ \A x \in Sess : x # s => z.sess[x] = v.sess[x]
      BY <1>1, <2>7, <3>3, <3>4, <3>5 DEF States, Ends
    <3> QED
      BY <3>1, <3>3, <3>4, <3>6
  <2>9. Good(z)
    <3>1. /\ Good(w) /\ ~w.node["c"].crashed /\ w.link[l]["c"].tcp = "none" /\ w.sess[s].conn = None
      BY <1>4, <1>6, <2>5
    <3>2. Prepared(w, a, s)
      BY <2>4, <2>5 DEF Prepared
    <3>3. z.sess[s].live /\ ~z.sess[s].timer
      BY <2>4, <2>5, <2>7, <2>8
    <3>4. Completed(a, v, z, s)
      BY <2>8, <3>3 DEF Completed
    <3> QED
      BY <3>1, <3>2, <3>4, <2>2, <2>6, CreateGood
  <2> QED
    BY <2>2, <2>3, <2>9, BecomeGood
<1> QED
  BY <1>5, <1>6

\* DisconnectHarbor closes the session of the channel.
LEMMA DisconnectHarborKeeps ==
  ASSUME IInv, DisconnectHarbor
  PROVE  IInv'
<1>a. PICK o : o = Now
  OBVIOUS
<1>0. o.node = node /\ o.sess = sess /\ o.link = link
  BY <1>a DEF Now
<1>1. PICK p : p = o.node["c"].clientSessions
  OBVIOUS
<1>2. Good(o) /\ o \in States /\ ~o.node["c"].crashed /\ p # None /\ "c" \in Ends
  BY <1>a, <1>0, <1>1 DEF IInv, Good, DisconnectHarbor, Running, Ends
<1>3. PICK w \in Close(o, p) : Become(w)
  BY <1>a, <1>0, <1>1 DEF DisconnectHarbor
<1>4. p \in Sess /\ EndOf(p) = "c"
  BY <1>1, <1>2, Typed, Names DEF NodeFields
<1>5. Good(w)
  BY <1>2, <1>3, <1>4, CloseGood
<1> QED
  BY <1>3, <1>5, BecomeGood

\* The reconnect timer of a session that has no connection.
LEMMA ReConnectTimeKeeps ==
  ASSUME IInv, NEW s \in Clients, NEW l \in Links, ReConnectTime(s, l)
  PROVE  IInv'
<1>a. PICK o : o = Now
  OBVIOUS
<1>0. o.node = node /\ o.sess = sess /\ o.link = link
  BY <1>a DEF Now
<1>1. /\ Good(o) /\ o \in States /\ ~o.node["c"].crashed /\ o.sess[s].timer
      /\ o.link[l]["c"].tcp = "none" /\ s \in Sess /\ s # None /\ "c" \in Ends
  BY <1>a, <1>0, Names DEF IInv, Good, ReConnectTime, Running, Unused, Ends
<1>2. (\A m \in Links : LinkOK(o, "c", m)) /\ SessOK(o, "c", s) /\ o.sess[s] \in SessFields
  BY <1>1, Typed, Names DEF Good, EndOK
<1>3. \A m \in Links : o.link[m]["c"].session # s
  BY <1>1, <1>2 DEF LinkOK
<1>4. o.sess[s].live /\ o.sess[s].conn = None
  <2>1. o.sess[s].live /\ (o.sess[s].conn # None => o.link[o.sess[s].conn]["c"].session = s)
    BY <1>1, <1>2 DEF SessOK
  <2>2. o.sess[s].conn \in Links \cup {None}
    BY <1>2 DEF SessFields
  <2> QED
    BY <1>3, <2>1, <2>2
<1>5. PICK a : a = [o EXCEPT !.sess[s].connecting = TRUE]
  OBVIOUS
<1>6. PICK v \in CreateNetSession(a, s, l) : Become([v EXCEPT !.sess[s].timer = FALSE])
  BY <1>a, <1>5 DEF ReConnectTime
<1>7. PICK z : z = [v EXCEPT !.sess[s].timer = FALSE]
  OBVIOUS
<1>8. /\ a \in States /\ a.node = o.node /\ a.link = o.link
      /\ \A x \in Sess : x # s => a.sess[x] = o.sess[x]
      /\ a.sess[s].conn = None /\ a.sess[s].identity = o.sess[s].identity
      /\ a.sess[s].delay = o.sess[s].delay /\ a.sess[s].live /\ a.sess[s].connecting
  <2> DEFINE f == o.sess[s]
  <2>1. PICK g : g = [f EXCEPT !.connecting = TRUE]
    OBVIOUS
  <2>2. /\ g \in SessFields /\ g.conn = f.conn /\ g.identity = f.identity /\ g.delay = f.delay
        /\ g.live = f.live /\ g.connecting
    BY <1>2, <2>1 DEF SessFields
  <2>3. a = [o EXCEPT !.sess[s] = g]
    BY <1>1, <1>5, <2>1 DEF States
  <2>4. /\ a \in States /\ a.node = o.node /\ a.link = o.link /\ a.sess[s] = g
        /\ \A x \in Sess : x # s => a.sess[x] = o.sess[x]
    BY <1>1, <2>2, <2>3 DEF States
  <2> QED
    BY <1>4, <2>2, <2>4
<1>9. v \in States /\ v.sess[s].live = a.sess[s].live /\ v.sess[s] \in SessFields
  <2>1. v \in States /\ v.sess[s].live = a.sess[s].live
    BY <1>6, <1>8, CreateReturns
  <2> QED
    BY <1>1, <2>1, Typed
<1>10. /\ z \in States /\ z.link = v.link /\ z.node = v.node
       /\ \A x \in Sess : x # s => z.sess[x] = v.sess[x]
       /\ z.sess[s].conn = v.sess[s].conn /\ z.sess[s].identity = v.sess[s].identity
       /\ z.sess[s].delay = v.sess[s].delay /\ z.sess[s].denied = v.sess[s].denied
       /\ z.sess[s].live = v.sess[s].live /\ z.sess[s].connecting = v.sess[s].connecting
       /\ ~z.sess[s].timer
  <2> DEFINE f == v.sess[s]
  <2>1. PICK g : g = [f EXCEPT !.timer = FALSE]
    OBVIOUS
  <2>2. /\ g \in SessFields /\ g.conn = f.conn /\ g.identity = f.identity /\ g.delay = f.delay
        /\ g.denied = f.denied /\ g.live = f.live /\ g.connecting = f.connecting /\ ~g.timer
    BY <1>9, <2>1 DEF SessFields
  <2>3. z = [v EXCEPT !.sess[s] = g]
    BY <1>7, <1>9, <2>1 DEF States
  <2>4. /\ z \in States /\ z.node = v.node /\ z.link = v.link /\ z.sess[s] = g
        /\ \A x \in Sess : x # s => z.sess[x] = v.sess[x]
    BY <1>1, <1>9, <2>2, <2>3 DEF States
  <2> QED
    BY <2>2, <2>4
<1>11. Good(z)
  <2>1. z.sess[s].live
    BY <1>8, <1>9, <1>10
  <2>2. Prepared(o, a, s)
    BY <1>8 DEF Prepared
  <2>3. Completed(a, v, z, s)
    BY <1>8, <1>10, <2>1 DEF Completed
  <2> QED
    BY <1>1, <1>3, <1>4, <1>6, <2>2, <2>3, CreateGood
<1> QED
  BY <1>6, <1>7, <1>11, BecomeGood

\* What TcpConnection::Init leaves in the connection and in its session.
LEMMA AttachReturns ==
  ASSUME NEW w \in States, NEW l \in Links, NEW e \in Ends, NEW s \in Sess, NEW v,
         v = Attach(w, l, e, s)
  PROVE  /\ v \in States /\ v.node = w.node
         /\ \A x \in Sess : x # s => v.sess[x] = w.sess[x]
         /\ \A m \in Links : m # l => v.link[m] = w.link[m]
         /\ \A d \in Ends : d # e => v.link[l][d] = w.link[l][d]
         /\ v.link[l][e].session = s /\ v.link[l][e].tcp = "open"
         /\ v.sess[s].conn = l /\ v.sess[s].live = w.sess[s].live /\ v.sess[s].timer = w.sess[s].timer
         /\ v.sess[s].identity = w.sess[s].identity /\ v.sess[s].delay = w.sess[s].delay
<1> DEFINE f == w.sess[s]
           c == w.link[l][e]
<1>1. f \in SessFields /\ c \in EndFields
  BY Typed
<1>2. PICK g, k : g = [f EXCEPT !.conn = l] /\ k = [c EXCEPT !.tcp = "open", !.session = s]
  OBVIOUS
<1>3. /\ g \in SessFields /\ g.conn = l /\ g.live = f.live /\ g.timer = f.timer
      /\ g.identity = f.identity /\ g.delay = f.delay
  BY <1>1, <1>2 DEF SessFields
<1>4. k \in EndFields /\ k.session = s /\ k.tcp = "open"
  BY <1>1, <1>2 DEF EndFields
<1>5. /\ v.node = w.node /\ v.sess = [w.sess EXCEPT ![s].conn = l]
      /\ v.link = [w.link EXCEPT ![l][e].tcp = "open", ![l][e].session = s]
      /\ v = [node |-> v.node, sess |-> v.sess, link |-> v.link]
  BY DEF Attach, States
<1>6. v.sess = [w.sess EXCEPT ![s] = g] /\ v.link = [w.link EXCEPT ![l][e] = k]
  BY <1>2, <1>5 DEF States
<1>7. /\ v.sess \in [Sess -> SessFields] /\ v.sess[s] = g
      /\ \A x \in Sess : x # s => v.sess[x] = w.sess[x]
  BY <1>3, <1>6 DEF States
<1>8. /\ v.link \in [Links -> [Ends -> EndFields]] /\ v.link[l][e] = k
      /\ \A m \in Links : m # l => v.link[m] = w.link[m]
      /\ \A d \in Ends : d # e => v.link[l][d] = w.link[l][d]
  BY <1>4, <1>6 DEF States
<1>9. v \in States
  BY <1>5, <1>7, <1>8 DEF States
<1> QED
  BY <1>3, <1>4, <1>5, <1>7, <1>8, <1>9

\* A change of one end of a connection.
SetEnd(w, l, e, k) == [w EXCEPT !.link[l][e] = k]

LEMMA EndReturns ==
  ASSUME NEW w \in States, NEW l \in Links, NEW e \in Ends, NEW k \in EndFields, NEW v,
         v = SetEnd(w, l, e, k)
  PROVE  /\ v \in States /\ v.node = w.node /\ v.sess = w.sess /\ v.link[l][e] = k
         /\ \A m \in Links : m # l => v.link[m] = w.link[m]
         /\ \A d \in Ends : d # e => v.link[l][d] = w.link[l][d]
<1>1. /\ v.node = w.node /\ v.sess = w.sess /\ v.link = [w.link EXCEPT ![l][e] = k]
      /\ v = [node |-> v.node, sess |-> v.sess, link |-> v.link]
  BY DEF SetEnd, States
<1>2. /\ v.link \in [Links -> [Ends -> EndFields]] /\ v.link[l][e] = k
      /\ \A m \in Links : m # l => v.link[m] = w.link[m]
      /\ \A d \in Ends : d # e => v.link[l][d] = w.link[l][d]
  BY <1>1 DEF States
<1>3. v \in States
  BY <1>1, <1>2 DEF States
<1> QED
  BY <1>1, <1>2, <1>3

\* A connect in progress succeeds: its session gets the connection, the peer a backlog entry.
LEMMA OnConnectKeeps ==
  ASSUME IInv, NEW l \in Links, OnConnect(l)
  PROVE  IInv'
<1>a. PICK o : o = Now
  OBVIOUS
<1>0. o.node = node /\ o.sess = sess /\ o.link = link
  BY <1>a DEF Now
<1>1. /\ Good(o) /\ o \in States /\ ~o.node["c"].crashed /\ o.link[l]["c"].tcp = "pending"
      /\ "c" \in Ends /\ "s" \in Ends
  BY <1>a, <1>0 DEF IInv, Good, OnConnect, Running, Ends
<1>2. PICK s : s = o.link[l]["c"].session
  OBVIOUS
<1>3. PICK a : a = Attach(o, l, "c", s)
  OBVIOUS
<1>4. PICK v : v = [a EXCEPT !.link[l]["s"].tcp = "backlog"]
  OBVIOUS
<1>5. Become(v)
  BY <1>a, <1>0, <1>2, <1>3, <1>4 DEF OnConnect
<1>6. LinkOK(o, "c", l) /\ Mine("c") = Clients /\ Mine("s") = Links
  BY <1>1, Names DEF Good, EndOK
<1>7. /\ s \in Clients /\ o.sess[s].live /\ ~o.sess[s].timer /\ o.sess[s].conn = None
      /\ \A m \in Links : m # l => o.link[m]["c"].session # s
  BY <1>1, <1>2, <1>6 DEF LinkOK, Held
<1>8. s \in Sess /\ s \in Mine("c") /\ \A x \in Links : x \in Sess /\ x # s
  BY <1>6, <1>7, Names
<1>9. /\ a \in States /\ a.node = o.node
      /\ \A x \in Sess : x # s => a.sess[x] = o.sess[x]
      /\ \A m \in Links : m # l => a.link[m] = o.link[m]
      /\ \A d \in Ends : d # "c" => a.link[l][d] = o.link[l][d]
      /\ a.link[l]["c"].session = s /\ a.link[l]["c"].tcp = "open"
      /\ a.sess[s].conn = l /\ a.sess[s].live = o.sess[s].live /\ a.sess[s].timer = o.sess[s].timer
      /\ a.sess[s].identity = o.sess[s].identity /\ a.sess[s].delay = o.sess[s].delay
  <2>1. o \in States /\ "c" \in Ends /\ s \in Sess
    BY <1>1, <1>8
  <2> QED
    BY <1>3, <2>1, AttachReturns
<1>10. /\ v \in States /\ v.node = a.node /\ v.sess = a.sess
       /\ \A m \in Links : m # l => v.link[m] = a.link[m]
       /\ v.link[l]["c"] = a.link[l]["c"]
       /\ v.link[l]["s"].tcp = "backlog" /\ v.link[l]["s"].session = a.link[l]["s"].session
  <2>1. a.link[l]["s"] \in EndFields
    BY <1>1, <1>9, Typed
  <2>2. PICK k : k = [a.link[l]["s"] EXCEPT !.tcp = "backlog"]
    OBVIOUS
  <2>3. k \in EndFields /\ k.tcp = "backlog" /\ k.session = a.link[l]["s"].session
    BY <2>1, <2>2 DEF EndFields
  <2>4. v = SetEnd(a, l, "s", k)
    BY <1>4, <1>9, <2>2 DEF SetEnd, States
  <2>5. a \in States /\ "s" \in Ends /\ k \in EndFields
    BY <1>1, <1>9, <2>3
  <2>6. /\ v \in States /\ v.node = a.node /\ v.sess = a.sess /\ v.link[l]["s"] = k
        /\ \A m \in Links : m # l => v.link[m] = a.link[m]
        /\ \A d \in Ends : d # "s" => v.link[l][d] = a.link[l][d]
    BY <2>4, <2>5, EndReturns
  <2> QED
    BY <1>1, <2>3, <2>6
<1>11. EndOK(v, "c")
  <2>1. EndOK(o, "c") /\ ("c" = "s" => s = l)
    BY <1>1 DEF Good
  <2>2. /\ \A x \in Mine("c") : x # s => v.sess[x] = o.sess[x]
        /\ \A m \in Links : m # l => /\ v.link[m]["c"] = o.link[m]["c"]
                                     /\ o.link[m]["c"].session # s
    BY <1>7, <1>9, <1>10, Names DEF Ends
  <2>3. /\ o.link[l]["c"].session \in {None, s} /\ o.sess[s].conn = None
        /\ v.link[l]["c"].session = s /\ v.link[l]["c"].tcp = "open"
        /\ v.sess[s].conn = l /\ v.sess[s].live /\ ~v.sess[s].timer
        /\ v.sess[s].identity = o.sess[s].identity /\ v.sess[s].delay = o.sess[s].delay
        /\ v.node["c"] = o.node["c"]
    BY <1>2, <1>7, <1>9, <1>10
  <2> QED
    BY <1>1, <1>8, <1>10, <2>1, <2>2, <2>3, Opened, SMTT(40)
<1>12. o.link[l]["s"].tcp = "none" /\ Backlogs(v)
  BY <1>1, <1>9, <1>10 DEF Good, Backlogs
<1>13. EndOK(v, "s")
  <2>1. EndOK(o, "s") /\ v.node["s"] = o.node["s"] /\ \A x \in Mine("s") : v.sess[x] = o.sess[x]
    BY <1>1, <1>6, <1>8, <1>9, <1>10 DEF Good
  <2>2. \A m \in Links : /\ v.link[m]["s"].session = o.link[m]["s"].session
                         /\ \/ v.link[m]["s"].tcp = o.link[m]["s"].tcp
                            \/ v.link[m]["s"].tcp \notin Held /\ o.link[m]["s"].tcp \notin Held
    <3>1. \A m \in Links : m # l => v.link[m]["s"] = o.link[m]["s"]
      BY <1>9, <1>10
    <3>2. /\ v.link[l]["s"].session = o.link[l]["s"].session
          /\ v.link[l]["s"].tcp \notin Held /\ o.link[l]["s"].tcp \notin Held
      BY <1>1, <1>9, <1>10, <1>12 DEF Held
    <3> QED
      BY <3>1, <3>2
  <2> QED
    BY <1>1, <1>10, <2>1, <2>2, Mild
<1>14. Good(v)
  BY <1>10, <1>11, <1>12, <1>13 DEF Good
<1> QED
  BY <1>5, <1>14, BecomeGood

\* The session that OnAccept makes takes the connection from the backlog.
LEMMA OnAcceptKeeps ==
  ASSUME IInv, NEW l \in Links, OnAccept(l)
  PROVE  IInv'
<1>a. PICK o : o = Now
  OBVIOUS
<1>0. o.node = node /\ o.sess = sess /\ o.link = link
  BY <1>a DEF Now
<1>1. /\ Good(o) /\ o \in States /\ ~o.node["s"].crashed /\ o.link[l]["s"].tcp = "backlog"
      /\ "c" \in Ends /\ "s" \in Ends /\ l \in Sess /\ l \in Mine("s")
  BY <1>a, <1>0, Names DEF IInv, Good, OnAccept, Running, Ends
<1>2. PICK a : a = [o EXCEPT !.sess[l].live = TRUE]
  OBVIOUS
<1>3. PICK v : v = Attach(a, l, "s", l)
  OBVIOUS
<1>4. Become(v)
  BY <1>a, <1>2, <1>3 DEF OnAccept
<1>5. /\ a \in States /\ a.node = o.node /\ a.link = o.link
      /\ \A x \in Sess : x # l => a.sess[x] = o.sess[x]
      /\ a.sess[l].timer = o.sess[l].timer /\ a.sess[l].identity = o.sess[l].identity
      /\ a.sess[l].delay = o.sess[l].delay /\ a.sess[l].live
  <2> DEFINE f == o.sess[l]
  <2>0. f \in SessFields
    BY <1>1, Typed
  <2>1. PICK g : g = [f EXCEPT !.live = TRUE]
    OBVIOUS
  <2>2. /\ g \in SessFields /\ g.timer = f.timer /\ g.identity = f.identity /\ g.delay = f.delay
        /\ g.live
    BY <2>0, <2>1 DEF SessFields
  <2>3. a = [o EXCEPT !.sess[l] = g]
    BY <1>1, <1>2, <2>1 DEF States
  <2>4. /\ a \in States /\ a.node = o.node /\ a.link = o.link /\ a.sess[l] = g
        /\ \A x \in Sess : x # l => a.sess[x] = o.sess[x]
    BY <1>1, <2>2, <2>3 DEF States
  <2> QED
    BY <2>2, <2>4
<1>6. /\ v \in States /\ v.node = a.node
      /\ \A x \in Sess : x # l => v.sess[x] = a.sess[x]
      /\ \A m \in Links : m # l => v.link[m] = a.link[m]
      /\ \A d \in Ends : d # "s" => v.link[l][d] = a.link[l][d]
      /\ v.link[l]["s"].session = l /\ v.link[l]["s"].tcp = "open"
      /\ v.sess[l].conn = l /\ v.sess[l].live = a.sess[l].live /\ v.sess[l].timer = a.sess[l].timer
      /\ v.sess[l].identity = a.sess[l].identity /\ v.sess[l].delay = a.sess[l].delay
  <2>1. a \in States /\ "s" \in Ends /\ l \in Sess
    BY <1>1, <1>5
  <2> QED
    BY <1>3, <2>1, AttachReturns
<1>7. /\ EndOK(o, "s") /\ EndOK(o, "c") /\ (\A m \in Links : LinkOK(o, "s", m))
      /\ SessOK(o, "s", l)
  BY <1>1 DEF Good, EndOK
<1>8. o.link[l]["s"].session = None /\ \A m \in Links : o.link[m]["s"].session # l
  <2>1. o.link[l]["s"].session = None
    BY <1>1, <1>7 DEF LinkOK, Held
  <2>2. \A m \in Links : o.link[m]["s"].session = l => m = l
    BY <1>7, Names DEF LinkOK
  <2> QED
    BY <2>1, <2>2, Names
<1>9. o.sess[l].conn = None /\ ~o.sess[l].timer
  <2>1. o.sess[l].conn \in Links \cup {None}
    BY <1>1, Typed DEF SessFields
  <2> QED
    BY <1>7, <1>8, <2>1 DEF SessOK
<1>10. EndOK(v, "s")
  <2>1. /\ \A x \in Mine("s") : x # l => v.sess[x] = o.sess[x]
        /\ \A m \in Links : m # l => /\ v.link[m]["s"] = o.link[m]["s"]
                                     /\ o.link[m]["s"].session # l
    BY <1>5, <1>6, <1>8, Names
  <2>2. /\ o.link[l]["s"].session \in {None, l}
        /\ v.sess[l].live /\ ~v.sess[l].timer
        /\ v.sess[l].identity = o.sess[l].identity /\ v.sess[l].delay = o.sess[l].delay
        /\ v.node["s"] = o.node["s"]
    BY <1>5, <1>6, <1>8, <1>9
  <2>3. /\ v \in States /\ v.link[l]["s"].session = l /\ v.link[l]["s"].tcp = "open"
        /\ v.sess[l].conn = l
    BY <1>6
  <2> QED
    BY <1>1, <1>7, <1>9, <2>1, <2>2, <2>3, Opened
<1>11. EndOK(v, "c")
  <2>1. /\ v.node["c"] = o.node["c"] /\ \A x \in Mine("c") : v.sess[x] = o.sess[x]
        /\ \A m \in Links : v.link[m]["c"] = o.link[m]["c"]
    BY <1>1, <1>5, <1>6, Names
  <2> QED
    BY <1>1, <1>6, <1>7, <2>1, Mild
<1>12. Backlogs(v)
  BY <1>1, <1>5, <1>6 DEF Good, Backlogs
<1>13. Good(v)
  BY <1>6, <1>10, <1>11, <1>12 DEF Good
<1> QED
  BY <1>4, <1>13, BecomeGood

\* A step of one end that leaves the other one as it is.
LEMMA OneEnd ==
  ASSUME NEW w, Good(w), NEW v \in States, NEW e \in Ends, EndOK(v, e),
         \A d \in Ends : d # e =>
           /\ v.node[d] = w.node[d]
           /\ \A x \in Mine(d) : v.sess[x] = w.sess[x]
           /\ \A m \in Links : /\ v.link[m][d].session = w.link[m][d].session
                               /\ v.link[m][d].tcp = w.link[m][d].tcp,
         \A m \in Links : v.link[m][e].tcp = w.link[m][e].tcp \/ w.link[m][e].tcp # "none",
         \A m \in Links : v.link[m][e].tcp # w.link[m][e].tcp => v.link[m][e].tcp \notin {"none", "pending"}
  PROVE  Good(v)
<1>1. w \in States /\ Backlogs(w) /\ \A d \in Ends : EndOK(w, d)
  BY GoodEnds
<1>2. ASSUME NEW d \in Ends PROVE EndOK(v, d)
  <2>1. CASE d = e
    BY <2>1
  <2>2. CASE d # e
    BY <1>1, <2>2, Mild
  <2> QED
    BY <2>1, <2>2
<1>3. Backlogs(v)
  <2> SUFFICES ASSUME NEW m \in Links, v.link[m]["c"].tcp \in {"none", "pending"}
               PROVE  v.link[m]["s"].tcp = "none"
    BY DEF Backlogs
  <2>1. w.link[m]["c"].tcp \in {"none", "pending"} => w.link[m]["s"].tcp = "none"
    BY <1>1 DEF Backlogs
  <2>2. CASE e = "c"
    BY <2>1, <2>2 DEF Ends
  <2>3. CASE e = "s"
    BY <2>1, <2>3 DEF Ends
  <2> QED
    BY <2>2, <2>3 DEF Ends
<1> QED
  BY <1>2, <1>3, GoodEnds

\* A change of a connection that leaves its state and its session alone.
LEMMA EndGood ==
  ASSUME NEW w, Good(w), NEW l \in Links, NEW e \in Ends, NEW k \in EndFields, NEW v,
         v = SetEnd(w, l, e, k), k.session = w.link[l][e].session, k.tcp = w.link[l][e].tcp
  PROVE  Good(v)
<1>1. w \in States /\ Backlogs(w) /\ \A d \in Ends : EndOK(w, d)
  BY GoodEnds
<1>2. w \in States
  BY <1>1
<1>3. /\ v \in States /\ v.node = w.node /\ v.sess = w.sess /\ v.link[l][e] = k
      /\ \A m \in Links : m # l => v.link[m] = w.link[m]
      /\ \A d \in Ends : d # e => v.link[l][d] = w.link[l][d]
  BY <1>2, EndReturns
<1>4. \A m \in Links, d \in Ends : /\ v.link[m][d].session = w.link[m][d].session
                                   /\ v.link[m][d].tcp = w.link[m][d].tcp
  BY <1>3
<1>5. ASSUME NEW d \in Ends PROVE EndOK(v, d)
  BY <1>1, <1>3, <1>4, Mild
<1>6. Backlogs(v)
  BY <1>1, <1>4 DEF Backlogs, Ends
<1> QED
  BY <1>3, <1>5, <1>6, GoodEnds

\* The end of a connection that had, or no longer has, a session.
LEMMA OnTerminateKeeps ==
  ASSUME IInv, NEW l \in Links, NEW e \in Ends, OnTerminate(l, e)
  PROVE  IInv'
<1>a. PICK o : o = Now
  OBVIOUS
<1>0. o.node = node /\ o.sess = sess /\ o.link = link
  BY <1>a DEF Now
<1>1. Good(o) /\ ~o.node[e].crashed /\ o.link[l][e].tcp \in {"open", "closing"}
  BY <1>a, <1>0 DEF IInv, OnTerminate, Running
<1>2. PICK w \in Detach(o, l, e, "gone") : Become(w)
  BY <1>a DEF OnTerminate
<1>3. Good(w)
  BY <1>1, <1>2, DetachGood
<1> QED
  BY <1>2, <1>3, BecomeGood

\* A failed connect starts the reconnect timer, or ends a session that was closed meanwhile.
LEMMA OnConnectFailedKeeps ==
  ASSUME IInv, NEW l \in Links, OnConnectFailed(l)
  PROVE  IInv'
<1>a. PICK o : o = Now
  OBVIOUS
<1>0. o.node = node /\ o.sess = sess /\ o.link = link
  BY <1>a DEF Now
<1>1. /\ Good(o) /\ o \in States /\ ~o.node["c"].crashed /\ o.link[l]["c"].tcp = "pending"
      /\ "c" \in Ends /\ "s" \in Ends
  BY <1>a, <1>0 DEF IInv, Good, OnConnectFailed, Running, Ends
<1>2. PICK s : s = o.link[l]["c"].session
  OBVIOUS
<1>3. PICK w : w = [o EXCEPT !.link[l]["c"].tcp = "gone", !.link[l]["c"].session = None,
                             !.sess[s].connecting = FALSE]
  OBVIOUS
<1>4. PICK v : v = OnRelease(w, s)
  OBVIOUS
<1>5. Become(v)
  BY <1>a, <1>0, <1>2, <1>3, <1>4 DEF OnConnectFailed
<1>6. EndOK(o, "c") /\ LinkOK(o, "c", l) /\ \A x \in Clients : SessOK(o, "c", x)
  BY <1>1, Names DEF Good, EndOK
<1>7. /\ s \in Clients /\ o.sess[s].live /\ ~o.sess[s].timer /\ o.sess[s].conn = None
      /\ \A m \in Links : m # l => o.link[m]["c"].session # s
  BY <1>1, <1>2, <1>6, Names DEF LinkOK, Held
<1>8. /\ s \in Sess /\ s \in Mine("c") /\ s \notin Links /\ s # None /\ ~o.sess[s].identity
      /\ o.sess[s] \in SessFields /\ o.link[l]["c"] \in EndFields
  BY <1>1, <1>6, <1>7, Names, Typed DEF SessOK
<1>9. /\ w \in States /\ w.node = o.node
      /\ \A x \in Sess : x # s => w.sess[x] = o.sess[x]
      /\ \A m \in Links : m # l => w.link[m] = o.link[m]
      /\ w.link[l]["s"] = o.link[l]["s"]
      /\ w.link[l]["c"].session = None /\ w.link[l]["c"].tcp = "gone"
      /\ w.sess[s].conn = None /\ ~w.sess[s].identity /\ w.sess[s].delay = o.sess[s].delay
      /\ w.sess[s].live /\ ~w.sess[s].timer
  <2> DEFINE f == o.sess[s]
             c == o.link[l]["c"]
  <2>1. PICK g, k : /\ g = [f EXCEPT !.connecting = FALSE]
                    /\ k = [c EXCEPT !.tcp = "gone", !.session = None]
    OBVIOUS
  <2>2. /\ g \in SessFields /\ g.conn = f.conn /\ g.identity = f.identity /\ g.delay = f.delay
        /\ g.live = f.live /\ g.timer = f.timer
    BY <1>8, <2>1 DEF SessFields
  <2>3. k \in EndFields /\ k.session = None /\ k.tcp = "gone"
    BY <1>8, <2>1 DEF EndFields
  <2>4. /\ w.node = o.node /\ w.sess = [o.sess EXCEPT ![s].connecting = FALSE]
        /\ w.link = [o.link EXCEPT ![l]["c"].tcp = "gone", ![l]["c"].session = None]
        /\ w = [node |-> w.node, sess |-> w.sess, link |-> w.link]
    BY <1>1, <1>3 DEF States
  <2>5. w.sess = [o.sess EXCEPT ![s] = g] /\ w.link = [o.link EXCEPT ![l]["c"] = k]
    BY <1>1, <2>1, <2>4 DEF States
  <2>6. /\ w.sess \in [Sess -> SessFields] /\ w.sess[s] = g
        /\ \A x \in Sess : x # s => w.sess[x] = o.sess[x]
    BY <1>1, <1>8, <2>2, <2>5 DEF States
  <2>7. /\ w.link \in [Links -> [Ends -> EndFields]] /\ w.link[l]["c"] = k
        /\ \A m \in Links : m # l => w.link[m] = o.link[m]
        /\ w.link[l]["s"] = o.link[l]["s"]
    BY <1>1, <2>3, <2>5 DEF States
  <2>8. w \in States
    BY <1>1, <2>4, <2>6, <2>7 DEF States
  <2> QED
    BY <1>7, <1>8, <2>2, <2>3, <2>4, <2>6, <2>7, <2>8
<1>10. /\ v \in States /\ v.link = w.link
       /\ \A x \in Sess : x # s => v.sess[x] = w.sess[x]
       /\ v.sess[s].conn = w.sess[s].conn /\ v.sess[s].identity = w.sess[s].identity
       /\ v.sess[s].delay = w.sess[s].delay
       /\ v.node["s"] = w.node["s"]
       /\ v.node["c"].crashed = w.node["c"].crashed /\ v.node["c"].refused = w.node["c"].refused
       /\ v.node["c"].sessions = w.node["c"].sessions /\ v.node["c"].known = w.node["c"].known
       /\ \/ /\ v.node["c"].clientSessions = None /\ ~v.sess[s].timer
             /\ ~v.sess[s].live \/ v.sess[s].active
          \/ /\ v.node = w.node /\ v.sess[s].live = w.sess[s].live /\ v.sess[s].timer
  <2>1. w \in States /\ s \in Sess
    BY <1>8, <1>9
  <2> QED
    BY <1>4, <1>7, <2>1, ReleaseReturns
<1>11. EndOK(v, "c")
  <2>1. \A x \in Mine("c") : x # s => v.sess[x] = o.sess[x]
    BY <1>9, <1>10, Names DEF Ends
  <2>2. \A m \in Links :
          IF o.link[m]["c"].session = s
          THEN v.link[m]["c"].session = None /\ v.link[m]["c"].tcp \notin Held
          ELSE v.link[m]["c"].session = o.link[m]["c"].session /\ v.link[m]["c"].tcp = o.link[m]["c"].tcp
    BY <1>2, <1>7, <1>9, <1>10 DEF Held
  <2>3. /\ v.sess[s].conn = None /\ ~v.sess[s].identity
        /\ v.sess[s].delay = IF o.sess[s].identity THEN "null" ELSE o.sess[s].delay
        /\ v.node["c"].crashed = o.node["c"].crashed /\ v.node["c"].refused = o.node["c"].refused
        /\ v.node["c"].sessions = IF o.sess[s].identity THEN None ELSE o.node["c"].sessions
        /\ v.node["c"].known = IF o.sess[s].identity THEN FALSE ELSE o.node["c"].known
    BY <1>8, <1>9, <1>10
  <2>4. \/ /\ v.node["c"].clientSessions = None
           /\ ~v.sess[s].timer
           /\ ~v.sess[s].live \/ v.sess[s].active
        \/ /\ v.node["c"].clientSessions = o.node["c"].clientSessions
           /\ IF "c" = "c" THEN v.sess[s].live /\ v.sess[s].timer ELSE ~v.sess[s].timer
    BY <1>9, <1>10
  <2>5. v \in States /\ o \in States /\ "c" \in Ends /\ s \in Mine("c") /\ EndOK(o, "c")
    BY <1>1, <1>6, <1>8, <1>10
  <2> QED
    BY <2>1, <2>2, <2>3, <2>4, <2>5, Released, ZenonT(40)
<1>12. Good(v)
  <2>1. \A d \in Ends : d # "c" =>
           /\ v.node[d] = o.node[d]
           /\ \A x \in Mine(d) : v.sess[x] = o.sess[x]
           /\ \A m \in Links : /\ v.link[m][d].session = o.link[m][d].session
                               /\ v.link[m][d].tcp = o.link[m][d].tcp
    BY <1>7, <1>8, <1>9, <1>10, Names DEF Ends
  <2>2. \A m \in Links : m # l => v.link[m]["c"].tcp = o.link[m]["c"].tcp
    BY <1>9, <1>10
  <2>3. v.link[l]["c"].tcp = "gone"
    BY <1>9, <1>10
  <2> QED
    BY <1>1, <1>10, <1>11, <2>1, <2>2, <2>3, OneEnd
<1> QED
  BY <1>5, <1>12, BecomeGood

\* OnEstablish calls a session that is null, finds it closed, or writes its handshake.
LEMMA OnEstablishKeeps ==
  ASSUME IInv, NEW l \in Links, NEW e \in Ends, OnEstablish(l, e)
  PROVE  IInv'
<1>a. PICK o : o = Now
  OBVIOUS
<1>0. o.node = node /\ o.sess = sess /\ o.link = link
  BY <1>a DEF Now
<1>1. Good(o) /\ o \in States /\ ~o.node[e].crashed /\ o.link[l][e].tcp \in {"open", "closing"}
  BY <1>a, <1>0 DEF IInv, Good, OnEstablish, Running
<1>2. PICK s : s = o.link[l][e].session
  OBVIOUS
<1>3. PICK a : a = [o EXCEPT !.link[l][e].establish = TRUE]
  OBVIOUS
<1>4. IF s = None THEN Become(Crash(a, e))
      ELSE LET v == [a EXCEPT !.sess[s].connecting = FALSE]
           IN  \/ \E u \in Detach(v, l, e, "closing") : Become(u)
               \/ Become([v EXCEPT !.link[l][e].out = TRUE])
  BY <1>a, <1>0, <1>2, <1>3 DEF OnEstablish
<1>5. /\ Good(a) /\ a \in States /\ a.node = o.node /\ a.sess = o.sess
      /\ a.link[l][e].session = s /\ a.link[l][e].tcp = o.link[l][e].tcp
  <2> DEFINE c == o.link[l][e]
  <2>1. c \in EndFields
    BY <1>1, Typed
  <2>2. PICK k : k = [c EXCEPT !.establish = TRUE]
    OBVIOUS
  <2>3. k \in EndFields /\ k.session = c.session /\ k.tcp = c.tcp
    BY <2>1, <2>2 DEF EndFields
  <2>4. a = SetEnd(o, l, e, k)
    BY <1>1, <1>3, <2>2 DEF SetEnd, States
  <2>5. Good(a)
    BY <1>1, <2>3, <2>4, EndGood
  <2>6. a \in States /\ a.node = o.node /\ a.sess = o.sess /\ a.link[l][e] = k
    BY <1>1, <2>3, <2>4, EndReturns
  <2> QED
    BY <1>2, <2>3, <2>5, <2>6
<1>6. CASE s = None
  <2>1. PICK v : v = Crash(a, e)
    OBVIOUS
  <2>2. /\ v \in States /\ v.sess = a.sess /\ v.link = a.link /\ v.node[e].crashed
        /\ \A d \in Ends : d # e => v.node[d] = a.node[d]
    <3> DEFINE n == a.node[e]
    <3>1. n \in NodeFields
      BY <1>5, Typed
    <3>2. PICK k : k = [n EXCEPT !.crashed = TRUE]
      OBVIOUS
    <3>3. k \in NodeFields /\ k.crashed
      BY <3>1, <3>2 DEF NodeFields
    <3>4. v = [a EXCEPT !.node[e] = k]
      BY <1>5, <2>1, <3>2 DEF Crash, States
    <3>5. /\ v \in States /\ v.sess = a.sess /\ v.link = a.link /\ v.node[e] = k
          /\ \A d \in Ends : d # e => v.node[d] = a.node[d]
      BY <1>5, <3>3, <3>4 DEF States
    <3> QED
      BY <3>3, <3>5
  <2>3. EndOK(v, e)
    BY <2>2 DEF EndOK
  <2>4. Good(v)
    BY <1>5, <2>2, <2>3, OneEnd
  <2> QED
    BY <1>4, <1>6, <2>1, <2>4, BecomeGood
<1>7. CASE s # None
  <2>1. LinkOK(a, e, l)
    BY <1>1, <1>5 DEF Good, EndOK, Ends
  <2>2. s \in Mine(e) /\ a.sess[s].conn = l /\ a.link[l][e].tcp = "open" /\ s \in Sess
    BY <1>1, <1>5, <1>7, <2>1, Names DEF LinkOK, Held
  <2>3. PICK b : b = [a EXCEPT !.sess[s].connecting = FALSE]
    OBVIOUS
  <2>4. /\ b \in States /\ b.node = a.node /\ b.link = a.link
        /\ \A x \in Sess : x # s => b.sess[x] = a.sess[x]
        /\ b.sess[s].live = a.sess[s].live /\ b.sess[s].conn = a.sess[s].conn
        /\ b.sess[s].identity = a.sess[s].identity /\ b.sess[s].delay = a.sess[s].delay
        /\ b.sess[s].timer = a.sess[s].timer /\ b.sess[s].denied = a.sess[s].denied
        /\ b.sess[s].active = a.sess[s].active
    <3> DEFINE f == a.sess[s]
    <3>0. f \in SessFields
      BY <1>5, <2>2, Typed
    <3>1. PICK g : g = [f EXCEPT !.connecting = FALSE]
      OBVIOUS
    <3>2. /\ g \in SessFields /\ g.live = f.live /\ g.conn = f.conn /\ g.identity = f.identity
          /\ g.delay = f.delay /\ g.timer = f.timer /\ g.denied = f.denied /\ g.active = f.active
      BY <3>0, <3>1 DEF SessFields
    <3>3. b = [a EXCEPT !.sess[s] = g]
      BY <1>5, <2>3, <3>1 DEF States
    <3>4. /\ b \in States /\ b.node = a.node /\ b.link = a.link /\ b.sess[s] = g
          /\ \A x \in Sess : x # s => b.sess[x] = a.sess[x]
      BY <1>5, <2>2, <3>2, <3>3 DEF States
    <3> QED
      BY <3>2, <3>4
  <2>5. Good(b)
    <3>1. EndOK(a, e)
      BY <1>5, GoodEnds
    <3>2. \A x \in Mine(e) :
             /\ b.sess[x].live = a.sess[x].live /\ b.sess[x].conn = a.sess[x].conn
             /\ b.sess[x].identity = a.sess[x].identity /\ b.sess[x].delay = a.sess[x].delay
             /\ b.sess[x].timer = a.sess[x].timer /\ b.sess[x].denied = a.sess[x].denied
             /\ a.sess[x].active => b.sess[x].active
             /\ a.sess[x].connecting => b.sess[x].connecting \/ a.sess[x].conn # None
      BY <2>2, <2>4, Names
    <3>3. EndOK(b, e)
      BY <1>5, <2>4, <3>1, <3>2, Mild
    <3>4. \A d \in Ends : d # e => \A x \in Mine(d) : b.sess[x] = a.sess[x]
      BY <2>2, <2>4, Names
    <3> QED
      BY <1>5, <2>4, <3>3, <3>4, OneEnd
  <2>6. ASSUME NEW u \in Detach(b, l, e, "closing"), Become(u)
        PROVE  IInv'
    <3>1. ~b.node[e].crashed /\ b.link[l][e].tcp \in {"open", "closing"}
      BY <1>1, <1>5, <2>2, <2>4
    <3>2. Good(u)
      BY <2>5, <3>1, DetachGood
    <3> QED
      BY <2>6, <3>2, BecomeGood
  <2>7. ASSUME Become([b EXCEPT !.link[l][e].out = TRUE])
        PROVE  IInv'
    <3> DEFINE c == b.link[l][e]
    <3>1. PICK v : v = [b EXCEPT !.link[l][e].out = TRUE]
      OBVIOUS
    <3>2. PICK k : k = [c EXCEPT !.out = TRUE]
      OBVIOUS
    <3>3. c \in EndFields
      BY <2>4, Typed
    <3>4. k \in EndFields /\ k.session = c.session /\ k.tcp = c.tcp
      BY <3>2, <3>3 DEF EndFields
    <3>5. v = SetEnd(b, l, e, k)
      BY <2>4, <3>1, <3>2 DEF SetEnd, States
    <3>6. Good(v)
      BY <2>5, <3>4, <3>5, EndGood
    <3> QED
      BY <2>7, <3>1, <3>6, BecomeGood
  <2> QED
    BY <1>4, <1>7, <2>3, <2>6, <2>7
<1> QED
  BY <1>6, <1>7

\* A handshake leaves one end and may arrive at the other.
LEMMA FlushKeeps ==
  ASSUME IInv, NEW l \in Links, NEW e \in Ends, Flush(l, e)
  PROVE  IInv'
<1>a. PICK o : o = Now
  OBVIOUS
<1>0. o.node = node /\ o.sess = sess /\ o.link = link /\ Good(o) /\ o \in States
  BY <1>a DEF Now, IInv, Good
<1>1. PICK b \in BOOLEAN : b = (link[l][Peer(e)].in \/ Arrives(l, e))
  OBVIOUS
<1>2. PICK k : k = [o.link[l][e] EXCEPT !.out = FALSE]
  OBVIOUS
<1>3. o.link[l][e] \in EndFields /\ o.link[l][Peer(e)] \in EndFields /\ Peer(e) \in Ends /\ Peer(e) # e
  BY <1>0, Typed, Names
<1>4. k \in EndFields /\ k.session = o.link[l][e].session /\ k.tcp = o.link[l][e].tcp
  BY <1>2, <1>3 DEF EndFields
<1>5. PICK a : a = SetEnd(o, l, e, k)
  OBVIOUS
<1>6. Good(a)
  BY <1>0, <1>4, <1>5, EndGood
<1>7. a \in States /\ a.node = o.node /\ a.sess = o.sess /\ a.link[l][Peer(e)] = o.link[l][Peer(e)]
  BY <1>0, <1>3, <1>4, <1>5, EndReturns
<1>8. PICK j : j = [o.link[l][Peer(e)] EXCEPT !.in = b]
  OBVIOUS
<1>9. j \in EndFields /\ j.session = a.link[l][Peer(e)].session /\ j.tcp = a.link[l][Peer(e)].tcp
  BY <1>3, <1>7, <1>8 DEF EndFields
<1>10. PICK v : v = SetEnd(a, l, Peer(e), j)
  OBVIOUS
<1>11. Good(v)
  BY <1>3, <1>6, <1>9, <1>10, EndGood
<1>12. Become(v)
  <2>1. link' = [link EXCEPT ![l][e].out = FALSE, ![l][Peer(e)].in = b]
    BY <1>0, <1>1, <1>3 DEF Flush, States
  <2>2. a.link = [link EXCEPT ![l][e] = k]
    BY <1>0, <1>5 DEF SetEnd, States
  <2>3. v.node = node /\ v.sess = sess /\ v.link = [a.link EXCEPT ![l][Peer(e)] = j]
    BY <1>0, <1>7, <1>10 DEF SetEnd, States
  <2>4. v.link = link'
    BY <1>0, <1>2, <1>3, <1>8, <2>1, <2>2, <2>3 DEF States
  <2> QED
    BY <2>3, <2>4 DEF Become, Flush
<1> QED
  BY <1>11, <1>12, BecomeGood

\* A link that the network cuts: the ends find out later.
LEMMA BreakKeeps ==
  ASSUME IInv, NEW l \in Links, Break(l)
  PROVE  IInv'
<1>1. Now' = Now /\ broken' \subseteq Links
  BY DEF Break, Now, IInv
<1>2. Good(Now')
  BY <1>1 DEF IInv
<1> QED
  BY <1>1, <1>2, Zenon DEF IInv

\* The handshake of the peer gives a session its identity; it is registered or refused.
LEMMA OnRecvKeeps ==
  ASSUME IInv, NEW l \in Links, NEW e \in Ends, OnRecvHarborHandshakeMsg(l, e)
  PROVE  IInv'
<1>a. PICK o : o = Now
  OBVIOUS
<1>0. o.node = node /\ o.sess = sess /\ o.link = link
  BY <1>a DEF Now
<1>1. Good(o) /\ o \in States /\ ~o.node[e].crashed /\ o.link[l][e].tcp = "open" /\ EndOK(o, e)
  BY <1>a, <1>0, GoodEnds DEF IInv, OnRecvHarborHandshakeMsg, Running
<1>2. PICK s : s = o.link[l][e].session
  OBVIOUS
<1>3. PICK a : a = [o EXCEPT !.link[l][e].in = FALSE, !.sess[s].identity = TRUE]
  OBVIOUS
<1>4. IF o.node[e].sessions # None
      THEN \E v \in Close([a EXCEPT !.node[e].refused = TRUE], s) : Become(v)
      ELSE Become([SettingBuffSize(a, l, e) EXCEPT
                        !.node[e].sessions = s, !.sess[s].delay = "armed"])
  BY <1>a, <1>0, <1>2, <1>3 DEF OnRecvHarborHandshakeMsg
<1>5. s \in Mine(e) /\ s \in Sess /\ o.sess[s].conn = l /\ EndOf(s) = e /\ l # None
  <2>1. LinkOK(o, e, l)
    BY <1>1 DEF EndOK
  <2>2. s \in Mine(e) /\ o.sess[s].conn = l
    BY <1>1, <1>2, <2>1 DEF LinkOK, Held
  <2> QED
    BY <2>2, Names
<1>6. o.sess[s] \in SessFields /\ o.link[l][e] \in EndFields /\ o.node[e] \in NodeFields
  BY <1>1, <1>5, Typed
<1> DEFINE f == o.sess[s]
           c == o.link[l][e]
           n == o.node[e]
<1>7. /\ a.node = o.node /\ a.sess = [o.sess EXCEPT ![s].identity = TRUE]
      /\ a.link = [o.link EXCEPT ![l][e].in = FALSE]
      /\ a = [node |-> a.node, sess |-> a.sess, link |-> a.link]
  BY <1>1, <1>3 DEF States
<1>8. ASSUME NEW v, NEW g \in SessFields, NEW k \in EndFields, NEW q \in NodeFields,
             v = [node |-> v.node, sess |-> v.sess, link |-> v.link],
             v.node = [o.node EXCEPT ![e] = q], v.sess = [o.sess EXCEPT ![s] = g],
             v.link = [o.link EXCEPT ![l][e] = k],
             k.session = c.session, k.tcp = c.tcp,
             g.live = f.live, g.conn = f.conn, g.timer = f.timer, g.connecting = f.connecting,
             g.identity, q.crashed = n.crashed, q.clientSessions = n.clientSessions,
             \/ /\ n.sessions = None /\ q.sessions = s /\ g.delay = "armed"
                /\ q.known = n.known /\ q.refused = n.refused
             \/ q.sessions = n.sessions /\ g.delay = f.delay /\ q.refused
      PROVE  Good(v) /\ v.node[e].crashed = n.crashed
  <2>1. /\ v.node \in [Ends -> NodeFields] /\ v.node[e] = q
        /\ \A d \in Ends : d # e => v.node[d] = o.node[d]
    BY <1>1, <1>8 DEF States
  <2>2. /\ v.sess \in [Sess -> SessFields] /\ v.sess[s] = g
        /\ \A x \in Sess : x # s => v.sess[x] = o.sess[x]
    BY <1>1, <1>5, <1>8 DEF States
  <2>3. /\ v.link \in [Links -> [Ends -> EndFields]]
        /\ \A m \in Links, d \in Ends : /\ v.link[m][d].session = o.link[m][d].session
                                        /\ v.link[m][d].tcp = o.link[m][d].tcp
    <3>1. /\ v.link \in [Links -> [Ends -> EndFields]] /\ v.link[l][e] = k
          /\ \A m \in Links : m # l => v.link[m] = o.link[m]
          /\ \A d \in Ends : d # e => v.link[l][d] = o.link[l][d]
      BY <1>1, <1>8 DEF States
    <3> QED
      BY <1>8, <3>1
  <2>4. v \in States
    BY <1>8, <2>1, <2>2, <2>3 DEF States
  <2>5. \A x \in Mine(e) : x # s => v.sess[x] = o.sess[x]
    BY <2>2, Names
  <2>6. /\ v.sess[s].live = o.sess[s].live /\ v.sess[s].conn = o.sess[s].conn /\ o.sess[s].conn # None
        /\ v.sess[s].timer = o.sess[s].timer
        /\ v.sess[s].connecting = o.sess[s].connecting /\ v.sess[s].identity
        /\ v.node[e].crashed = o.node[e].crashed
        /\ v.node[e].clientSessions = o.node[e].clientSessions
    BY <1>5, <1>8, <2>1, <2>2
  <2>7. \/ /\ o.node[e].sessions = None /\ v.node[e].sessions = s /\ v.sess[s].delay = "armed"
           /\ v.node[e].known = o.node[e].known /\ v.node[e].refused = o.node[e].refused
        \/ /\ v.node[e].sessions = o.node[e].sessions /\ v.sess[s].delay = o.sess[s].delay
           /\ v.node[e].refused
    BY <1>8, <2>1, <2>2
  <2>8. EndOK(v, e)
    BY <1>1, <1>5, <2>3, <2>4, <2>5, <2>6, <2>7, Identified
  <2>9. \A d \in Ends : d # e => \A x \in Mine(d) : v.sess[x] = o.sess[x]
    BY <1>5, <2>2, Names
  <2>10. Good(v)
    BY <1>1, <2>1, <2>3, <2>4, <2>8, <2>9, OneEnd
  <2> QED
    BY <2>6, <2>10
<1>9. CASE o.node[e].sessions # None
  <2>1. PICK b : b = [a EXCEPT !.node[e].refused = TRUE]
    OBVIOUS
  <2>2. PICK v \in Close(b, s) : Become(v)
    BY <1>4, <1>9, <2>1
  <2>3. PICK g, k, q : /\ g = [f EXCEPT !.identity = TRUE] /\ k = [c EXCEPT !.in = FALSE]
                       /\ q = [n EXCEPT !.refused = TRUE]
    OBVIOUS
  <2>4. /\ g \in SessFields /\ g.live = f.live /\ g.conn = f.conn /\ g.timer = f.timer
        /\ g.connecting = f.connecting /\ g.identity /\ g.delay = f.delay
    BY <1>6, <2>3 DEF SessFields
  <2>5. k \in EndFields /\ k.session = c.session /\ k.tcp = c.tcp
    BY <1>6, <2>3 DEF EndFields
  <2>6. /\ q \in NodeFields /\ q.crashed = n.crashed /\ q.clientSessions = n.clientSessions
        /\ q.sessions = n.sessions /\ q.refused
    BY <1>6, <2>3 DEF NodeFields
  <2>7. /\ b = [node |-> b.node, sess |-> b.sess, link |-> b.link]
        /\ b.node = [o.node EXCEPT ![e] = q] /\ b.sess = [o.sess EXCEPT ![s] = g]
        /\ b.link = [o.link EXCEPT ![l][e] = k]
    <3>1. /\ b = [node |-> b.node, sess |-> b.sess, link |-> b.link]
          /\ b.node = [o.node EXCEPT ![e].refused = TRUE] /\ b.sess = a.sess /\ b.link = a.link
      BY <1>7, <2>1
    <3> QED
      BY <1>1, <1>7, <2>3, <3>1 DEF States
  <2>8. Good(b) /\ ~b.node[e].crashed
    BY <1>1, <1>8, <2>4, <2>5, <2>6, <2>7
  <2>9. Good(v)
    BY <1>5, <2>2, <2>8, CloseGood
  <2> QED
    BY <2>2, <2>9, BecomeGood
<1>10. CASE o.node[e].sessions = None
  <2>1. PICK b : b = SettingBuffSize(a, l, e)
    OBVIOUS
  <2>2. PICK v : v = [b EXCEPT !.node[e].sessions = s, !.sess[s].delay = "armed"]
    OBVIOUS
  <2>3. PICK g, k, q : /\ g = [f EXCEPT !.identity = TRUE, !.delay = "armed"]
                       /\ k = [c EXCEPT !.in = FALSE, !.out = FALSE, !.lost = c.out]
                       /\ q = [n EXCEPT !.sessions = s]
    OBVIOUS
  <2>4. /\ g \in SessFields /\ g.live = f.live /\ g.conn = f.conn /\ g.timer = f.timer
        /\ g.connecting = f.connecting /\ g.identity /\ g.delay = "armed"
    BY <1>6, <2>3 DEF SessFields
  <2>5. k \in EndFields /\ k.session = c.session /\ k.tcp = c.tcp
    BY <1>6, <2>3 DEF EndFields
  <2>6. /\ q \in NodeFields /\ q.crashed = n.crashed /\ q.clientSessions = n.clientSessions
        /\ q.sessions = s /\ q.refused = n.refused /\ q.known = n.known
    BY <1>5, <1>6, <2>3 DEF NodeFields
  <2>7. /\ v = [node |-> v.node, sess |-> v.sess, link |-> v.link]
        /\ v.node = [o.node EXCEPT ![e] = q] /\ v.sess = [o.sess EXCEPT ![s] = g]
        /\ v.link = [o.link EXCEPT ![l][e] = k]
    <3>1. /\ b = [node |-> b.node, sess |-> b.sess, link |-> b.link]
          /\ b.node = o.node /\ b.sess = a.sess
          /\ b.link = [a.link EXCEPT ![l][e].out = FALSE, ![l][e].lost = a.link[l][e].out]
      BY <1>7, <2>1 DEF SettingBuffSize
    <3>2. /\ v = [node |-> v.node, sess |-> v.sess, link |-> v.link]
          /\ v.node = [o.node EXCEPT ![e].sessions = s]
          /\ v.sess = [a.sess EXCEPT ![s].delay = "armed"] /\ v.link = b.link
      BY <2>2, <3>1
    <3>3. a.link[l][e].out = c.out
      BY <1>1, <1>6, <1>7 DEF States, EndFields
    <3>4. v.link = [o.link EXCEPT ![l][e] = k]
      <4>1. PICK i : i = [c EXCEPT !.in = FALSE]
        OBVIOUS
      <4>2. a.link = [o.link EXCEPT ![l][e] = i]
        BY <1>1, <1>7, <4>1 DEF States
      <4>3. a.link[l][e] = i
        BY <1>1, <4>2 DEF States
      <4>4. k = [i EXCEPT !.out = FALSE, !.lost = c.out]
        BY <1>6, <2>3, <4>1 DEF EndFields
      <4>5. b.link = [a.link EXCEPT ![l][e] = k]
        BY <1>1, <3>1, <3>3, <4>2, <4>3, <4>4, ZenonT(40) DEF States
      <4>6. [a.link EXCEPT ![l][e] = k] = [o.link EXCEPT ![l][e] = k]
        BY <1>1, <4>2 DEF States
      <4> QED
        BY <3>2, <4>5, <4>6
    <3>5. v.sess = [o.sess EXCEPT ![s] = g]
      BY <1>1, <1>7, <2>3, <3>2 DEF States
    <3> QED
      BY <2>3, <3>2, <3>4, <3>5
  <2>8. Good(v)
    BY <1>8, <1>10, <2>4, <2>5, <2>6, <2>7
  <2> QED
    BY <1>4, <1>10, <2>1, <2>2, <2>8, BecomeGood
<1> QED
  BY <1>9, <1>10

\* The end of the delay of a session that has an identity, and so a connection.
LEMMA DelayOpenKeeps ==
  ASSUME IInv, NEW s \in Sess, DelayOpen(s)
  PROVE  IInv'
<1>a. PICK o : o = Now
  OBVIOUS
<1>0. o.node = node /\ o.sess = sess /\ o.link = link
  BY <1>a DEF Now
<1>1. PICK e \in Ends : e = EndOf(s) /\ s \in Mine(e)
  BY Names
<1>2. Good(o) /\ o \in States /\ ~o.node[e].crashed /\ o.sess[s].delay = "armed" /\ EndOK(o, e)
  BY <1>a, <1>0, <1>1, GoodEnds DEF IInv, DelayOpen, Running
<1>3. PICK v : v = [o EXCEPT !.sess[s].delay = "null", !.node[e].known = TRUE]
  OBVIOUS
<1>4. Become(v)
  BY <1>a, <1>0, <1>1, <1>3 DEF DelayOpen
<1> DEFINE f == o.sess[s]
           n == o.node[e]
<1>5. f \in SessFields /\ n \in NodeFields /\ f.identity /\ f.conn # None
  BY <1>1, <1>2, Typed DEF EndOK, SessOK
<1>6. PICK g, q : g = [f EXCEPT !.delay = "null"] /\ q = [n EXCEPT !.known = TRUE]
  OBVIOUS
<1>7. /\ g \in SessFields /\ g.live = f.live /\ g.conn = f.conn /\ g.timer = f.timer
      /\ g.connecting = f.connecting /\ g.identity = f.identity /\ g.delay = "null"
  BY <1>5, <1>6 DEF SessFields
<1>8. /\ q \in NodeFields /\ q.crashed = n.crashed /\ q.clientSessions = n.clientSessions
      /\ q.sessions = n.sessions /\ q.refused = n.refused /\ q.known
  BY <1>5, <1>6 DEF NodeFields
<1>9. v = [o EXCEPT !.sess[s] = g, !.node[e] = q]
  BY <1>2, <1>3, <1>6 DEF States
<1>10. /\ v \in States /\ v.link = o.link /\ v.sess[s] = g /\ v.node[e] = q
       /\ \A x \in Sess : x # s => v.sess[x] = o.sess[x]
       /\ \A d \in Ends : d # e => v.node[d] = o.node[d]
  BY <1>2, <1>7, <1>8, <1>9 DEF States
<1>11. EndOK(v, e)
  <2>1. \A x \in Mine(e) : x # s => v.sess[x] = o.sess[x]
    BY <1>10, Names
  <2>2. /\ v.sess[s].live = o.sess[s].live /\ v.sess[s].conn = o.sess[s].conn /\ o.sess[s].conn # None
        /\ v.sess[s].timer = o.sess[s].timer
        /\ v.sess[s].connecting = o.sess[s].connecting /\ v.sess[s].identity
        /\ v.node[e].crashed = o.node[e].crashed
        /\ v.node[e].clientSessions = o.node[e].clientSessions
    BY <1>5, <1>7, <1>8, <1>10
  <2>3. /\ v.node[e].sessions = o.node[e].sessions /\ o.sess[s].delay = "armed"
        /\ v.sess[s].delay = "null" /\ v.node[e].known /\ v.node[e].refused = o.node[e].refused
    BY <1>2, <1>7, <1>8, <1>10
  <2>4. v \in States /\ v.link = o.link
    BY <1>10
  <2> QED
    BY <1>1, <1>2, <2>1, <2>2, <2>3, <2>4, Identified
<1>12. \A d \in Ends : d # e => \A x \in Mine(d) : v.sess[x] = o.sess[x]
  BY <1>1, <1>10, Names
<1>13. Good(v)
  BY <1>2, <1>10, <1>11, <1>12, OneEnd
<1> QED
  BY <1>4, <1>13, BecomeGood

(***************************************************************************)
(* The theorems.                                                           *)
(***************************************************************************)
\* The harbors start without sessions and without connections.
LEMMA InitIInv ==
  ASSUME Init
  PROVE  IInv
<1>a. PICK o : o = Now
  OBVIOUS
<1>0. o.node = node /\ o.sess = sess /\ o.link = link
  BY <1>a DEF Now
<1>1. /\ FreshNode \in NodeFields /\ FreshNode.sessions = None /\ FreshNode.clientSessions = None
      /\ ~FreshNode.known
  BY DEF FreshNode, NodeFields
<1>2. /\ FreshSession \in SessFields /\ FreshSession.conn = None /\ ~FreshSession.timer
      /\ ~FreshSession.identity /\ FreshSession.delay = "garbage" /\ ~FreshSession.live
  BY DEF FreshSession, SessFields
<1>3. FreshEnd \in EndFields /\ FreshEnd.tcp = "none" /\ FreshEnd.session = None
  BY DEF FreshEnd, EndFields
<1>4. /\ node \in [Ends -> NodeFields] /\ \A e \in Ends : node[e] = FreshNode
      /\ sess \in [Sess -> SessFields] /\ \A s \in Sess : sess[s] = FreshSession
      /\ link \in [Links -> [Ends -> EndFields]] /\ \A l \in Links, e \in Ends : link[l][e] = FreshEnd
  BY <1>1, <1>2, <1>3 DEF Init
<1>5. o \in States /\ broken \subseteq Links
  BY <1>a, <1>4 DEF Now, States, Init
<1>6. ASSUME NEW e \in Ends PROVE EndOK(o, e)
  <2>1. \A l \in Links : LinkOK(o, e, l)
    BY <1>0, <1>3, <1>4 DEF LinkOK, Held
  <2>2. \A s \in Mine(e) : SessOK(o, e, s)
    BY <1>0, <1>2, <1>4, Names DEF SessOK
  <2>3. NodeOK(o, e)
    BY <1>0, <1>1, <1>2, <1>4, Names DEF NodeOK
  <2> QED
    BY <2>1, <2>2, <2>3 DEF EndOK
<1>7. Backlogs(o)
  BY <1>0, <1>3, <1>4 DEF Backlogs, Ends
<1>8. Good(o)
  BY <1>5, <1>6, <1>7, GoodEnds
<1> QED
  BY <1>a, <1>5, <1>8 DEF IInv

\* Every step of the harbors, of the epoll threads and of the network keeps the invariant.
LEMMA StepIInv ==
  ASSUME IInv, [Next]_vars
  PROVE  IInv'
<1>1. ASSUME NEW s \in Clients, NEW l \in Links, ReConnectTime(s, l) PROVE IInv'
  BY <1>1, ReConnectTimeKeeps
<1>2. ASSUME NEW s \in Clients, NEW l \in Links, NEW force \in BOOLEAN, ConnectHarbor(s, l, force)
      PROVE  IInv'
  BY <1>2, ConnectHarborKeeps
<1>3. CASE DisconnectHarbor
  BY <1>3, DisconnectHarborKeeps
<1>4. ASSUME NEW l \in Links, OnConnect(l) PROVE IInv'
  BY <1>4, OnConnectKeeps
<1>5. ASSUME NEW l \in Links, OnConnectFailed(l) PROVE IInv'
  BY <1>5, OnConnectFailedKeeps
<1>6. ASSUME NEW l \in Links, OnAccept(l) PROVE IInv'
  BY <1>6, OnAcceptKeeps
<1>7. ASSUME NEW l \in Links, Break(l) PROVE IInv'
  BY <1>7, BreakKeeps
<1>8. ASSUME NEW l \in Links, NEW e \in Ends, OnEstablish(l, e) PROVE IInv'
  BY <1>8, OnEstablishKeeps
<1>9. ASSUME NEW l \in Links, NEW e \in Ends, OnRecvHarborHandshakeMsg(l, e) PROVE IInv'
  BY <1>9, OnRecvKeeps
<1>10. ASSUME NEW l \in Links, NEW e \in Ends, Flush(l, e) PROVE IInv'
  BY <1>10, FlushKeeps
<1>11. ASSUME NEW l \in Links, NEW e \in Ends, OnTerminate(l, e) PROVE IInv'
  BY <1>11, OnTerminateKeeps
<1>12. ASSUME NEW s \in Sess, DelayOpen(s) PROVE IInv'
  BY <1>12, DelayOpenKeeps
<1>13. CASE UNCHANGED vars
  <2>1. Now' = Now /\ broken' = broken
    BY <1>13 DEF vars, Now
  <2>2. Good(Now') /\ broken' \subseteq Links
    BY <2>1 DEF IInv
  <2> QED
    BY <2>2, Zenon DEF IInv
<1> QED
  BY <1>1, <1>2, <1>3, <1>4, <1>5, <1>6, <1>7, <1>8, <1>9, <1>10, <1>11, <1>12, <1>13
     DEF Next, Handle

\* The invariant holds in every state of the two harbors.
THEOREM AlwaysIInv == Spec => []IInv
<1>1. Init => IInv
  BY InitIInv
<1>2. IInv /\ [Next]_vars => IInv'
  BY StepIInv
<1> QED
  BY <1>1, <1>2, PTL DEF Spec

\* Every field of the maps, of the sessions and of the connections keeps its type.
THEOREM TypeCorrect == Spec => []TypeOK
<1>1. IInv => TypeOK
  BY NowIsState DEF IInv, Good
<1> QED
  BY <1>1, AlwaysIInv, PTL

\* What the invariant says of the present state.
LEMMA Present ==
  ASSUME IInv, NEW e \in Ends, Running(e)
  PROVE  /\ node[e] \in NodeFields
         /\ \A s \in Sess : sess[s] \in SessFields
         /\ \A l \in Links : /\ link[l][e] \in EndFields /\ LinkOK(Now, e, l)
         /\ \A s \in Mine(e) : SessOK(Now, e, s)
         /\ NodeOK(Now, e)
<1>1. Now \in States /\ EndOK(Now, e)
  BY GoodEnds DEF IInv
<1>2. Now.node = node /\ Now.sess = sess /\ Now.link = link
  BY DEF Now
<1>3. /\ (\A l \in Links : LinkOK(Now, e, l)) /\ (\A s \in Mine(e) : SessOK(Now, e, s))
      /\ NodeOK(Now, e)
  BY <1>1, <1>2 DEF EndOK, Running
<1> QED
  BY <1>1, <1>2, <1>3, Typed

\* What the maps, the connections, the connects in progress and the timers of a running node
\* refer to has not been deleted, and a connection and its session refer to each other.
THEOREM NothingDangles == Spec => []NoDanglingSession
<1>1. ASSUME IInv PROVE NoDanglingSession
  <2>a. Now.node = node /\ Now.sess = sess /\ Now.link = link
    BY DEF Now
  <2>1. ASSUME NEW e \in Ends, Running(e), NEW s \in Mine(e)
        PROVE  /\ sess[s].conn # None => link[sess[s].conn][e].session = s
               /\ sess[s].identity => sess[s].live
               /\ sess[s].delay = "armed" \/ sess[s].timer => sess[s].live
    <3>1. SessOK(Now, e, s) /\ sess[s] \in SessFields /\ s # None
      BY <1>1, <2>1, Present, Names
    <3>2. /\ sess[s].conn # None => link[sess[s].conn][e].session = s
          /\ sess[s].timer => sess[s].live
          /\ sess[s].identity => sess[s].conn # None
          /\ sess[s].delay = "armed" => sess[s].identity
      BY <3>1, <2>a DEF SessOK
    <3>3. sess[s].conn # None => sess[s].live
      <4>1. SUFFICES ASSUME sess[s].conn # None PROVE sess[s].live
        OBVIOUS
      <4>2. PICK l \in Links : l = sess[s].conn
        BY <3>1, <4>1 DEF SessFields
      <4>3. LinkOK(Now, e, l) /\ link[l][e].session = s
        BY <1>1, <2>1, <3>2, <4>1, <4>2, Present
      <4> QED
        BY <2>a, <3>1, <4>3 DEF LinkOK
    <3> QED
      BY <3>2, <3>3
  <2>2. ASSUME NEW e \in Ends, Running(e)
        PROVE  /\ node[e].sessions # None => sess[node[e].sessions].live
               /\ node[e].clientSessions # None => sess[node[e].clientSessions].live
    <3>1. NodeOK(Now, e)
      BY <1>1, <2>2, Present
    <3>2. /\ node[e].sessions # None => /\ node[e].sessions \in Mine(e)
                                        /\ sess[node[e].sessions].identity
          /\ node[e].clientSessions # None => sess[node[e].clientSessions].live
      BY <3>1, <2>a DEF NodeOK
    <3> QED
      BY <2>1, <2>2, <3>2
  <2>3. ASSUME NEW e \in Ends, Running(e), NEW l \in Links, link[l][e].session # None
        PROVE  LET s == link[l][e].session
               IN  /\ sess[s].live /\ EndOf(s) = e /\ sess[s].conn \in {l, None}
                   /\ link[l][e].tcp = "open" => sess[s].conn = l
    <3>1. PICK s : s = link[l][e].session
      OBVIOUS
    <3>2. LinkOK(Now, e, l)
      BY <1>1, <2>3, Present
    <3>3. /\ s \in Mine(e) /\ sess[s].live /\ link[l][e].tcp \in Held
          /\ link[l][e].tcp = "open" => sess[s].conn = l
          /\ link[l][e].tcp = "pending" => sess[s].conn = None
      BY <2>a, <2>3, <3>1, <3>2 DEF LinkOK
    <3>4. EndOf(s) = e
      BY <3>3, Names
    <3> QED
      BY <3>1, <3>3, <3>4 DEF Held
  <2>4. ASSUME NEW s \in Sess, Running(EndOf(s))
        PROVE  /\ sess[s].delay = "armed" \/ sess[s].timer => sess[s].live
               /\ sess[s].conn # None => link[sess[s].conn][EndOf(s)].session = s
    BY <2>1, <2>4, Names
  <2> QED
    BY <2>2, <2>3, <2>4 DEF NoDanglingSession
<1> QED
  BY <1>1, AlwaysIInv, PTL

\* Until it has refused a session, a running node has in s_sessions exactly the session with an
\* identity, that session has its connection, and the listeners were told of the peer exactly when
\* the session is past its delay.
THEOREM RegistryIsRight == Spec => []RegistryAgrees
<1>1. ASSUME IInv PROVE RegistryAgrees
  <2>a. Now.node = node /\ Now.sess = sess /\ Now.link = link
    BY DEF Now
  <2> SUFFICES ASSUME NEW e \in Ends, Running(e), ~node[e].refused
               PROVE  /\ \A s \in Sess : EndOf(s) = e => (sess[s].identity <=> node[e].sessions = s)
                      /\ LET s == node[e].sessions
                         IN  /\ s # None => sess[s].conn # None /\ sess[s].delay # "garbage"
                             /\ node[e].known <=> (s # None /\ sess[s].delay = "null")
    BY DEF RegistryAgrees
  <2>1. NodeOK(Now, e) /\ \A s \in Mine(e) : SessOK(Now, e, s)
    BY <1>1, Present
  <2>2. /\ node[e].sessions # None => /\ node[e].sessions \in Mine(e)
                                      /\ sess[node[e].sessions].identity
                                      /\ sess[node[e].sessions].delay # "garbage"
        /\ \A s \in Mine(e) : sess[s].identity => node[e].sessions = s
        /\ node[e].known <=> (node[e].sessions # None /\ sess[node[e].sessions].delay = "null")
    BY <2>1, <2>a DEF NodeOK
  <2>3. \A s \in Mine(e) : sess[s].identity => sess[s].conn # None
    BY <2>1, <2>a DEF SessOK
  <2>4. \A s \in Sess : EndOf(s) = e => s \in Mine(e) /\ s # None
    BY Names
  <2> QED
    BY <2>2, <2>3, <2>4
<1> QED
  BY <1>1, AlwaysIInv, PTL

\* A client session that nobody closed has a connection, a connect in progress or a reconnect timer,
\* unless its last connect failed before it returned.
THEOREM TriesForEver == Spec => []KeepsTrying
<1>1. ASSUME IInv PROVE KeepsTrying
  <2>a. Now.node = node /\ Now.sess = sess /\ Now.link = link
    BY DEF Now
  <2> SUFFICES ASSUME NEW s \in Clients, Running("c"), sess[s].live, ~sess[s].active
               PROVE  \/ sess[s].conn # None \/ sess[s].timer \/ sess[s].denied
                      \/ \E l \in Links : link[l]["c"].tcp = "pending" /\ link[l]["c"].session = s
    BY DEF KeepsTrying
  <2>1. SessOK(Now, "c", s)
    BY <1>1, Present, Names DEF Ends
  <2> QED
    BY <2>1, <2>a DEF SessOK
<1> QED
  BY <1>1, AlwaysIInv, PTL
=============================================================================
