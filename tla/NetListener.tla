----------------------------- MODULE NetListener -----------------------------
(***************************************************************************)
(* NetListenerMgr (Kernel/Net): the main thread starts connects and        *)
(* listeners, a thread selects over their sockets and reports accepted,    *)
(* connected and failed ones back through a queue.  Both sides know a      *)
(* socket only by its descriptor, which the system reuses once it is       *)
(* closed.  The queues are taken as unbounded here: waiting in TryPush is  *)
(* in CircularQueue and NetEngine.                                         *)
(***************************************************************************)
EXTENDS Integers, Sequences, FiniteSets

CONSTANTS
  Sessions,    \* sessions that connect, once each
  Peers,       \* connections that come in
  Fds,
  None, Listener,
  LISTEN_SOCKET_SIZE, CONNECT_TIME_OUT_SIZE

ASSUME NamesAssumption == /\ Sessions \cap Peers = {}
                          /\ {None, Listener} \cap (Sessions \cup Peers) = {}
                          /\ None # Listener /\ None \notin Fds
ASSUME SizesAssumption == /\ LISTEN_SOCKET_SIZE \in Nat \ {0}
                          /\ CONNECT_TIME_OUT_SIZE \in Nat

VARIABLES
  owner,       \* fd -> what is open on it
  connectMap,  \* _connectSockMap: fd -> session
  threadQ,     \* _threadQueue: descriptors to add
  mainQ,       \* _mainQueue
  sockets,     \* netSockets: fd -> its count of rounds, or -1 when it is not in the array
  todo, dels,  \* the round of the thread: entries still to look at, entries to delete
  outcome,     \* of each session's connect: "none", "trying", "connected", "failed",
               \* "timeout", or "denied" when it failed before it returned
  told,        \* the last callback of each session and peer: "none", "connected",
               \* "failed", "error" (OnError only), or "closed" once that is over
  displaced,   \* bookkeeping: sessions that were not entered in connectMap
  dropped      \* bookkeeping: what was not entered in sockets

thread == <<sockets, todo, dels>>
lost == <<displaced, dropped>>
listenerVars == <<owner, connectMap, threadQ, mainQ, thread, outcome, told, lost>>

\* Before its first socket the thread is not there; a round is over when both are empty.
ListenerInit ==
  /\ owner = [f \in Fds |-> None]
  /\ connectMap = [f \in Fds |-> None]
  /\ threadQ = <<>> /\ mainQ = <<>>
  /\ sockets = [f \in Fds |-> -1] /\ todo = {} /\ dels = {}
  /\ outcome = [s \in Sessions |-> "none"]
  /\ told = [s \in Sessions \cup Peers |-> "none"]
  /\ displaced = {} /\ dropped = {}

Event(opt, x, f) == [opt |-> opt, who |-> x, fd |-> f]
Free(f) == owner[f] = None
Table == {f \in Fds : sockets[f] >= 0}

(***************************************************************************)
(* The main thread.                                                        *)
(***************************************************************************)
\* CreateNetListener and OnCreateNetListener.
CreateNetListener(f) ==
  /\ Free(f) /\ \A g \in Fds : owner[g] # Listener
  /\ owner' = [owner EXCEPT ![f] = Listener]
  /\ threadQ' = Append(threadQ, f)
  /\ UNCHANGED <<connectMap, mainQ, thread, outcome, told, lost>>

\* _connectSockMap.emplace: an entry that is there stays.
Emplace(map, f, s) == [map EXCEPT ![f] = IF @ = None THEN s ELSE @]

\* CreateNetConnecter, which continues in OnCreateNetConnecter.
CreateNetConnecter(s, f) ==
  /\ outcome[s] = "none" /\ Free(f)
  /\ owner' = [owner EXCEPT ![f] = s]
  /\ outcome' = [outcome EXCEPT ![s] = "trying"]
  /\ connectMap' = Emplace(connectMap, f, s)
  /\ displaced' = IF connectMap[f] = None THEN displaced ELSE displaced \cup {s}
  /\ threadQ' = Append(threadQ, f)
  /\ UNCHANGED <<mainQ, thread, told, dropped>>

\* CreateNetConnecter when connect fails or succeeds at once.  A failed socket is not
\* closed.
ConnectAtOnce(s, f) ==
  /\ outcome[s] = "none" /\ Free(f)
  /\ owner' = [owner EXCEPT ![f] = s]
  /\ \/ /\ outcome' = [outcome EXCEPT ![s] = "denied"]
        /\ told' = [told EXCEPT ![s] = "error"]
     \/ /\ outcome' = [outcome EXCEPT ![s] = "connected"]
        /\ told' = [told EXCEPT ![s] = "connected"]
  /\ UNCHANGED <<connectMap, threadQ, mainQ, thread, lost>>

\* CreateNetConnecter when there is no descriptor left: no callback at all.
ConnectNoSocket(s) ==
  /\ outcome[s] = "none" /\ \A f \in Fds : ~Free(f)
  /\ outcome' = [outcome EXCEPT ![s] = "denied"]
  /\ UNCHANGED <<owner, connectMap, threadQ, mainQ, thread, told, lost>>

PopEvent(opt) == mainQ # <<>> /\ Head(mainQ).opt = opt /\ mainQ' = Tail(mainQ)

\* OnAccept: the socket becomes a connection, or is closed if CreateSession returns null.
OnAccept ==
  /\ PopEvent("accept")
  /\ LET evt == Head(mainQ)
     IN  \/ told' = [told EXCEPT ![evt.who] = "connected"] /\ UNCHANGED owner
         \/ /\ told' = [told EXCEPT ![evt.who] = "closed"]
            /\ owner' = [owner EXCEPT ![evt.fd] = None]
  /\ UNCHANGED <<connectMap, threadQ, thread, outcome, lost>>

\* OnConnect and OnConnectFailed: the session that has the descriptor in the map is told;
\* if there is none, nothing happens.
Answer(opt, call) ==
  /\ PopEvent(opt)
  /\ LET f == Head(mainQ).fd
     IN  IF connectMap[f] = None THEN UNCHANGED <<told, connectMap>>
         ELSE /\ told' = [told EXCEPT ![connectMap[f]] = call]
              /\ connectMap' = [connectMap EXCEPT ![f] = None]
  /\ UNCHANGED <<owner, threadQ, thread, outcome, lost>>

Bug_OnConnectFailed ==
  /\ PopEvent("remove")
  /\ connectMap' = [connectMap EXCEPT ![Head(mainQ).fd] = None]
  /\ UNCHANGED <<owner, threadQ, thread, outcome, told, lost>>

OnConnect == Answer("add", "connected")
OnConnectFailed == Answer("remove", "failed")

\* The connection made of a socket is closed later, by NetService.
CloseConnection(f) ==
  /\ owner[f] \in Sessions \cup Peers /\ told[owner[f]] = "connected"
  /\ owner' = [owner EXCEPT ![f] = None]
  /\ told' = [told EXCEPT ![owner[f]] = "closed"]
  /\ UNCHANGED <<connectMap, threadQ, mainQ, thread, outcome, lost>>

(***************************************************************************)
(* The thread: Run.                                                        *)
(***************************************************************************)
Room == Cardinality(Table) < LISTEN_SOCKET_SIZE

\* One event per round, then select and a look at every entry.  Beyond its size the
\* array takes nothing.
BeginRound ==
  /\ todo = {} /\ dels = {}
  /\ threadQ # <<>> \/ Table # {}
  /\ LET add == IF threadQ # <<>> /\ Room THEN {Head(threadQ)} ELSE {}
     IN  /\ sockets' = [f \in Fds |-> IF f \in add THEN 0 ELSE sockets[f]]
         /\ todo' = Table \cup add
         /\ dropped' = IF threadQ = <<>> \/ Room THEN dropped
                       ELSE dropped \cup {owner[Head(threadQ)]}
  /\ threadQ' = IF threadQ = <<>> THEN threadQ ELSE Tail(threadQ)
  /\ UNCHANGED <<owner, connectMap, mainQ, dels, outcome, told, displaced>>

Looking(f) == f \in todo /\ todo' = todo \ {f}
Bug_Report(opt, f) == mainQ' = Append(mainQ, Event(opt, owner[f], f)) /\ UNCHANGED dels
Report(opt, f) == /\ mainQ' = Append(mainQ, Event(opt, owner[f], f))
                  /\ dels' = dels \cup {f}

\* The socket is writable: connected, or failed, and then it is closed at once.
ConnectReady(f) ==
  /\ Looking(f) /\ owner[f] \in Sessions
  /\ \/ /\ Report("add", f)
        /\ outcome' = [outcome EXCEPT ![owner[f]] = "connected"]
        /\ UNCHANGED owner
     \/ /\ Report("remove", f)
        /\ outcome' = [outcome EXCEPT ![owner[f]] = "failed"]
        /\ owner' = [owner EXCEPT ![f] = None]
  /\ UNCHANGED <<connectMap, threadQ, sockets, told, lost>>

\* It is not: it times out, and stays open, or has another round.
ConnectWait(f) ==
  /\ Looking(f) /\ owner[f] \in Sessions
  /\ IF sockets[f] > CONNECT_TIME_OUT_SIZE
     THEN /\ Report("remove", f)
          /\ outcome' = [outcome EXCEPT ![owner[f]] = "timeout"]
          /\ UNCHANGED sockets
     ELSE /\ sockets' = [sockets EXCEPT ![f] = @ + 1]
          /\ UNCHANGED <<mainQ, dels, outcome>>
  /\ UNCHANGED <<owner, connectMap, threadQ, told, lost>>

\* A listening socket: accept until nobody is left.
AcceptSocket(f, p, g) ==
  /\ f \in todo /\ owner[f] = Listener /\ Free(g)
  /\ told[p] = "none" /\ p \notin {owner[h] : h \in Fds}
  /\ owner' = [owner EXCEPT ![g] = p]
  /\ mainQ' = Append(mainQ, Event("accept", p, g))
  /\ UNCHANGED <<connectMap, threadQ, thread, outcome, told, lost>>

AcceptDone(f) ==
  /\ Looking(f) /\ owner[f] = Listener
  /\ UNCHANGED <<owner, connectMap, threadQ, mainQ, sockets, dels, outcome, told, lost>>

\* DelSoeckt for the entries that were answered in this round.
DelSockets ==
  /\ todo = {} /\ dels # {}
  /\ sockets' = [f \in Fds |-> IF f \in dels THEN -1 ELSE sockets[f]]
  /\ dels' = {}
  /\ UNCHANGED <<owner, connectMap, threadQ, mainQ, todo, outcome, told, lost>>

(***************************************************************************)
(* Specification.                                                          *)
(***************************************************************************)
Create == \E f \in Fds : \/ CreateNetListener(f)
                         \/ \E s \in Sessions : CreateNetConnecter(s, f) \/ ConnectAtOnce(s, f)
Process == OnAccept \/ OnConnect \/ OnConnectFailed
Run == \/ BeginRound \/ DelSockets
       \/ \E f \in Fds : \/ ConnectReady(f) \/ ConnectWait(f) \/ AcceptDone(f)
                         \/ \E p \in Peers, g \in Fds : AcceptSocket(f, p, g)

ListenerNext == \/ Create \/ Process \/ Run
                \/ \E s \in Sessions : ConnectNoSocket(s)
                \/ \E f \in Fds : CloseConnection(f)

ListenerSpec == ListenerInit /\ [][ListenerNext]_listenerVars

\* The kernel calls Process in every loop, and the thread goes on with its rounds.
ListenerFairSpec == ListenerSpec /\ WF_listenerVars(Process) /\ WF_listenerVars(Run)

(***************************************************************************)
(* Properties.                                                             *)
(***************************************************************************)
Things == Sessions \cup Peers \cup {Listener}

\* Every variable has its type, and the array keeps to its size.
ListenerTypeOK ==
  /\ owner \in [Fds -> Things \cup {None}]
  /\ connectMap \in [Fds -> Sessions \cup {None}]
  /\ threadQ \in Seq(Fds)
  /\ mainQ \in Seq([opt : {"accept", "add", "remove"}, who : Things, fd : Fds])
  /\ sockets \in [Fds -> -1 .. CONNECT_TIME_OUT_SIZE + 1]
  /\ Cardinality(Table) <= LISTEN_SOCKET_SIZE
  /\ todo \subseteq Fds /\ dels \subseteq Fds
  /\ outcome \in [Sessions ->
                    {"none", "trying", "connected", "failed", "timeout", "denied"}]
  /\ told \in [Sessions \cup Peers -> {"none", "connected", "failed", "error", "closed"}]
  /\ displaced \subseteq Sessions /\ dropped \subseteq Things

\* Callbacks and sockets agree though only descriptors are passed: a session hears what
\* became of its own socket and of no other, hears it once, and a connection is made of a
\* socket that is open and nobody else's.  This holds until a connect gets a descriptor
\* that the thread has closed and the main thread has not erased yet (CloseSocket in Run,
\* emplace in OnCreateNetConnecter).
AnswersItsOwn ==
  displaced = {} =>
    /\ \A s \in Sessions :
         /\ told[s] = "connected" => outcome[s] = "connected" /\ \E f \in Fds : owner[f] = s
         /\ told[s] = "failed" => outcome[s] \in {"failed", "timeout"}
    /\ \A i \in DOMAIN mainQ : LET evt == mainQ[i]
                               IN  evt.opt # "accept" => connectMap[evt.fd] = evt.who
    /\ \A f \in Table \ dels : owner[f] \in Sessions => connectMap[f] = owner[f]

\* A connect that is in progress comes to an end: the session hears of it after at most
\* the rounds of the time-out, unless it was not entered in the map or in the array.
EveryConnectAnswered ==
  \A s \in Sessions : outcome[s] = "trying" ~> told[s] # "none" \/ s \in displaced \cup dropped
=============================================================================
