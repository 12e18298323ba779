----------------------------- MODULE NetEngine -----------------------------
(***************************************************************************)
(* TCP connections on Linux (Kernel/Net): the main thread, which owns      *)
(* connections and drivers and runs the sessions' callbacks, and an epoll  *)
(* thread, which owns the epoll set and moves bytes.  They share the send  *)
(* buffers and two bounded event queues.                                   *)
(*                                                                         *)
(* A connection and its driver live and die together and are one element   *)
(* of Conns; a file descriptor is reused by the system once it is closed.  *)
(* Packets are abstracted to whether a send buffer holds data.  A thread   *)
(* in TryPush is one whose outbox is not empty: it does nothing else until *)
(* the queue has room.  All connections are served by one engine, as       *)
(* GetExecIOEngine always returns the first.                               *)
(***************************************************************************)
EXTENDS Integers, Sequences

CONSTANTS
  Conns,       \* the connections (with their drivers) that are ever made
  Fds,         \* file descriptors
  None,
  QueueSize    \* IOEngineEpoll::QUEUE_SIZE

ASSUME NoneAssumption == None \notin Conns /\ None \notin Fds
ASSUME QueueSizeAssumption == QueueSize \in Nat \ {0}

VARIABLES
  owner,       \* fd -> the connection whose socket is open on it
  conn,        \* the fields of each connection, of its driver and of its socket
  listenQ,     \* NetListenerMgr::_mainQueue: sockets accepted or connected
  threadQ,     \* IOEngineEpoll::_threadQueue, main thread to epoll thread
  mainQ,       \* IOEngineEpoll::_mainQueue, epoll thread to main thread
  pcMain, outMain,         \* the main thread and the event it is in TryPush with
  ready,       \* _readyDelDriver: fd -> connection
  pcWork, outWork, cur,    \* the epoll thread, its event, the connection it is binding
  ctlAdd       \* _ctlAddDrivers: fd -> connection

main == <<pcMain, ready>>
work == <<pcWork, cur, ctlAdd>>
vars == <<owner, conn, listenQ, threadQ, mainQ, main, outMain, work, outWork>>

Event(type, c, f) == [type |-> type, conn |-> c, fd |-> f]

\* phase: "new", "accepted" (a socket without connection), "open", "refused" or "freed";
\* session: _tcpSession is not null; data: the send buffer is not empty; peerFin and
\* shut: the peer's and our sending direction are closed.  told counts OnTerminate calls.
Fresh == [phase |-> "new", fd |-> None, session |-> FALSE, establish |-> FALSE,
          data |-> FALSE, activeClose |-> FALSE,
          peerFin |-> FALSE, shut |-> FALSE, told |-> 0]

Init ==
  /\ owner = [f \in Fds |-> None]
  /\ conn = [c \in Conns |-> Fresh]
  /\ listenQ = <<>> /\ threadQ = <<>> /\ mainQ = <<>>
  /\ pcMain = "client" /\ outMain = <<>> /\ ready = [f \in Fds |-> None]
  /\ pcWork = "flush" /\ outWork = <<>> /\ cur = None
  /\ ctlAdd = [f \in Fds |-> None]

Open(c) == conn[c].phase = "open"

(***************************************************************************)
(* The network.                                                            *)
(***************************************************************************)
\* The listener thread hands over a socket it accepted, or one that got connected.
Accept(c, f) ==
  /\ conn[c].phase = "new" /\ owner[f] = None
  /\ owner' = [owner EXCEPT ![f] = c]
  /\ conn' = [conn EXCEPT ![c].phase = "accepted", ![c].fd = f]
  /\ listenQ' = Append(listenQ, c)
  /\ UNCHANGED <<threadQ, mainQ, main, outMain, work, outWork>>

PeerClose(c) ==
  /\ conn[c].phase \in {"accepted", "open"} /\ ~conn[c].peerFin
  /\ conn' = [conn EXCEPT ![c].peerFin = TRUE]
  /\ UNCHANGED <<owner, listenQ, threadQ, mainQ, main, outMain, work, outWork>>

(***************************************************************************)
(* The main thread: sessions.                                              *)
(***************************************************************************)
\* Client code runs in the callbacks of all phases but "ready".
InClient == outMain = <<>> /\ pcMain # "ready"

\* TcpConnection::Send; a full buffer only drops data.
Send(c) ==
  /\ InClient
  /\ Open(c) /\ conn[c].session /\ ~conn[c].data
  /\ conn' = [conn EXCEPT ![c].data = TRUE]
  /\ UNCHANGED <<owner, listenQ, threadQ, mainQ, main, outMain, work, outWork>>

Bug_Close(c) ==
  /\ InClient
  /\ Open(c) /\ conn[c].session /\ conn[c].establish
  /\ conn' = [conn EXCEPT ![c].session = FALSE, ![c].told = @ + 1,
                          ![c].activeClose = conn[c].data]
  /\ IF conn[c].data THEN outMain' = <<>>
     ELSE outMain' = <<Event("SHUT_DWON", c, conn[c].fd)>>
  /\ UNCHANGED <<owner, listenQ, threadQ, mainQ, main, work, outWork>>

\* TcpConnection::Close and RemoveIODriver: with data to send, the epoll thread shuts the
\* socket down once it is sent, and the connection is unbound after DELAY_SEND seconds.
\* A session that closes before OnEstablish is not modelled (OnEstablish would then call
\* a null session).
Close(c) ==
  /\ InClient
  /\ Open(c) /\ conn[c].session /\ conn[c].establish
  /\ conn' = [conn EXCEPT ![c].session = FALSE, ![c].told = @ + 1,
                          ![c].activeClose = conn[c].data]
  /\ IF conn[c].data
     THEN /\ ready' = [ready EXCEPT ![conn[c].fd] = IF @ = None THEN c ELSE @]
          /\ UNCHANGED outMain
     ELSE /\ outMain' = <<Event("SHUT_DWON", c, conn[c].fd)>>
          /\ UNCHANGED ready
  /\ UNCHANGED <<owner, listenQ, threadQ, mainQ, pcMain, work, outWork>>

(***************************************************************************)
(* The main thread: NetService::Process.                                   *)
(***************************************************************************)
Goto(from, to) ==
  /\ outMain = <<>> /\ pcMain = from
  /\ pcMain' = to
  /\ UNCHANGED <<owner, conn, listenQ, threadQ, mainQ, outMain, ready, work, outWork>>

\* The OnRecv round is over, the rest of the kernel's loop too: the next one begins.
LoopBegin == Goto("client", "listen")

\* OnAccept or OnConnect: a connection and its driver are made, and bound by the thread.
CreateConnection ==
  /\ outMain = <<>> /\ pcMain = "listen" /\ listenQ # <<>>
  /\ listenQ' = Tail(listenQ)
  /\ LET c == Head(listenQ)
     IN  \/ /\ conn' = [conn EXCEPT ![c].phase = "open", ![c].session = TRUE]
            /\ outMain' = <<Event("BIND", c, conn[c].fd)>>
            /\ UNCHANGED owner
         \/ \* CreateSession returned null
            /\ conn' = [conn EXCEPT ![c].phase = "refused"]
            /\ owner' = [owner EXCEPT ![conn[c].fd] = None]
            /\ UNCHANGED outMain
  /\ UNCHANGED <<threadQ, mainQ, main, work, outWork>>

ListenDone == listenQ = <<>> /\ Goto("listen", "engine")

OnEstablish ==
  /\ outMain = <<>> /\ pcMain = "engine"
  /\ mainQ # <<>> /\ Head(mainQ).type = "BIND"
  /\ conn' = [conn EXCEPT ![Head(mainQ).conn].establish = TRUE]
  /\ mainQ' = Tail(mainQ)
  /\ UNCHANGED <<owner, listenQ, threadQ, main, outMain, work, outWork>>

Bug_OnClose ==
  /\ outMain = <<>> /\ pcMain = "engine"
  /\ mainQ # <<>> /\ Head(mainQ).type = "UNBIND"
  /\ LET c == Head(mainQ).conn
     IN  /\ owner' = [owner EXCEPT ![conn[c].fd] = None]
         /\ conn' = [conn EXCEPT ![c].phase = "freed", ![c].session = FALSE,
                                 ![c].told = IF conn[c].session THEN @ + 1 ELSE @]
  /\ mainQ' = Tail(mainQ)
  /\ UNCHANGED <<listenQ, threadQ, main, outMain, work, outWork>>

Bug_OnCloseTwice ==
  /\ outMain = <<>> /\ pcMain = "engine"
  /\ mainQ # <<>> /\ Head(mainQ).type = "UNBIND"
  /\ LET c == Head(mainQ).conn
     IN  /\ ready' = [ready EXCEPT ![conn[c].fd] = None]
         /\ owner' = [owner EXCEPT ![conn[c].fd] = None]
         /\ conn' = [conn EXCEPT ![c].phase = "freed", ![c].session = FALSE,
                                 ![c].told = @ + 1]
  /\ mainQ' = Tail(mainQ)
  /\ UNCHANGED <<listenQ, threadQ, pcMain, outMain, work, outWork>>

\* The passive close that destroys a connection: OnTerminate for a session that is still
\* there, then the socket is closed and the driver and the connection are deleted.
OnClose ==
  /\ outMain = <<>> /\ pcMain = "engine"
  /\ mainQ # <<>> /\ Head(mainQ).type = "UNBIND"
  /\ LET c == Head(mainQ).conn
     IN  /\ ready' = [ready EXCEPT ![conn[c].fd] = None]
         /\ owner' = [owner EXCEPT ![conn[c].fd] = None]
         /\ conn' = [conn EXCEPT ![c].phase = "freed", ![c].session = FALSE,
                                 ![c].told = IF conn[c].session THEN @ + 1 ELSE @]
  /\ mainQ' = Tail(mainQ)
  /\ UNCHANGED <<listenQ, threadQ, pcMain, outMain, work, outWork>>

EngineDone == mainQ = <<>> /\ Goto("engine", "ready")

\* DELAY_SEND seconds have passed since a Close with data to send.
ReadyExpire(f) ==
  /\ outMain = <<>> /\ pcMain = "ready"
  /\ ready[f] # None
  /\ outMain' = <<Event("UNBIND", ready[f], conn[ready[f]].fd)>>
  /\ ready' = [ready EXCEPT ![f] = None]
  /\ UNCHANGED <<owner, conn, listenQ, threadQ, mainQ, pcMain, work, outWork>>

ReadyDone == Goto("ready", "client")

\* TryPush into _threadQueue.
MainPush ==
  /\ outMain # <<>> /\ Len(threadQ) < QueueSize
  /\ threadQ' = threadQ \o outMain
  /\ outMain' = <<>>
  /\ UNCHANGED <<owner, conn, listenQ, mainQ, main, work, outWork>>

(***************************************************************************)
(* The epoll thread: IOEngineEpoll::Run.                                   *)
(***************************************************************************)
Bound == {c \in Conns : \E f \in Fds : ctlAdd[f] = c}

\* OnSend for every bound driver: some sockets take the data, and those with none left
\* that are to be closed are shut down.
FlushData ==
  /\ outWork = <<>> /\ pcWork = "flush"
  /\ \E sent \in SUBSET {c \in Bound : conn[c].data} :
       conn' = [c \in Conns |->
                  IF c \in sent \/ (c \in Bound /\ ~conn[c].data)
                  THEN [conn[c] EXCEPT !.data = FALSE, !.shut = @ \/ conn[c].activeClose]
                  ELSE conn[c]]
  /\ pcWork' = "drain"
  /\ UNCHANGED <<owner, listenQ, threadQ, mainQ, main, outMain, outWork, cur, ctlAdd>>

Bug_UnBindEpoll(evt) ==
  IF ctlAdd[evt.fd] = None
  THEN UNCHANGED <<ctlAdd, outWork>>
  ELSE UNCHANGED ctlAdd /\ outWork' = <<evt>>

\* What UnBindEpoll does with an event: nothing if the fd is not bound.
UnBindEpoll(evt) ==
  IF ctlAdd[evt.fd] = None
  THEN UNCHANGED <<ctlAdd, outWork>>
  ELSE /\ ctlAdd' = [ctlAdd EXCEPT ![evt.fd] = None]
       /\ outWork' = <<evt>>

ThreadPop(type) ==
  /\ outWork = <<>> /\ pcWork = "drain"
  /\ threadQ # <<>> /\ Head(threadQ).type = type
  /\ threadQ' = Tail(threadQ)

\* The first half of BindEpoll: epoll_ctl fails, or the driver is bound and the main
\* thread told; OnRead comes after that.
BindEpoll ==
  /\ ThreadPop("BIND")
  /\ LET evt == Head(threadQ)
         f == conn[evt.conn].fd
     IN  \/ /\ ctlAdd[f] # None
            /\ UNCHANGED <<ctlAdd, outWork, pcWork, cur>>
         \/ /\ ctlAdd[f] = None
            /\ outWork' = <<Event("UNBIND", evt.conn, evt.fd)>>
            /\ UNCHANGED <<ctlAdd, pcWork, cur>>
         \/ /\ ctlAdd[f] = None
            /\ ctlAdd' = [ctlAdd EXCEPT ![f] = evt.conn]
            /\ outWork' = <<evt>>
            /\ pcWork' = "bound" /\ cur' = evt.conn
  /\ UNCHANGED <<owner, conn, listenQ, mainQ, main, outMain>>

\* The second half: the first OnRead, which fails on an error or a full buffer, and for
\* a peer that has closed.
BindRead ==
  /\ outWork = <<>> /\ pcWork = "bound"
  /\ \/ /\ ~conn[cur].peerFin
        /\ UNCHANGED <<ctlAdd, outWork>>
     \/ UnBindEpoll(Event("UNBIND", cur, conn[cur].fd))
  /\ pcWork' = "drain" /\ cur' = None
  /\ UNCHANGED <<owner, conn, listenQ, threadQ, mainQ, main, outMain>>

ThreadUnbind ==
  /\ ThreadPop("UNBIND")
  /\ UnBindEpoll(Head(threadQ))
  /\ UNCHANGED <<owner, conn, listenQ, mainQ, main, outMain, pcWork, cur>>

\* shutdown(evt.socket, SHUT_WR), on whatever socket has that descriptor now.
ThreadShutdown ==
  /\ ThreadPop("SHUT_DWON")
  /\ LET c == owner[Head(threadQ).fd]
     IN  conn' = IF c = None THEN conn ELSE [conn EXCEPT ![c].shut = TRUE]
  /\ UNCHANGED <<owner, listenQ, mainQ, main, outMain, work, outWork>>

DrainDone ==
  /\ outWork = <<>> /\ pcWork = "drain" /\ threadQ = <<>>
  /\ pcWork' = "epoll"
  /\ UNCHANGED <<owner, conn, listenQ, threadQ, mainQ, main, outMain, outWork, cur, ctlAdd>>

\* An event on which OnEvent fails: the peer has closed, or an error.  Events on which it
\* does not fail move bytes only.
EpollEvent(c) ==
  /\ outWork = <<>> /\ pcWork = "epoll" /\ c \in Bound
  /\ UnBindEpoll(Event("UNBIND", c, conn[c].fd))
  /\ UNCHANGED <<owner, conn, listenQ, threadQ, mainQ, main, outMain, pcWork, cur>>

\* epoll_wait reports a closed peer; otherwise it times out.
EpollDone ==
  /\ outWork = <<>> /\ pcWork = "epoll"
  /\ \A c \in Bound : ~conn[c].peerFin
  /\ pcWork' = "flush"
  /\ UNCHANGED <<owner, conn, listenQ, threadQ, mainQ, main, outMain, outWork, cur, ctlAdd>>

\* TryPush into _mainQueue.
WorkPush ==
  /\ outWork # <<>> /\ Len(mainQ) < QueueSize
  /\ mainQ' = mainQ \o outWork
  /\ outWork' = <<>>
  /\ UNCHANGED <<owner, conn, listenQ, threadQ, main, outMain, work>>

(***************************************************************************)
(* Specification.                                                          *)
(***************************************************************************)
Network == \E c \in Conns : PeerClose(c) \/ \E f \in Fds : Accept(c, f)
Client == \E c \in Conns : Send(c) \/ Close(c)
Process == \/ LoopBegin \/ CreateConnection \/ ListenDone \/ OnEstablish \/ OnClose
           \/ EngineDone \/ ReadyDone \/ MainPush
Expire == \E f \in Fds : ReadyExpire(f)
Run == \/ FlushData \/ BindEpoll \/ BindRead \/ ThreadUnbind \/ ThreadShutdown
       \/ DrainDone \/ EpollDone \/ WorkPush \/ \E c \in Conns : EpollEvent(c)

Next == Network \/ Client \/ Process \/ Expire \/ Run

Spec == Init /\ [][Next]_vars

\* Both threads loop for ever, and DELAY_SEND seconds pass.  Nothing is assumed of the
\* peers, nor of the sessions.
FairSpec == Spec /\ WF_vars(Process) /\ WF_vars(Run)
                 /\ SF_vars(Expire)

(***************************************************************************)
(* Properties.                                                             *)
(***************************************************************************)
Events == [type : {"BIND", "UNBIND", "SHUT_DWON"}, conn : Conns, fd : Fds]
ConnFields ==
  [phase : {"new", "accepted", "open", "refused", "freed"}, fd : Fds \cup {None},
   session : BOOLEAN, establish : BOOLEAN, data : BOOLEAN, activeClose : BOOLEAN,
   peerFin : BOOLEAN, shut : BOOLEAN, told : 0 .. 1]
FdMap == [Fds -> Conns \cup {None}]
Outbox == {<<>>} \cup {<<e>> : e \in Events}

\* Every variable has its type, and the queues keep their bound.
TypeOK ==
  /\ owner \in FdMap /\ ready \in FdMap /\ ctlAdd \in FdMap
  /\ conn \in [Conns -> ConnFields]
  /\ listenQ \in Seq(Conns)
  /\ threadQ \in Seq(Events) /\ Len(threadQ) <= QueueSize
  /\ mainQ \in Seq(Events) /\ Len(mainQ) <= QueueSize
  /\ outMain \in Outbox /\ outWork \in Outbox
  /\ pcMain \in {"client", "listen", "engine", "ready"}
  /\ pcWork \in {"flush", "drain", "bound", "epoll"}
  /\ cur \in Conns \cup {None}

InSeq(s) == {s[i] : i \in DOMAIN s}
ToMain == InSeq(mainQ) \cup InSeq(outWork)
ToThread == InSeq(threadQ) \cup InSeq(outMain)

\* No thread can come to use a deleted driver: those bound, those about to be bound,
\* those the main thread is told of and those whose delayed close is pending are alive,
\* though the main thread deletes a driver while the other may still have events of it
\* (RemoveConnection; UnBindEpoll, which looks the fd up before it passes an event on).
NoDeletedDriver ==
  /\ \A c \in Bound \cup ({cur} \ {None}) : Open(c)
  /\ \A e \in ToMain : Open(e.conn)
  /\ \A e \in ToThread : e.type = "BIND" => Open(e.conn)
  /\ \A f \in Fds : ready[f] # None => Open(ready[f]) /\ conn[ready[f]].fd = f

\* Descriptors are reused, but an event that unbinds one reaches only the connection it
\* was meant for, and a connection's descriptor stays its own until it is closed.
UnbindsOnlyItsOwn ==
  /\ \A e \in ToThread : e.type = "UNBIND" => ctlAdd[e.fd] \in {e.conn, None}
  /\ \A c \in Conns : Open(c) => owner[conn[c].fd] = c
  /\ \A f \in Fds : ctlAdd[f] # None => owner[f] = ctlAdd[f]

\* Every session gets exactly one OnTerminate, from Close or from the passive close,
\* and it is never the main thread's to destroy it twice.
TerminatedOnce ==
  \A c \in Conns : /\ Open(c) => conn[c].told = (IF conn[c].session THEN 0 ELSE 1)
                   /\ conn[c].phase = "freed" => conn[c].told = 1

\* A connection whose peer has closed, or that was closed with data to send, is
\* destroyed: both threads get through to the end of the passive close, and neither
\* waits for the other for ever.  (One closed with nothing to send waits for its peer.)
ClosingIsDestroyed ==
  \A c \in Conns :
    Open(c) /\ (conn[c].peerFin \/ conn[c].activeClose) ~> conn[c].phase = "freed"
=============================================================================
