------------------------------- MODULE Harbor -------------------------------
(***************************************************************************)
(* The harbor (logic/Logic/Harbor) of two nodes and what a node listener   *)
(* such as Cluster is told.  The node with the lower key, end "c", connects *)
(* to the other one, end "s"; the reverse direction is refused, so each end *)
(* has one channel: s_sessions and s_clientSessions are one entry or None. *)
(* Both ends of a connection send a handshake when it is established; the  *)
(* peer's handshake gives a session its identity and, 100 ms later, opens  *)
(* the node.                                                               *)
(*                                                                         *)
(* All handlers run in the main thread of their process, one at a time.    *)
(* They call each other (Close runs OnTerminate and OnRelease before it    *)
(* returns), so they are operators from a state w of the two processes to  *)
(* the states that can come out: more than one where memory that was never *)
(* initialised decides.  The epoll threads and the network move the        *)
(* handshakes in between.                                                  *)
(***************************************************************************)
EXTENDS Naturals

CONSTANTS
  Links,       \* TCP connections that are ever tried
  Clients,     \* HarborClientSession objects that are ever made
  None

ASSUME SessionsAssumption == /\ Links \cap Clients = {}
                             /\ None \notin Links \cup Clients

Ends == {"c", "s"}
Peer(e) == IF e = "c" THEN "s" ELSE "c"
Sess == Clients \cup Links          \* the session accepted for a link is named after it
EndOf(s) == IF s \in Clients THEN "c" ELSE "s"

VARIABLES
  node,        \* per end: the maps and what the listeners were told
  sess,        \* the sessions' fields
  link,        \* per link and end: the TcpConnection and its two buffers
  broken       \* links the network has cut

vars == <<node, sess, link, broken>>

\* sessions and clientSessions: the entry of the peer's channel; known: the last the
\* listeners were told is OnOpen.  Bookkeeping: refused, a second session of the peer was
\* refused.
FreshNode == [sessions |-> None, clientSessions |-> None, known |-> FALSE,
              crashed |-> FALSE, refused |-> FALSE]

\* identity: _nodeType and _nodeId are set; delay: _delayOpenTimer, which the constructor
\* leaves as it is.  Bookkeeping: denied, the last connect failed before it returned.
FreshSession == [live |-> FALSE, conn |-> None, identity |-> FALSE, delay |-> "garbage",
                 active |-> FALSE, connecting |-> FALSE, timer |-> FALSE, denied |-> FALSE]

\* tcp: "none", "pending" (connect in progress), "backlog" (not accepted yet), "open",
\* "closing" (TcpConnection::Close was called) or "gone"; out and in: a handshake is in the
\* send and in the receive buffer.  Bookkeeping: lost, a handshake was thrown away unsent.
FreshEnd == [tcp |-> "none", session |-> None, establish |-> FALSE,
             out |-> FALSE, in |-> FALSE, lost |-> FALSE]

Init ==
  /\ node = [e \in Ends |-> FreshNode]
  /\ sess = [s \in Sess |-> FreshSession]
  /\ link = [l \in Links |-> [e \in Ends |-> FreshEnd]]
  /\ broken = {}

Now == [node |-> node, sess |-> sess, link |-> link]
Become(w) == node' = w.node /\ sess' = w.sess /\ link' = w.link /\ UNCHANGED broken
Running(e) == ~node[e].crashed

(***************************************************************************)
(* Handlers.                                                               *)
(***************************************************************************)
Crash(w, e) == [w EXCEPT !.node[e].crashed = TRUE]

Bug_OnClose(w, e, s) ==
  IF ~w.sess[s].identity THEN {w}
  ELSE {[w EXCEPT !.sess[s].identity = FALSE, !.node[e].known = FALSE,
                  !.node[e].sessions = None]}

Bug_OnCloseIdentity(w, e, s) ==
  IF ~w.sess[s].identity THEN {w}
  ELSE {[w EXCEPT !.sess[s].delay = "null", !.node[e].known = FALSE,
                  !.node[e].sessions = None]}

\* Harbor::OnClose.  A delay timer that is armed is killed; an uninitialised pointer may
\* be null, or KillTimer follows it.
OnClose(w, e, s) ==
  LET told == [w EXCEPT !.sess[s].identity = FALSE, !.sess[s].delay = "null",
                        !.node[e].known = FALSE, !.node[e].sessions = None]
  IN  IF ~w.sess[s].identity THEN {w}
      ELSE {told} \cup (IF w.sess[s].delay = "garbage" THEN {Crash(w, e)} ELSE {})

\* OnHarborClientSessionRelease erases whatever session has the channel; if there is none
\* it returns before it deletes.
OnHarborClientSessionRelease(w, s) ==
  IF w.node["c"].clientSessions = None THEN w
  ELSE [w EXCEPT !.node["c"].clientSessions = None, !.sess[s].live = FALSE]

Bug_OnRelease(w, s) ==
  IF s \in Links THEN [w EXCEPT !.sess[s].live = FALSE]
  ELSE IF w.sess[s].active THEN OnHarborClientSessionRelease(w, s)
       ELSE [w EXCEPT !.sess[s].timer = ~w.sess[s].connecting]

\* OnRelease: an accepted session is deleted; a client session is deleted after an active
\* close and otherwise starts the timer that reconnects it.
OnRelease(w, s) ==
  IF s \in Links THEN [w EXCEPT !.sess[s].live = FALSE]
  ELSE IF w.sess[s].active
       THEN OnHarborClientSessionRelease([w EXCEPT !.sess[s].timer = FALSE], s)
       ELSE [w EXCEPT !.sess[s].timer = TRUE]

\* What TcpConnection::Close and TcpConnection::OnTerminate do with the session: it loses
\* its connection, hears OnTerminate and is released.
Detach(w, l, e, tcp) ==
  LET s == w.link[l][e].session
      cut == [w EXCEPT !.link[l][e].session = None, !.link[l][e].tcp = tcp,
                       !.link[l][e].in = FALSE]
  IN  IF s = None THEN {cut}
      ELSE {OnRelease(v, s) : v \in OnClose([cut EXCEPT !.sess[s].conn = None], e, s)}

\* HarborSession::Close and HarborClientSession::Close.
Close(w, s) ==
  LET v == [w EXCEPT !.sess[s].active = TRUE]
  IN  IF v.sess[s].conn # None THEN Detach(v, v.sess[s].conn, EndOf(s), "closing")
      ELSE IF s \in Clients /\ ~v.sess[s].connecting THEN {OnRelease(v, s)}
      ELSE {v}

\* TcpConnection::Init, for both kinds of sockets.
Attach(w, l, e, s) ==
  [w EXCEPT !.link[l][e].tcp = "open", !.link[l][e].session = s, !.sess[s].conn = l]

\* CreateNetConnecter: connected at once, in progress, without a socket, or failed, where
\* the session hears OnError and no OnRelease.
CreateNetSession(w, s, l) ==
  LET try == [w EXCEPT !.sess[s].denied = FALSE]
      fail == [w EXCEPT !.sess[s].denied = TRUE, !.link[l]["c"].tcp = "gone"]
  IN  {[Attach(try, l, "c", s) EXCEPT !.link[l]["s"].tcp = "backlog"],
       [try EXCEPT !.link[l]["c"].tcp = "pending", !.link[l]["c"].session = s],
       fail, [fail EXCEPT !.sess[s].connecting = FALSE]}

(***************************************************************************)
(* The harbor's operations.                                                *)
(***************************************************************************)
Unused(l) == link[l]["c"].tcp = "none"

\* ConnectHarbor to a channel that may already have a session.  The new session is
\* entered in s_clientSessions if the old one has left it by then.
ConnectHarbor(s, l, force) ==
  /\ Running("c") /\ sess[s] = FreshSession /\ Unused(l)
  /\ node["c"].clientSessions # None => force
  /\ \E w \in (IF node["c"].clientSessions = None THEN {Now}
               ELSE Close(Now, node["c"].clientSessions)) :
       IF w.node["c"].crashed THEN Become(w)
       ELSE \E v \in CreateNetSession([w EXCEPT !.sess[s].live = TRUE], s, l) :
              Become([v EXCEPT !.sess[s].connecting = TRUE,
                               !.node["c"].clientSessions = IF @ = None THEN s ELSE @])

DisconnectHarbor ==
  /\ Running("c") /\ node["c"].clientSessions # None
  /\ \E w \in Close(Now, node["c"].clientSessions) : Become(w)

\* ReConnectTimer::OnTime and OnTerminate.
ReConnectTime(s, l) ==
  /\ Running("c") /\ sess[s].timer /\ Unused(l)
  /\ \E w \in CreateNetSession([Now EXCEPT !.sess[s].connecting = TRUE], s, l) :
       Become([w EXCEPT !.sess[s].timer = FALSE])

\* NetListenerMgr::OnConnect and OnConnectFailed.
OnConnect(l) ==
  /\ Running("c") /\ Running("s") /\ link[l]["c"].tcp = "pending"
  /\ Become([Attach(Now, l, "c", link[l]["c"].session) EXCEPT
               !.link[l]["s"].tcp = "backlog"])

OnConnectFailed(l) ==
  /\ Running("c") /\ link[l]["c"].tcp = "pending"
  /\ LET s == link[l]["c"].session
         w == [Now EXCEPT !.link[l]["c"].tcp = "gone", !.link[l]["c"].session = None,
                          !.sess[s].connecting = FALSE]
     IN  Become(OnRelease(w, s))

\* NetListenerMgr::OnAccept, with Harbor::CreateSession.
OnAccept(l) ==
  /\ Running("s") /\ link[l]["s"].tcp = "backlog"
  /\ Become(Attach([Now EXCEPT !.sess[l].live = TRUE], l, "s", l))

\* TcpConnection::OnEstablish calls its session without a check: one that has closed the
\* connection by then is null.  Harbor::OnOpen writes the handshake.
OnEstablish(l, e) ==
  /\ Running(e) /\ link[l][e].tcp \in {"open", "closing"} /\ ~link[l][e].establish
  /\ LET s == link[l][e].session
         w == [Now EXCEPT !.link[l][e].establish = TRUE]
     IN  IF s = None THEN Become(Crash(w, e))
         ELSE LET v == [w EXCEPT !.sess[s].connecting = FALSE]
              IN  IF e = "c" /\ sess[s].active
                  THEN \E u \in Detach(v, l, e, "closing") : Become(u)
                  ELSE Become([v EXCEPT !.link[l][e].out = TRUE])

\* The throwing away of both buffers by SettingBuffSize.
SettingBuffSize(w, l, e) ==
  [w EXCEPT !.link[l][e].out = FALSE, !.link[l][e].lost = w.link[l][e].out]

\* OnRecvHarborHandshakeMsg; it may come before OnEstablish.
OnRecvHarborHandshakeMsg(l, e) ==
  /\ Running(e) /\ link[l][e].tcp = "open" /\ link[l][e].in
  /\ LET s == link[l][e].session
         w == [Now EXCEPT !.link[l][e].in = FALSE, !.sess[s].identity = TRUE]
     IN  IF node[e].sessions # None
         THEN \E v \in Close([w EXCEPT !.node[e].refused = TRUE], s) : Become(v)
         ELSE Become([SettingBuffSize(w, l, e) EXCEPT
                        !.node[e].sessions = s, !.sess[s].delay = "armed"])

\* OnTimerSessionDelayOpen.
DelayOpen(s) ==
  /\ Running(EndOf(s)) /\ sess[s].delay = "armed"
  /\ Become([Now EXCEPT !.sess[s].delay = "null", !.node[EndOf(s)].known = TRUE])

\* TcpConnection::OnTerminate: the peer has closed or died, the network has cut the link,
\* the socket could not be bound, or the delay of an active close is over.
OnTerminate(l, e) ==
  /\ Running(e) /\ link[l][e].tcp \in {"open", "closing"}
  /\ \/ link[l][Peer(e)].tcp \in {"closing", "gone"} \/ ~Running(Peer(e))
     \/ l \in broken \/ ~link[l][e].establish \/ link[l][e].tcp = "closing"
  /\ \E w \in Detach(Now, l, e, "gone") : Become(w)

(***************************************************************************)
(* The epoll thread and the network.                                       *)
(***************************************************************************)
Bug_Arrives(l, e) == l \notin broken /\ link[l][Peer(e)].tcp = "open"
Arrives(l, e) == l \notin broken /\ link[l][Peer(e)].tcp \in {"backlog", "open"}

\* FlushData: the handshake leaves the send buffer and, if the link is up, arrives; the
\* peer reads it when it binds the socket at the latest.
Flush(l, e) ==
  /\ Running(e) /\ link[l][e].tcp \in {"open", "closing"} /\ link[l][e].out
  /\ link' = [link EXCEPT ![l][e].out = FALSE, ![l][Peer(e)].in = @ \/ Arrives(l, e)]
  /\ UNCHANGED <<node, sess, broken>>

Break(l) ==
  /\ link[l]["c"].tcp = "open" /\ l \notin broken
  /\ broken' = broken \cup {l}
  /\ UNCHANGED <<node, sess, link>>

(***************************************************************************)
(* Specification.                                                          *)
(***************************************************************************)
Handle(l, e) == OnEstablish(l, e) \/ OnRecvHarborHandshakeMsg(l, e) \/ Flush(l, e)

Next ==
  \/ \E s \in Clients, l \in Links :
       ReConnectTime(s, l) \/ \E force \in BOOLEAN : ConnectHarbor(s, l, force)
  \/ DisconnectHarbor
  \/ \E l \in Links : \/ OnConnect(l) \/ OnConnectFailed(l) \/ OnAccept(l) \/ Break(l)
                      \/ \E e \in Ends : Handle(l, e) \/ OnTerminate(l, e)
  \/ \E s \in Sess : DelayOpen(s)

Spec == Init /\ [][Next]_vars

\* The threads of a running process loop for ever and its timers fire.  Nothing is
\* assumed of the network, of connects and closes, nor of the peer.
FairSpec ==
  /\ Spec
  /\ \A l \in Links : WF_vars(OnAccept(l)) /\ \A e \in Ends : WF_vars(Handle(l, e))
  /\ \A s \in Sess : WF_vars(DelayOpen(s))

(***************************************************************************)
(* Properties.                                                             *)
(***************************************************************************)
TypeOK ==
  /\ node \in [Ends -> [sessions : Sess \cup {None}, clientSessions : Clients \cup {None},
                        known : BOOLEAN, crashed : BOOLEAN, refused : BOOLEAN]]
  /\ sess \in [Sess -> [live : BOOLEAN, conn : Links \cup {None}, identity : BOOLEAN,
                        delay : {"garbage", "null", "armed"}, active : BOOLEAN,
                        connecting : BOOLEAN, timer : BOOLEAN, denied : BOOLEAN]]
  /\ link \in [Links -> [Ends -> [
                 tcp : {"none", "pending", "backlog", "open", "closing", "gone"},
                 session : Sess \cup {None}, establish : BOOLEAN, out : BOOLEAN,
                 in : BOOLEAN, lost : BOOLEAN]]]
  /\ broken \subseteq Links

\* No pointer outlives its session: what the two maps, the connections, the connects in
\* progress and the timers of a running node refer to has not been deleted, and a
\* connection and its session always refer to each other (DEL in OnRelease and
\* OnHarborClientSessionRelease; the raw pointers of DelayOpenTimer and ReConnectTimer).
NoDanglingSession ==
  /\ \A e \in Ends : Running(e) =>
       /\ node[e].sessions # None => sess[node[e].sessions].live
       /\ node[e].clientSessions # None => sess[node[e].clientSessions].live
       /\ \A l \in Links : LET s == link[l][e].session
                           IN  s # None => /\ sess[s].live /\ EndOf(s) = e
                                           /\ sess[s].conn \in {l, None}
                                           /\ link[l][e].tcp = "open" => sess[s].conn = l
  /\ \A s \in Sess : Running(EndOf(s)) =>
       /\ sess[s].delay = "armed" \/ sess[s].timer => sess[s].live
       /\ sess[s].conn # None => link[sess[s].conn][EndOf(s)].session = s

\* Until a node has refused a second session of its peer (OnRecvHarborHandshakeMsg closes
\* it after it was given the peer's identity), s_sessions has exactly the session with an
\* identity, its connection is open, and the listeners know the peer exactly when that
\* session is past its delay.
RegistryAgrees ==
  \A e \in Ends : Running(e) /\ ~node[e].refused =>
    /\ \A s \in Sess : EndOf(s) = e => (sess[s].identity <=> node[e].sessions = s)
    /\ LET s == node[e].sessions
       IN  /\ s # None => sess[s].conn # None /\ sess[s].delay # "garbage"
           /\ node[e].known <=> (s # None /\ sess[s].delay = "null")

\* A client session that nobody closed goes on trying for ever: it has a connection, a
\* connect in progress or a reconnect timer, unless its last connect failed before it
\* returned (CreateNetConnecter then calls OnError and never OnRelease).
KeepsTrying ==
  \A s \in Clients : Running("c") /\ sess[s].live /\ ~sess[s].active =>
    \/ sess[s].conn # None \/ sess[s].timer \/ sess[s].denied
    \/ \E l \in Links : link[l]["c"].tcp = "pending" /\ link[l]["c"].session = s

Up(l) == /\ l \notin broken
         /\ \A e \in Ends : Running(e) /\ link[l][e].tcp = "open"

\* On a connection that stays up both ends learn who the other one is, unless a node threw
\* its own handshake away: SettingBuffSize replaces a send buffer that the epoll thread
\* has not flushed yet.
HandshakeCompletes ==
  \A l \in Links :
    link[l]["s"].tcp = "open" ~> \/ ~Up(l)
                                 \/ \A e \in Ends : sess[link[l][e].session].identity
                                 \/ \E e \in Ends : link[l][e].lost
=============================================================================
