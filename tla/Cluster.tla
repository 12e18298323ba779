------------------------------ MODULE Cluster ------------------------------
(***************************************************************************)
(* How the nodes of a cluster find each other (logic/Framework/Cluster over *)
(* logic/Logic/Harbor).  Every node keeps a session to the master.  When   *)
(* one opens, the master tells, for each pair, the node with the lower     *)
(* channel to connect to the other.  Nodes and the master crash and start  *)
(* again, connections are cut, and the two ends of a session notice at     *)
(* different times.  What happens between the two nodes that connect is    *)
(* Harbor's subject.                                                       *)
(***************************************************************************)
EXTENDS Integers, FiniteSets, SequencesExt

CONSTANTS
  Nodes,        \* the channels of the nodes, as GetSessionChannel orders them
  MaxSessions,  \* bound on the connections to the master
  Handshake,    \* a message; the others are the channels to connect to
  NoSession

ASSUME NodesAssumption ==
  Nodes \subseteq Nat /\ IsFiniteSet(Nodes) /\ NoSession \notin Nat /\ Handshake \notin Nodes
ASSUME BoundAssumption == MaxSessions \in Nat

Sessions == 1 .. MaxSessions

VARIABLES
  up,        \* the nodes whose process runs
  own,       \* the connection that each node has to the master
  clients,   \* s_clientSessions of each node, the master apart
  session,   \* per connection: its node, and what the master has of it
  sessions,  \* s_sessions of the master
  known,     \* s_clusterNodeMap of the master: its keys
  wire,      \* what the master has sent on each connection, not yet handled
  cut,       \* connections that are closed or lost, though an end may not know
  refused,   \* history: nodes of which the master has refused a second session
  lost       \* history: connections on which SettingBuffSize threw a message away

clusterVars == <<up, own, clients, session, sessions, known, wire, cut, refused, lost>>

\* accepted: nothing was received yet; delay: the DelayOpenTimer runs; open: the listeners
\* were told.  In the last two the session has its identity.
States == {"accepted", "delay", "open", "gone"}
ASSUME NullAssumption == NoSession \notin [node : Nodes, state : States]
Identified(s) == session[s].state \in {"delay", "open"}

Unused == {s \in Sessions : session[s] = NoSession}

ClusterInit ==
  /\ up = {} /\ own = [n \in Nodes |-> NoSession] /\ clients = [n \in Nodes |-> {}]
  /\ session = [s \in Sessions |-> NoSession] /\ sessions = [n \in Nodes |-> NoSession]
  /\ known = {} /\ wire = [s \in Sessions |-> <<>>]
  /\ cut = {} /\ refused = {} /\ lost = {}

(***************************************************************************)
(* A node.                                                                 *)
(***************************************************************************)
Start(n) ==
  /\ n \notin up
  /\ up' = up \cup {n}
  /\ UNCHANGED <<own, clients, session, sessions, known, wire, cut, refused, lost>>

\* What is left of the wires when the node has left connection s.
Dropped(s) == [x \in Sessions |-> IF x = s THEN <<>> ELSE wire[x]]

Crash(n) ==
  /\ n \in up
  /\ up' = up \ {n}
  /\ own' = [own EXCEPT ![n] = NoSession]
  /\ clients' = [clients EXCEPT ![n] = {}]
  /\ cut' = cut \cup ({own[n]} \ {NoSession})
  /\ wire' = Dropped(own[n])
  /\ UNCHANGED <<session, sessions, known, refused, lost>>

\* Launched, and the reconnect timer later.  Both ends send their handshake at once.
ConnectHarbor(n) ==
  /\ n \in up /\ own[n] = NoSession /\ Unused # {}
  /\ LET s == CHOOSE x \in Unused : \A y \in Unused : x <= y
     IN  /\ own' = [own EXCEPT ![n] = s]
         /\ session' = [session EXCEPT ![s] = [node |-> n, state |-> "accepted"]]
         /\ wire' = [wire EXCEPT ![s] = <<Handshake>>]
  /\ UNCHANGED <<up, clients, sessions, known, cut, refused, lost>>

\* The end of the connection reaches the node, which loses what it has not handled.
OnTerminate(n) ==
  /\ own[n] # NoSession /\ own[n] \in cut
  /\ own' = [own EXCEPT ![n] = NoSession]
  /\ wire' = Dropped(own[n])
  /\ UNCHANGED <<up, clients, session, sessions, known, cut, refused, lost>>

\* The master's handshake: SettingBuffSize throws away what has arrived behind it.
OnRecvHandshake(n) ==
  LET s == own[n]
  IN  /\ s # NoSession
      /\ wire[s] # <<>> /\ Head(wire[s]) = Handshake
      /\ \E k \in 1 .. Len(wire[s]) :
           /\ wire' = [wire EXCEPT ![s] = SubSeq(@, k + 1, Len(@))]
           /\ lost' = IF k > 1 THEN lost \cup {s} ELSE lost
      /\ UNCHANGED <<up, own, clients, session, sessions, known, cut, refused>>

\* A forced ConnectHarbor.
OnRecvClusterAdhocMsg(n) ==
  LET s == own[n]
  IN  /\ s # NoSession
      /\ wire[s] # <<>> /\ Head(wire[s]) # Handshake
      /\ clients' = IF Head(wire[s]) < n THEN clients
                    ELSE [clients EXCEPT ![n] = @ \cup {Head(wire[s])}]
      /\ wire' = [wire EXCEPT ![s] = Tail(@)]
      /\ UNCHANGED <<up, own, session, sessions, known, cut, refused, lost>>

(***************************************************************************)
(* The master.                                                             *)
(***************************************************************************)
\* Harbor::OnClose of a session with an identity: Cluster forgets the node, and s_sessions
\* loses whatever session of the node it has.
Told(n) == known' = known \ {n} /\ sessions' = [sessions EXCEPT ![n] = NoSession]

Bug_OnRecvHarborHandshakeMsg(s) ==
  LET n == session[s].node
  IN  /\ session[s] # NoSession /\ session[s].state = "accepted" /\ sessions[n] = NoSession
      /\ sessions' = [sessions EXCEPT ![n] = s]
      /\ session' = [session EXCEPT ![s].state = "open"]
      /\ UNCHANGED <<up, own, clients, known, wire, cut, refused, lost>>

\* OnRecvHarborHandshakeMsg.  The session is refused, after it got its identity, if there
\* is one; otherwise SettingBuffSize throws the master's handshake away, if it is unsent.
OnRecvHarborHandshakeMsg(s) ==
  LET n == session[s].node
  IN  /\ session[s] # NoSession /\ session[s].state = "accepted"
      /\ \/ /\ sessions[n] # NoSession
            /\ session' = [session EXCEPT ![s].state = "gone"]
            /\ cut' = cut \cup {s}
            /\ refused' = refused \cup {n}
            /\ Told(n)
            /\ UNCHANGED wire
         \/ /\ sessions[n] = NoSession
            /\ sessions' = [sessions EXCEPT ![n] = s]
            /\ session' = [session EXCEPT ![s].state = "delay"]
            /\ wire' \in {wire, [wire EXCEPT ![s] = <<>>]}
            /\ UNCHANGED <<known, cut, refused>>
      /\ UNCHANGED <<up, own, clients, lost>>

\* SendMessage, to those of the nodes that s_sessions has; it is lost if the node has left.
Send(what) ==
  [s \in Sessions |-> IF \E n \in Nodes : sessions[n] = s /\ own[n] = s
                      THEN wire[s] \o what[session[s].node] ELSE wire[s]]

Bug_Adhoc(n) == [m \in Nodes |-> IF m \in known /\ m < n THEN <<n>> ELSE <<>>]
\* What Cluster::OnOpen of n sends to whom; the unordered map is walked in some order.
Adhoc(n) ==
  [m \in Nodes |-> IF m = n THEN SetToSeq({k \in known : k > n})
                   ELSE IF m \in known /\ m < n THEN <<n>> ELSE <<>>]

\* OnTimerSessionDelayOpen and Cluster::OnOpen.
OnOpen(s) ==
  LET n == session[s].node
  IN  /\ session[s] # NoSession /\ session[s].state = "delay"
      /\ session' = [session EXCEPT ![s].state = "open"]
      /\ wire' = IF n \in known THEN wire ELSE Send(Adhoc(n))
      /\ known' = known \cup {n}
      /\ UNCHANGED <<up, own, clients, sessions, cut, refused, lost>>

\* The end of the connection reaches the master.
OnClose(s) ==
  /\ session[s] # NoSession /\ session[s].state # "gone" /\ s \in cut
  /\ session' = [session EXCEPT ![s].state = "gone"]
  /\ IF Identified(s) THEN Told(session[s].node) ELSE UNCHANGED <<known, sessions>>
  /\ UNCHANGED <<up, own, clients, wire, cut, refused, lost>>

\* The master crashes and starts again.
MasterCrash ==
  /\ session' = [s \in Sessions |-> IF session[s] = NoSession THEN NoSession
                                    ELSE [session[s] EXCEPT !.state = "gone"]]
  /\ cut' = {s \in Sessions : session[s] # NoSession}
  /\ known' = {} /\ sessions' = [n \in Nodes |-> NoSession] /\ refused' = {}
  /\ UNCHANGED <<up, own, clients, wire, lost>>

Break(s) ==
  /\ session[s] # NoSession /\ s \notin cut
  /\ cut' = cut \cup {s}
  /\ UNCHANGED <<up, own, clients, session, sessions, known, wire, refused, lost>>

NodeStep(n) == ConnectHarbor(n) \/ OnTerminate(n) \/ OnRecvHandshake(n) \/ OnRecvClusterAdhocMsg(n)
MasterStep(s) == OnRecvHarborHandshakeMsg(s) \/ OnOpen(s) \/ OnClose(s)

ClusterNext == \/ \E n \in Nodes : Start(n) \/ Crash(n) \/ NodeStep(n)
               \/ \E s \in Sessions : MasterStep(s) \/ Break(s)
               \/ MasterCrash

\* A running process goes on and its timers fire; starts, crashes and cuts are left open.
ClusterFairness == /\ \A n \in Nodes : WF_clusterVars(NodeStep(n))
                   /\ \A s \in Sessions : WF_clusterVars(MasterStep(s))

ClusterSpec == ClusterInit /\ [][ClusterNext]_clusterVars /\ ClusterFairness

(***************************************************************************)
(* Properties.                                                             *)
(***************************************************************************)
\* Every variable has its type; nobody is told to connect downwards, which ConnectHarbor
\* would refuse, nor to itself.
ClusterTypeOK ==
  /\ up \subseteq Nodes /\ own \in [Nodes -> Sessions \cup {NoSession}]
  /\ session \in [Sessions -> [node : Nodes, state : States] \cup {NoSession}]
  /\ sessions \in [Nodes -> Sessions \cup {NoSession}] /\ known \subseteq Nodes
  /\ cut \subseteq Sessions /\ refused \subseteq Nodes /\ lost \subseteq Sessions
  /\ \A s \in Sessions : ToSet(wire[s]) \subseteq {Handshake} \cup
                            {n \in Nodes : session[s] # NoSession /\ n > session[s].node}
  /\ \A n \in Nodes : clients[n] \subseteq {m \in Nodes : m > n}

\* Of two nodes that the master knows, the lower one has a client session to the higher one
\* or will be told to make it, whichever of them was lost and came back.  It is not so for a
\* node whose connection is lost without the master knowing, which will come back; for one
\* that handled the master's handshake later than the 100 ms of the DelayOpenTimer, and threw
\* the message away; and for one of which a second session was refused.
MeshPlanned ==
  \A m, n \in known :
    LET s == sessions[m]
    IN  m < n /\ m \notin refused /\ own[m] = s /\ s \notin cut /\ s \notin lost
        => n \in clients[m] \cup ToSet(wire[s])

Connected(n) == own[n] # NoSession /\ own[n] \notin cut

\* Two nodes that stay connected to the master find each other, with the same exceptions.
MeshForms ==
  \A m, n \in Nodes :
    m < n /\ Connected(m) /\ Connected(n)
    ~> \/ n \in clients[m] \/ ~Connected(m) \/ ~Connected(n)
       \/ {m, n} \cap refused # {} \/ own[m] \in lost
=============================================================================
