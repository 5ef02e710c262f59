----------------------------- MODULE NodeIDSync -----------------------------
(***************************************************************************)
(* How gateways learn from each other which nodes they serve: the status   *)
(* heartbeat of P2PSession.cpp, the three node-list packets handled by     *)
(* Service::onMessage, and the life of the sessions the packets travel on  *)
(* (Service::onConnect, onDisconnect, Session::drop), around the node      *)
(* manager of each gateway.                                                *)
(*                                                                         *)
(* A connection is a number; each of its two ends has a P2PSession object  *)
(* of its own.  "pending" holds the packets that travel on a connection or *)
(* wait, decoded, in the thread pool of the receiver, and the error tasks  *)
(* that Session::drop has queued there.  The pool has several threads, so  *)
(* pending tasks may start in any order, and the steps of two tasks that   *)
(* have started interleave.  A task keeps its P2PSession object alive once *)
(* it has started; before, it only has a weak pointer.                     *)
(*                                                                         *)
(* What g learns of p and what p learns of g share nothing but the session *)
(* and the pool.  Followed selects whose heartbeats and registrations are  *)
(* part of the behaviour; with Followed = Gateway it is everybody's.       *)
(***************************************************************************)
EXTENDS DynamicGatewayNodeManager, FiniteSets

CONSTANTS
    Followed,       \* the gateways whose registrations the others follow
    MaxConn,        \* bound: connections made during a behaviour
    MaxPending,     \* bound: packets of one type pending at one end of a connection
    PoolThreads     \* threads of the "P2P" pool

ASSUME FollowedAssumption == Followed \subseteq Gateway
ASSUME MaxConnAssumption == MaxConn \in Nat

VARIABLES
    conns,       \* number of connections made so far
    connecting,  \* <<g, p, c>>: the handshake is done, onConnect at g has not run
    session,     \* m_sessions of Service: session[g][p] is a connection or NoSession
    running,     \* m_run of the P2PSession objects of a gateway
    actived,     \* m_actived of the Session objects of a gateway
    pending,     \* packets and error tasks that no pool thread has taken yet
    tasks        \* tasks a pool thread is executing

sessionVars == <<conns, connecting, session, running, actived>>
vars == <<dynamicVars, sessionVars, pending, tasks>>

NoSession == 0
Conn == 1..MaxConn
PacketType == {"Heartbeat", "RequestNodeIDs", "ResponseNodeIDs", "Disconnect"}
Packet == [to : Gateway, from : Gateway, conn : Conn, type : PacketType,
           seq : 0..MaxStatusSeq, nodes : SUBSET Node]
Phase == {"update", "info", "remove", "erase"}
Task == [pkt : Packet, phase : Phase]

TypeOK ==
    /\ DynamicTypeOK
    /\ conns \in 0..MaxConn
    /\ connecting \subseteq Gateway \X Gateway \X Conn
    /\ session \in [Gateway -> [Gateway -> 0..MaxConn]]
    /\ running \in [Gateway -> SUBSET Conn]
    /\ actived \in [Gateway -> SUBSET Conn]
    /\ pending \subseteq Packet
    /\ tasks \subseteq Task

Init ==
    /\ DynamicInit
    /\ conns = 0
    /\ connecting = {}
    /\ session = [g \in Gateway |-> [p \in Gateway |-> NoSession]]
    /\ running = [g \in Gateway |-> {}]
    /\ actived = [g \in Gateway |-> {}]
    /\ pending = {}
    /\ tasks = {}

-----------------------------------------------------------------------------
(* Packets. *)

PacketOf(type, from, to, c, seq, nodes) ==
    [to |-> to, from |-> from, conn |-> c, type |-> type, seq |-> seq, nodes |-> nodes]

Heartbeat(g, p, c) == PacketOf("Heartbeat", g, p, c, statusSeq[g], {})

\* The end of connection c at g has been closed, or was never opened.
Closed(g, p, c) ==
    /\ c \notin actived[g]
    /\ <<g, p, c>> \notin connecting

\* Session::asyncSendMessage: a session that is not active sends nothing, and
\* what is sent to an end that is closed gets lost.
Send(pkt) ==
    IF pkt.conn \in actived[pkt.from] /\ ~Closed(pkt.to, pkt.from, pkt.conn)
    THEN {pkt} ELSE {}

\* m_sessions or a task that has started holds the P2PSession of connection c at
\* g, so that the weak pointer of another task can be locked.
P2PSessionHeld(g, p, c) ==
    \/ session[g][p] = c
    \/ \E t \in tasks : t.pkt.to = g /\ t.pkt.conn = c

\* A task ends.  If nobody holds its P2PSession any more, what is pending for that
\* object is lost: unread packets with the socket, queued tasks because their weak
\* pointer cannot be locked.  But callbacks of requests on the session may hold it
\* for a while, so any part of it may still be executed.
EndTask(t) ==
    /\ tasks' = tasks \ {t}
    /\ \E lost \in SUBSET {m \in pending : /\ m.to = t.pkt.to /\ m.conn = t.pkt.conn
                                          /\ ~P2PSessionHeld(m.to, m.from, m.conn)'} :
          pending' = pending \ lost

\* The bound MaxPending leaves room for one more packet to g.
Room(type, g, c) ==
    Cardinality({m \in pending : m.type = type /\ m.to = g /\ m.conn = c}) < MaxPending

ThreadFree(g) == Cardinality({t \in tasks : t.pkt.to = g}) < PoolThreads

-----------------------------------------------------------------------------
(* Sessions. *)

\* Service::heartBeat dials a configured peer; Host completes the handshake.
\* A gateway dials also while it is connected, as long as it does not know
\* which peer answers at the configured address.
Dial(g, p) ==
    /\ g # p
    /\ conns < MaxConn
    /\ conns' = conns + 1
    /\ connecting' = connecting \cup {<<g, p, conns + 1>>, <<p, g, conns + 1>>}
    /\ UNCHANGED <<dynamicVars, session, running, actived, pending, tasks>>

\* Mutant: onConnect does not look for a running session to the same peer.
AcceptAlways(g, p, c) ==
    /\ <<g, p, c>> \in connecting
    /\ connecting' = connecting \ {<<g, p, c>>}
    /\ session' = [session EXCEPT ![g][p] = c]
    /\ running' = [running EXCEPT ![g] = @ \cup {c}]
    /\ actived' = [actived EXCEPT ![g] = @ \cup {c}]
    /\ pending' = pending \cup
           IF g \in Followed /\ ~Closed(p, g, c) THEN {Heartbeat(g, p, c)} ELSE {}
    /\ UNCHANGED <<dynamicVars, conns, tasks>>

\* Service::onConnect with no running session to that peer.  P2PSession::start
\* sends the first heartbeat.
Accept(g, p, c) ==
    /\ <<g, p, c>> \in connecting
    /\ session[g][p] \notin running[g]
    /\ connecting' = connecting \ {<<g, p, c>>}
    /\ session' = [session EXCEPT ![g][p] = c]
    /\ running' = [running EXCEPT ![g] = @ \cup {c}]
    /\ actived' = [actived EXCEPT ![g] = @ \cup {c}]
    /\ pending' = pending \cup
           IF g \in Followed /\ ~Closed(p, g, c) THEN {Heartbeat(g, p, c)} ELSE {}
    /\ UNCHANGED <<dynamicVars, conns, tasks>>

\* Service::onConnect with a session to that peer running: the new one is
\* dropped before it has started, and its socket closed with the object.
RejectDuplicate(g, p, c) ==
    /\ <<g, p, c>> \in connecting
    /\ session[g][p] \in running[g]
    /\ connecting' = connecting \ {<<g, p, c>>}
    /\ pending' = {m \in pending : m.to # g \/ m.conn # c}
    /\ UNCHANGED <<dynamicVars, conns, session, running, actived, tasks>>

\* Session::drop: a read or write fails, or the session is idle too long.  The
\* packets that are still on their way, in either direction, may be lost.
Drop(g, p, c) ==
    /\ session[g][p] = c
    /\ c \in actived[g]
    /\ actived' = [actived EXCEPT ![g] = @ \ {c}]
    /\ \E lost \in SUBSET {m \in pending : m.conn = c /\ m.type # "Disconnect"} :
          pending' = (pending \ lost) \cup {PacketOf("Disconnect", p, g, c, NoSeq, {})}
    /\ UNCHANGED <<dynamicVars, conns, connecting, session, running, tasks>>

-----------------------------------------------------------------------------
(* The timer of a P2PSession and the tasks of the thread pool. *)

heartBeat(g, p) ==
    LET c == session[g][p] IN
    /\ g \in Followed
    /\ c \in actived[g]
    /\ Room("Heartbeat", p, c)
    /\ pending' = pending \cup Send(Heartbeat(g, p, c))
    /\ UNCHANGED <<dynamicVars, sessionVars, tasks>>

\* A pool thread takes the task of packet m.  On a connection that waits for
\* onConnect nothing is read.
Ready(m) ==
    /\ ThreadFree(m.to)
    /\ <<m.to, m.from, m.conn>> \notin connecting

\* A list of another version is asked for.
HandleHeartbeat(m) ==
    /\ m.type = "Heartbeat" /\ Ready(m)
    /\ pending' = (pending \ {m}) \cup
           IF onReceiveStatusSeq(m.to, m.from, m.seq)
           THEN Send(PacketOf("RequestNodeIDs", m.to, m.from, m.conn, NoSeq, {}))
           ELSE {}
    /\ UNCHANGED <<dynamicVars, sessionVars, tasks>>

HandleRequest(m) ==
    /\ m.type = "RequestNodeIDs" /\ Ready(m)
    /\ Room("ResponseNodeIDs", m.from, m.conn)
    /\ LET list == onRequestNodeIDs(m.to) IN
       pending' = (pending \ {m}) \cup
           Send(PacketOf("ResponseNodeIDs", m.to, m.from, m.conn, list.seq, list.nodes))
    /\ UNCHANGED <<dynamicVars, sessionVars, tasks>>

\* GatewayNodeManager::onReceiveNodeIDs, in its two critical sections.
HandleResponse(m) ==
    /\ m.type = "ResponseNodeIDs" /\ Ready(m)
    /\ pending' = pending \ {m}
    /\ tasks' = tasks \cup {[pkt |-> m, phase |-> "update"]}
    /\ UNCHANGED <<dynamicVars, sessionVars>>

UpdateNodeIDs(t) ==
    /\ t.phase = "update"
    /\ updateNodeIDs(t.pkt.to, t.pkt.from, t.pkt.seq, t.pkt.nodes)
    /\ tasks' = (tasks \ {t}) \cup {[pkt |-> t.pkt, phase |-> "info"]}
    /\ UNCHANGED <<updater, sessionVars, pending>>

UpdateNodeIDInfo(t) ==
    /\ t.phase = "info"
    /\ updateNodeIDInfo(t.pkt.to, t.pkt.from, t.pkt.nodes)
    /\ UNCHANGED <<updater, sessionVars>>
    /\ EndTask(t)

\* The error task of Session::drop starts with P2PSession::stop; the Session
\* itself is not active any more.
HandleDisconnect(m) ==
    /\ m.type = "Disconnect" /\ Ready(m)
    /\ running' = [running EXCEPT ![m.to] = @ \ {m.conn}]
    /\ pending' = pending \ {m}
    /\ tasks' = tasks \cup {[pkt |-> m, phase |-> "remove"]}
    /\ UNCHANGED <<dynamicVars, conns, connecting, session, actived>>

\* Service::onDisconnect calls the disconnect handlers first: the one that
\* GatewayFactory::buildGateway registers forgets the peer, whichever of its
\* sessions was dropped.
RemoveNodeIDs(t) ==
    /\ t.phase = "remove"
    /\ onRemoveNodeIDs(t.pkt.to, t.pkt.from)
    /\ tasks' = (tasks \ {t}) \cup {[pkt |-> t.pkt, phase |-> "erase"]}
    /\ UNCHANGED <<updater, sessionVars, pending>>

\* ... and then takes the session out of m_sessions, unless it was replaced.
EraseSession(t) ==
    /\ t.phase = "erase"
    /\ session' = IF session[t.pkt.to][t.pkt.from] = t.pkt.conn
                  THEN [session EXCEPT ![t.pkt.to][t.pkt.from] = NoSession]
                  ELSE session
    /\ EndTask(t)
    /\ UNCHANGED <<dynamicVars, conns, connecting, running, actived>>

TaskStep(t) ==
    \/ UpdateNodeIDs(t)
    \/ UpdateNodeIDInfo(t)
    \/ RemoveNodeIDs(t)
    \/ EraseSession(t)

Handle(m) ==
    \/ HandleHeartbeat(m)
    \/ HandleRequest(m)
    \/ HandleResponse(m)
    \/ HandleDisconnect(m)

RegistrationStep(g) ==
    /\ Registrations(g)
    /\ UNCHANGED <<sessionVars, pending, tasks>>

Next ==
    \/ \E g \in Followed : RegistrationStep(g)
    \/ \E g, p \in Gateway :
          \/ Dial(g, p)
          \/ heartBeat(g, p)
          \/ \E c \in Conn : Accept(g, p, c) \/ RejectDuplicate(g, p, c) \/ Drop(g, p, c)
    \/ \E m \in pending : Handle(m)
    \/ \E t \in tasks : TaskStep(t)

Spec == Init /\ [][Next]_vars

\* The timers fire, the pool threads execute what is queued, a pass of the
\* updater ends, a completed handshake is reported, and the loss of the peer's
\* end is noticed (read error or idle timeout).  Registrations, connections and
\* connection failures are the environment's: no fairness.
Fairness ==
    \A g \in Gateway :
        /\ WF_vars(FinishUpdate(g) /\ UNCHANGED <<sessionVars, pending, tasks>>)
        /\ WF_vars(\E t \in tasks : t.pkt.to = g /\ TaskStep(t))
        /\ WF_vars(\E m \in pending : m.to = g /\ HandleHeartbeat(m))
        /\ WF_vars(\E m \in pending : m.to = g /\ HandleRequest(m))
        /\ WF_vars(\E m \in pending : m.to = g /\ HandleResponse(m))
        /\ WF_vars(\E m \in pending : m.to = g /\ HandleDisconnect(m))
        /\ \A p \in Gateway \ {g} :
              /\ WF_vars(heartBeat(g, p))
              /\ WF_vars(\E c \in Conn : Accept(g, p, c) \/ RejectDuplicate(g, p, c))
              /\ WF_vars(\E c \in Conn : Closed(p, g, c) /\ Drop(g, p, c))

FairSpec == Spec /\ Fairness

-----------------------------------------------------------------------------
(* Properties. *)

\* A heartbeat triggers a request only when its version differs from the stored
\* one.  So whenever the stored version of a peer is the peer's current one, the
\* stored routes must be exactly the peer's registrations: otherwise they would
\* be wrong and nothing would ever refresh them.  While a pass of the updater is
\* removing nodes the version is still to be increased.
NoSilentStaleness ==
    \A g, p \in Gateway :
        (p2pID2Seq[g][p] = statusSeq[p] /\ updater[p] = "idle")
            => NodesVia(g, p) = frontServiceInfos[p]

\* Service::m_sessions and the P2PSession objects agree: a session that runs is
\* the one stored for its peer, so that it can be used, reported and replaced.
NoOrphanSession ==
    \A g \in Gateway : \A c \in running[g] \cup actived[g] :
        \E p \in Gateway : session[g][p] = c

\* "remove all nodeIDs info belong to p2pID" (GatewayNodeManager.cpp): once the
\* disconnect of a peer has been dealt with, nothing is routed to that peer.
ForgetsGonePeers ==
    \A g, p \in Gateway :
        (session[g][p] = NoSession /\ \A t \in tasks : t.pkt.to # g) => NodesVia(g, p) = {}

Connected(g, p) ==
    /\ session[g][p] = session[p][g]
    /\ session[g][p] \in actived[g] \cap actived[p]

\* Once registrations and connections stop changing, every gateway routes to a
\* connected peer exactly the nodes registered there, however the heartbeats,
\* requests, responses and disconnects before that were ordered.
Converges ==
    <>[](\A g, p \in Gateway : Connected(g, p) => NodesVia(g, p) = frontServiceInfos[p])
=============================================================================
