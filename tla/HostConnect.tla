----------------------------- MODULE HostConnect -----------------------------
(***************************************************************************)
(* How a gateway gets connected and how it stops (Host, and the parts of   *)
(* Service that dial and keep sessions and static nodes).                  *)
(* Service::heartBeat dials every configured endpoint whose gateway is not *)
(* connected; Host resolves, connects and shakes hands, with one timer over*)
(* all three, and accepts the connections of others; the pool reports a    *)
(* new session to Service::onConnect and one that was dropped to           *)
(* onDisconnect.  All handlers of Host run on the thread of the io_service.*)
(* Service::stop ends all of this while it goes on.                        *)
(***************************************************************************)
EXTENDS Naturals

CONSTANTS
    Endpoint,      \* the keys of m_staticNodes
    Peer,          \* the other gateways
    Self,          \* this gateway, which may be configured as well
    PeerAt,        \* the gateway that listens at an endpoint
    MaxSocket      \* bound on the sockets that dialling uses at a time

Socket == 1..MaxSocket

ASSUME ConstantsAssumption ==
    /\ MaxSocket \in Nat
    /\ Endpoint # {}
    /\ Self \notin Peer
    /\ PeerAt \in [Endpoint -> Peer \cup {Self}]

VARIABLES
    staticNodes,   \* m_staticNodes: the last known gateway of an endpoint
    sessions,      \* m_sessions: the socket of a peer's session
    status,        \* and how far that session is
    pendingConns,  \* m_pendingConns
    state,         \* where dialling with a socket is
    endpoint,      \* the endpoint a socket is for
    open,          \* sockets for which isConnected() holds
    timer,         \* the connect timer of a socket
    accepted,      \* peers that have connected and for which onConnect is queued
    running        \* what Service::stop has not stopped yet

sockVars == <<state, endpoint, open, timer>>
sessionVars == <<staticNodes, sessions, status>>
vars == <<sessionVars, pendingConns, sockVars, accepted, running>>

\* m_run of Service and of Host (haveNetwork), m_hostThread, m_threadPool, m_sessions.
Part == {"network", "io", "pool", "sessions"}

NoID == "none"
NoSession == 0
Inbound == MaxSocket + 1   \* a session that the peer has dialled

TypeOK ==
    /\ staticNodes \in [Endpoint -> Peer \cup {Self, NoID}]
    /\ sessions \in [Peer -> 0..Inbound]
    /\ status \in [Peer -> {"none", "active", "dropped", "stopped", "not started"}]
    /\ pendingConns \subseteq Endpoint
    /\ state \in [Socket -> {"closed", "connecting", "handshake", "connected", "session"}]
    /\ endpoint \in [Socket -> Endpoint]
    /\ open \subseteq Socket
    /\ timer \in [Socket -> {"off", "armed", "expired"}]
    /\ accepted \subseteq Peer
    /\ running \subseteq Part

InitButStaticNodes ==
    /\ sessions = [p \in Peer |-> NoSession]
    /\ status = [p \in Peer |-> "none"]
    /\ pendingConns = {}
    /\ state = [s \in Socket |-> "closed"]
    /\ endpoint \in [Socket -> {CHOOSE e \in Endpoint : TRUE}]
    /\ open = {}
    /\ timer = [s \in Socket |-> "off"]
    /\ accepted = {}
    /\ running = Part

Init == InitButStaticNodes /\ staticNodes = [e \in Endpoint |-> NoID]

-----------------------------------------------------------------------------
(* Dialling. *)

\* m_sessions has a P2PSession for which m_run holds.  It is cleared neither by
\* Session::drop nor if Session::start does nothing, but by P2PSession::stop.
isConnected(id) == id \in Peer /\ status[id] \in {"active", "dropped", "not started"}

\* Connecting opens the socket.  Resolving may fail, which is only logged; it is over
\* at once, because GatewayConfig takes addresses only.
asyncResolveConnect(s) ==
    \/ /\ state' = [state EXCEPT ![s] = "connecting"]
       /\ open' = open \cup {s}
    \/ UNCHANGED <<state, open>>

\* Service::heartBeat for one static node, and Host::asyncConnect.
asyncConnect(e, s) ==
    /\ "network" \in running
    /\ staticNodes[e] # Self /\ ~isConnected(staticNodes[e])
    /\ e \notin pendingConns
    /\ state[s] = "closed" /\ timer[s] = "off"
    /\ endpoint' = [endpoint EXCEPT ![s] = e]
    /\ timer' = [timer EXCEPT ![s] = "armed"]
    /\ asyncResolveConnect(s)
    /\ UNCHANGED <<sessionVars, pendingConns, accepted, running>>

insertPendingConns(e) == pendingConns' = pendingConns \cup {e}
erasePendingConns(e) == pendingConns' = pendingConns \ {e}

Connected(s) ==
    /\ "io" \in running
    /\ state[s] = "connecting" /\ s \in open
    /\ state' = [state EXCEPT ![s] = "handshake"]
    /\ insertPendingConns(endpoint[s])
    /\ UNCHANGED <<sessionVars, endpoint, open, timer, accepted, running>>

\* The peer refuses, or the timer has closed the socket.
ConnectFailed(s) ==
    /\ "io" \in running
    /\ state[s] = "connecting"
    /\ state' = [state EXCEPT ![s] = "closed"]
    /\ open' = open \ {s}
    /\ UNCHANGED <<sessionVars, pendingConns, endpoint, timer, accepted, running>>

\* A timer that has expired cannot be cancelled: its handler is in the queue.
CancelTimer(s) ==
    timer' = [timer EXCEPT ![s] = IF @ = "armed" THEN "off" ELSE @]

\* Mutant: a handshake that fails leaves the endpoint pending.
handshakeClientForgetful(s, error) ==
    /\ "io" \in running
    /\ state[s] = "handshake"
    /\ s \notin open => error
    /\ CancelTimer(s)
    /\ IF error THEN UNCHANGED pendingConns ELSE erasePendingConns(endpoint[s])
    /\ state' = [state EXCEPT ![s] =
                    IF error \/ "network" \notin running THEN "closed" ELSE "connected"]
    /\ open' = IF error \/ "network" \notin running THEN open \ {s} ELSE open
    /\ UNCHANGED <<sessionVars, endpoint, accepted, running>>

\* An error includes a certificate without a node ID.  Otherwise startPeerSession
\* queues onConnect; after Host::stop the socket is only released.
handshakeClient(s, error) ==
    /\ "io" \in running
    /\ state[s] = "handshake"
    /\ s \notin open => error
    /\ CancelTimer(s)
    /\ erasePendingConns(endpoint[s])
    /\ state' = [state EXCEPT ![s] =
                    IF error \/ "network" \notin running THEN "closed" ELSE "connected"]
    /\ open' = IF error \/ "network" \notin running THEN open \ {s} ELSE open
    /\ UNCHANGED <<sessionVars, endpoint, accepted, running>>

TimerExpires(s) ==
    /\ "io" \in running
    /\ timer[s] = "armed"
    /\ timer' = [timer EXCEPT ![s] = "expired"]
    /\ UNCHANGED <<sessionVars, pendingConns, state, endpoint, open, accepted, running>>

\* Mutant: the handler does nothing.
connectTimeoutIgnored(s) ==
    /\ "io" \in running
    /\ timer[s] = "expired"
    /\ timer' = [timer EXCEPT ![s] = "off"]
    /\ UNCHANGED <<sessionVars, pendingConns, state, endpoint, open, accepted, running>>

\* The handler of connect_timer.  Closing the socket makes what is under way fail.
connectTimeout(s) ==
    /\ "io" \in running
    /\ timer[s] = "expired"
    /\ timer' = [timer EXCEPT ![s] = "off"]
    /\ open' = open \ {s}
    /\ IF s \in open THEN erasePendingConns(endpoint[s]) ELSE UNCHANGED pendingConns
    /\ UNCHANGED <<sessionVars, state, endpoint, accepted, running>>

-----------------------------------------------------------------------------
(* Sessions. *)

updateStaticNodes(s, id) == staticNodes' = [staticNodes EXCEPT ![endpoint[s]] = id]

\* Session::start does nothing without a network.  The session is kept all the same.
insertSession(p, s) ==
    /\ sessions' = [sessions EXCEPT ![p] = s]
    /\ status' = [status EXCEPT ![p] = IF "network" \in running THEN "active" ELSE "not started"]

\* Mutant: what was found out about the endpoint is not recorded.
disconnectUnrecorded(s) ==
    /\ "pool" \in running
    /\ state[s] = "connected"
    /\ PeerAt[endpoint[s]] = Self \/ isConnected(PeerAt[endpoint[s]])
    /\ state' = [state EXCEPT ![s] = "closed"]
    /\ open' = open \ {s}
    /\ UNCHANGED <<sessionVars, pendingConns, endpoint, timer, accepted, running>>

\* onConnect: the peer has a session already, or it is this gateway.
disconnectDuplicate(s) ==
    /\ "pool" \in running
    /\ state[s] = "connected"
    /\ PeerAt[endpoint[s]] = Self \/ isConnected(PeerAt[endpoint[s]])
    /\ updateStaticNodes(s, PeerAt[endpoint[s]])
    /\ state' = [state EXCEPT ![s] = "closed"]
    /\ open' = open \ {s}
    /\ UNCHANGED <<sessions, status, pendingConns, endpoint, timer, accepted, running>>

\* Mutant: onConnect does not notice that it is connected with itself.
onConnectSelf(s) ==
    LET p == PeerAt[endpoint[s]] IN
    /\ "pool" \in running
    /\ state[s] = "connected" /\ ~isConnected(p)
    /\ updateStaticNodes(s, p)
    /\ state' = [state EXCEPT ![s] = "session"]
    /\ sessions' = [q \in Peer \cup {p} |-> IF q = p THEN s ELSE sessions[q]]
    /\ UNCHANGED <<status, pendingConns, endpoint, open, timer, accepted, running>>

onConnect(s) ==
    /\ "pool" \in running
    /\ state[s] = "connected"
    /\ PeerAt[endpoint[s]] # Self /\ ~isConnected(PeerAt[endpoint[s]])
    /\ updateStaticNodes(s, PeerAt[endpoint[s]])
    /\ state' = [state EXCEPT ![s] = "session"]
    /\ insertSession(PeerAt[endpoint[s]], s)
    /\ UNCHANGED <<pendingConns, endpoint, open, timer, accepted, running>>

\* Mutant: onMessage is not queued, and nobody stops the P2PSession.
dropUnreported(p) ==
    /\ "io" \in running
    /\ status[p] = "active"
    /\ status' = [status EXCEPT ![p] = "not started"]
    /\ IF sessions[p] \in Socket
       THEN /\ state' = [state EXCEPT ![sessions[p]] = "closed"]
            /\ open' = open \ {sessions[p]}
       ELSE UNCHANGED <<state, open>>
    /\ UNCHANGED <<staticNodes, sessions, pendingConns, endpoint, timer, accepted, running>>

\* Session::drop, for any reason: one is that connectTimeout has closed the socket, so
\* that the read fails.  The socket is closed, and onMessage is queued with an error.
drop(p) ==
    /\ "io" \in running
    /\ status[p] = "active"
    /\ status' = [status EXCEPT ![p] = "dropped"]
    /\ IF sessions[p] \in Socket
       THEN /\ state' = [state EXCEPT ![sessions[p]] = "closed"]
            /\ open' = open \ {sessions[p]}
       ELSE UNCHANGED <<state, open>>
    /\ UNCHANGED <<staticNodes, sessions, pendingConns, endpoint, timer, accepted, running>>

\* That task stops the P2PSession ...  The task of a ProtocolError stops one that has not
\* been dropped: this drops it, but not without a network.
stopP2PSession(p) ==
    /\ "pool" \in running
    /\ \/ status[p] = "dropped"
       \/ status[p] = "active" /\ "network" \notin running
    /\ status' = [status EXCEPT ![p] = "stopped"]
    /\ UNCHANGED <<staticNodes, sessions, pendingConns, sockVars, accepted, running>>

\* ... and calls onDisconnect, which erases the session and forgets the gateway of the
\* first static node that has it.  If onConnect has put another session in its place since
\* it was stopped, nothing is done.
onDisconnect(p) ==
    /\ "pool" \in running
    /\ status[p] = "stopped"
    /\ sessions' = [sessions EXCEPT ![p] = NoSession]
    /\ status' = [status EXCEPT ![p] = "none"]
    /\ IF \E e \in Endpoint : staticNodes[e] = p
       THEN \E e \in Endpoint :
               staticNodes[e] = p /\ staticNodes' = [staticNodes EXCEPT ![e] = NoID]
       ELSE UNCHANGED staticNodes
    /\ UNCHANGED <<pendingConns, sockVars, accepted, running>>

\* A session that m_sessions does not hold any more is destroyed when nothing else refers
\* to it, and ~Session closes its socket.  A callback that waits for a response refers to
\* it for good, and so does a handler in the queue of a stopped io_service.
destroySession(s) ==
    /\ state[s] = "session" /\ \A p \in Peer : sessions[p] # s
    /\ state' = [state EXCEPT ![s] = "closed"]
    /\ open' = open \ {s}
    /\ UNCHANGED <<sessionVars, pendingConns, endpoint, timer, accepted, running>>

-----------------------------------------------------------------------------
(* Accepting. *)

\* startAccept and handshakeServer.  The handshake has no timeout: it may never end,
\* and others are accepted meanwhile.
handshakeServer(p) ==
    /\ {"network", "io"} \subseteq running
    /\ accepted' = accepted \cup {p}
    /\ UNCHANGED <<sessionVars, pendingConns, sockVars, running>>

\* onConnect.  The endpoint of the peer's socket is not one of m_staticNodes.
onConnectAccepted(p) ==
    /\ "pool" \in running
    /\ p \in accepted
    /\ accepted' = accepted \ {p}
    /\ IF isConnected(p) THEN UNCHANGED <<sessions, status>> ELSE insertSession(p, Inbound)
    /\ UNCHANGED <<staticNodes, pendingConns, sockVars, running>>

-----------------------------------------------------------------------------
(* Service::stop and Host::stop. *)

Stop(part) ==
    /\ part \in running
    /\ running' = running \ {part}

\* Service::m_run is cleared, the timer of the heartbeat cancelled, Host::m_run
\* cleared, ...
stopNetwork ==
    /\ Stop("network")
    /\ UNCHANGED <<sessionVars, pendingConns, sockVars, accepted>>

\* ... the io_service stopped and its thread joined, ...
joinHostThread ==
    /\ "network" \notin running
    /\ Stop("io")
    /\ UNCHANGED <<sessionVars, pendingConns, sockVars, accepted>>

\* ... and the pool stopped: tasks that wait in its queue are not run any more.
stopPool ==
    /\ "io" \notin running
    /\ Stop("pool")
    /\ UNCHANGED <<sessionVars, pendingConns, sockVars, accepted>>

\* Every session is stopped, and m_sessions cleared.  P2PSession::stop does not disconnect:
\* without a network Session::actived() is false.
clearSessions ==
    /\ Stop("sessions")
    /\ sessions' = [p \in Peer |-> NoSession]
    /\ status' = [p \in Peer |-> "none"]
    /\ UNCHANGED <<staticNodes, pendingConns, sockVars, accepted>>

\* Mutant: the pool is not waited for.
stopSessionsEarly == "io" \notin running /\ clearSessions

stopSessions == "pool" \notin running /\ clearSessions

StopStep == joinHostThread \/ stopPool \/ stopSessions

-----------------------------------------------------------------------------

Dial ==
    \/ \E e \in Endpoint, s \in Socket : asyncConnect(e, s)
    \/ \E s \in Socket :
          \/ Connected(s)
          \/ ConnectFailed(s)
          \/ \E error \in BOOLEAN : handshakeClient(s, error)
          \/ TimerExpires(s)
          \/ connectTimeout(s)

Next ==
    \/ Dial
    \/ \E s \in Socket : onConnect(s) \/ disconnectDuplicate(s) \/ destroySession(s)
    \/ \E p \in Peer :
          \/ drop(p) \/ stopP2PSession(p) \/ onDisconnect(p)
          \/ handshakeServer(p) \/ onConnectAccepted(p)
    \/ stopNetwork \/ StopStep

Spec == Init /\ [][Next]_vars

\* The heartbeat dials, timers expire, handlers and tasks run, and an operation on a
\* closed socket, a session's read included, ends.  Attempts to connect that are made
\* again and again succeed in time now and then; a single one may hang for ever.
Fairness ==
    /\ \A s \in Socket :
          /\ WF_vars(TimerExpires(s)) /\ WF_vars(connectTimeout(s))
          /\ WF_vars(s \notin open /\ (ConnectFailed(s) \/ handshakeClient(s, TRUE)))
          /\ WF_vars(onConnect(s) \/ disconnectDuplicate(s))
    /\ \A p \in Peer :
          /\ WF_vars(sessions[p] \in Socket \ open /\ drop(p))
          /\ WF_vars(status[p] = "dropped" /\ stopP2PSession(p)) /\ WF_vars(onDisconnect(p))
          /\ WF_vars(onConnectAccepted(p))
    /\ WF_vars(StopStep)
    /\ \A e \in Endpoint :
          /\ SF_vars(\E s \in Socket : asyncConnect(e, s) /\ s \in open')
          /\ SF_vars(\E s \in Socket : endpoint[s] = e /\ timer[s] = "armed" /\ Connected(s))
          /\ SF_vars(\E s \in Socket :
                endpoint[s] = e /\ timer[s] = "armed" /\ handshakeClient(s, FALSE))

FairSpec == Spec /\ Fairness

-----------------------------------------------------------------------------
(* Properties. *)

\* An endpoint is barred from being dialled only while a handshake with it is under way,
\* however attempts, timeouts and failures overlap.
PendingIsHandshaking ==
    \A e \in pendingConns : \E s \in Socket : endpoint[s] = e /\ state[s] = "handshake"

\* ... and never for good: "if async connect timeout, close the socket directly"
\* (Host.cpp).
NotPendingForever ==
    \A e \in Endpoint : []<>(e \notin pendingConns \/ "io" \notin running)

\* The session of p is active and has not been closed by a connect timer that came late.
Alive(p) == status[p] = "active" /\ sessions[p] \in open \cup {Inbound}

\* A reachable static node is connected again and again, whatever sessions are lost, and a
\* session that is dead (dropped, or closed by a connect timer that came late) never passes
\* for a connection for good, until the service is stopped.
StaysConnected ==
    \A e \in Endpoint :
        PeerAt[e] # Self =>
            /\ []<>(isConnected(PeerAt[e]) \/ "network" \notin running)
            /\ []<>(Alive(PeerAt[e]) \/ ~isConnected(PeerAt[e]) \/ "network" \notin running)

\* Dialling an endpoint ceases once its gateway stays connected, whoever dialled whom,
\* or turns out to be this gateway: duplicates are not set up and dropped for ever.
DiallingCeases ==
    \A e \in Endpoint :
        <>[]((PeerAt[e] = Self \/ isConnected(PeerAt[e])) /\ "network" \in running)
            => <>[](staticNodes[e] = PeerAt[e])

\* When Service::stop has returned m_sessions is empty, and no session is added to it or
\* counts as connected any more, whatever handshakes and tasks were under way when it was
\* called.  (The sockets of sessions that something else refers to may still be open.)
StopIsFinal ==
    "sessions" \notin running => \A p \in Peer : sessions[p] = NoSession /\ ~isConnected(p)
=============================================================================
