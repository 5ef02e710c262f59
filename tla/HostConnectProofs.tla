-------------------------- MODULE HostConnectProofs --------------------------
(***************************************************************************)
(* Proofs about HostConnect: types, endpoints that are pending only while  *)
(* a handshake is under way, and no session in m_sessions after            *)
(* Service::stop.                                                          *)
(***************************************************************************)
EXTENDS HostConnect, TLAPS

\* The socket of an active session is used for nothing else, ...
SessionSocket ==
    \A p \in Peer : status[p] = "active" /\ sessions[p] \in Socket => state[sessions[p]] = "session"

\* ... and for no other peer's session.
OneSession ==
    \A p, q \in Peer :
        /\ status[p] = "active" /\ status[q] = "active"
        /\ sessions[p] = sessions[q] /\ sessions[p] \in Socket
        => p = q

\* Service::stop stops one part after the other.
StopOrder ==
    /\ "sessions" \notin running => "pool" \notin running
    /\ "pool" \notin running => "io" \notin running
    /\ "io" \notin running => "network" \notin running

SessionInv == SessionSocket /\ OneSession

Inv == TypeOK /\ PendingIsHandshaking /\ SessionInv /\ StopOrder /\ StopIsFinal

-----------------------------------------------------------------------------

\* Inbound and NoSession are no sockets of dialling.
LEMMA SocketFacts ==
    /\ Socket \subseteq 0..Inbound
    /\ NoSession \in 0..Inbound /\ NoSession \notin Socket
    /\ Inbound \in 0..Inbound /\ Inbound \notin Socket
BY ConstantsAssumption DEF Socket, Inbound, NoSession

\* The invariant holds at first.
LEMMA InitInv == Init => Inv
<1> SUFFICES ASSUME Init PROVE Inv
  OBVIOUS
<1>1. (CHOOSE e \in Endpoint : TRUE) \in Endpoint
  BY ConstantsAssumption
<1>2. TypeOK
  BY <1>1, SocketFacts DEF Init, InitButStaticNodes, TypeOK
<1> QED
  BY <1>2, SocketFacts DEF Init, InitButStaticNodes, Inv, PendingIsHandshaking, SessionInv,
     SessionSocket, OneSession, StopOrder, StopIsFinal, isConnected, Part

\* Steps that touch neither a session nor what stops keep what is known of sessions.
LEMMA SameSessions ==
    ASSUME Inv, UNCHANGED <<sessions, status, running>>, TypeOK',
           \A s \in Socket : state[s] = "session" <=> state'[s] = "session"
    PROVE  SessionInv' /\ StopOrder' /\ StopIsFinal'
<1>1. SessionSocket'
  BY DEF Inv, SessionInv, SessionSocket
<1>2. OneSession'
  BY DEF Inv, SessionInv, OneSession
<1>3. StopOrder' /\ StopIsFinal'
  BY DEF Inv, StopOrder, StopIsFinal, isConnected
<1> QED BY <1>1, <1>2, <1>3 DEF SessionInv

-----------------------------------------------------------------------------
(* Dialling. *)

\* asyncConnect keeps the invariant.
LEMMA AsyncConnectInv ==
    ASSUME Inv, NEW e \in Endpoint, NEW s \in Socket, asyncConnect(e, s) PROVE Inv'
<1>1. TypeOK'
  BY DEF Inv, TypeOK, asyncConnect, asyncResolveConnect, sessionVars
<1>2. /\ state[s] = "closed"
      /\ \A t \in Socket : t # s => endpoint'[t] = endpoint[t] /\ state'[t] = state[t]
  BY DEF Inv, TypeOK, asyncConnect, asyncResolveConnect
<1>3. state'[s] \in {"closed", "connecting"}
  BY DEF Inv, TypeOK, asyncConnect, asyncResolveConnect
<1>4. PendingIsHandshaking'
  BY <1>2 DEF Inv, PendingIsHandshaking, asyncConnect
<1>5. SessionInv' /\ StopOrder' /\ StopIsFinal'
  BY <1>1, <1>2, <1>3, SameSessions DEF asyncConnect, sessionVars
<1> QED BY <1>1, <1>4, <1>5 DEF Inv

\* A connection that succeeds keeps the invariant.
LEMMA ConnectedInv == ASSUME Inv, NEW s \in Socket, Connected(s) PROVE Inv'
<1>1. TypeOK'
  BY DEF Inv, TypeOK, Connected, insertPendingConns, sessionVars
<1>2. /\ state[s] = "connecting" /\ state'[s] = "handshake" /\ endpoint' = endpoint
      /\ \A t \in Socket : t # s => state'[t] = state[t]
  BY DEF Inv, TypeOK, Connected
<1>3. PendingIsHandshaking'
  BY <1>2 DEF Inv, PendingIsHandshaking, Connected, insertPendingConns
<1>4. SessionInv' /\ StopOrder' /\ StopIsFinal'
  BY <1>1, <1>2, SameSessions DEF Connected, sessionVars
<1> QED BY <1>1, <1>3, <1>4 DEF Inv

\* A connection that fails keeps the invariant.
LEMMA ConnectFailedInv == ASSUME Inv, NEW s \in Socket, ConnectFailed(s) PROVE Inv'
<1>1. TypeOK'
  BY DEF Inv, TypeOK, ConnectFailed, sessionVars
<1>2. /\ state[s] = "connecting" /\ state'[s] = "closed" /\ endpoint' = endpoint
      /\ \A t \in Socket : t # s => state'[t] = state[t]
  BY DEF Inv, TypeOK, ConnectFailed
<1>3. PendingIsHandshaking'
  BY <1>2 DEF Inv, PendingIsHandshaking, ConnectFailed
<1>4. SessionInv' /\ StopOrder' /\ StopIsFinal'
  BY <1>1, <1>2, SameSessions DEF ConnectFailed, sessionVars
<1> QED BY <1>1, <1>3, <1>4 DEF Inv

\* The end of a handshake keeps the invariant.
LEMMA HandshakeClientInv ==
    ASSUME Inv, NEW s \in Socket, NEW error \in BOOLEAN, handshakeClient(s, error) PROVE Inv'
<1>1. /\ state[s] = "handshake" /\ state'[s] \in {"closed", "connected"} /\ endpoint' = endpoint
      /\ \A t \in Socket : t # s => state'[t] = state[t]
      /\ state' \in [Socket -> {"closed", "connecting", "handshake", "connected", "session"}]
      /\ open' \subseteq open
  BY DEF Inv, TypeOK, handshakeClient
<1>2. TypeOK'
  BY <1>1 DEF Inv, TypeOK, handshakeClient, erasePendingConns, CancelTimer, sessionVars
<1>3. PendingIsHandshaking'
  BY <1>1 DEF Inv, PendingIsHandshaking, handshakeClient, erasePendingConns
<1>4. SessionInv' /\ StopOrder' /\ StopIsFinal'
  BY <1>1, <1>2, SameSessions DEF handshakeClient, sessionVars
<1> QED BY <1>2, <1>3, <1>4 DEF Inv

\* The timer and its handler keep the invariant.
LEMMA TimerInv ==
    ASSUME Inv, NEW s \in Socket, TimerExpires(s) \/ connectTimeout(s) PROVE Inv'
<1>1. TypeOK'
  BY DEF Inv, TypeOK, TimerExpires, connectTimeout, erasePendingConns, sessionVars
<1>2. /\ UNCHANGED <<state, endpoint, sessions, status, running>>
      /\ pendingConns' \subseteq pendingConns
  BY DEF TimerExpires, connectTimeout, erasePendingConns, sessionVars
<1>3. PendingIsHandshaking'
  BY <1>2 DEF Inv, PendingIsHandshaking
<1>4. SessionInv' /\ StopOrder' /\ StopIsFinal'
  BY <1>1, <1>2, SameSessions
<1> QED BY <1>1, <1>3, <1>4 DEF Inv

-----------------------------------------------------------------------------
(* Sessions. *)

\* onConnect for a gateway that is connected already keeps the invariant.
LEMMA DuplicateInv == ASSUME Inv, NEW s \in Socket, disconnectDuplicate(s) PROVE Inv'
<1>1. PeerAt[endpoint[s]] \in Peer \cup {Self}
  BY ConstantsAssumption DEF Inv, TypeOK
<1>2. TypeOK'
  BY <1>1 DEF Inv, TypeOK, disconnectDuplicate, updateStaticNodes
<1>3. /\ state[s] = "connected" /\ state'[s] = "closed" /\ endpoint' = endpoint
      /\ \A t \in Socket : t # s => state'[t] = state[t]
  BY DEF Inv, TypeOK, disconnectDuplicate
<1>4. PendingIsHandshaking'
  BY <1>3 DEF Inv, PendingIsHandshaking, disconnectDuplicate
<1>5. SessionInv' /\ StopOrder' /\ StopIsFinal'
  BY <1>2, <1>3, SameSessions DEF disconnectDuplicate
<1> QED BY <1>2, <1>4, <1>5 DEF Inv

\* onConnect for a new session keeps the invariant: the socket of the session is that
\* of no other one.
LEMMA OnConnectInv == ASSUME Inv, NEW s \in Socket, onConnect(s) PROVE Inv'
<1> DEFINE p == PeerAt[endpoint[s]]
           started == "network" \in running
<1>1. p \in Peer /\ status[p] # "active"
  BY ConstantsAssumption DEF Inv, TypeOK, onConnect, isConnected
<1>2. /\ sessions' = [sessions EXCEPT ![p] = s]
      /\ status' = [status EXCEPT ![p] = IF started THEN "active" ELSE "not started"]
      /\ state' = [state EXCEPT ![s] = "session"]
      /\ UNCHANGED <<pendingConns, endpoint, open, timer, accepted, running>>
      /\ state[s] = "connected" /\ "pool" \in running
  BY DEF onConnect, insertSession
<1>3. TypeOK'
  BY <1>1, <1>2, SocketFacts DEF Inv, TypeOK, onConnect, updateStaticNodes
<1>4. PendingIsHandshaking'
  BY <1>2 DEF Inv, TypeOK, PendingIsHandshaking
<1>5. \A q \in Peer : status[q] = "active" => sessions[q] # s
  BY <1>2 DEF Inv, SessionInv, SessionSocket
<1>6. SessionSocket'
  BY <1>1, <1>2, <1>5 DEF Inv, TypeOK, SessionInv, SessionSocket
<1>7. OneSession'
  BY <1>1, <1>2, <1>5 DEF Inv, TypeOK, SessionInv, OneSession
<1>8. StopOrder' /\ StopIsFinal'
  BY <1>2 DEF Inv, StopOrder, StopIsFinal
<1> QED BY <1>3, <1>4, <1>6, <1>7, <1>8 DEF Inv, SessionInv

\* Session::drop keeps the invariant: it closes a socket that is used for nothing else.
LEMMA DropInv == ASSUME Inv, NEW p \in Peer, drop(p) PROVE Inv'
<1>1. /\ status[p] = "active" /\ status' = [status EXCEPT ![p] = "dropped"]
      /\ UNCHANGED <<staticNodes, sessions, pendingConns, endpoint, timer, accepted, running>>
      /\ "io" \in running /\ open' \subseteq open
  BY DEF drop
<1>2. state' = [t \in Socket |-> IF t = sessions[p] THEN "closed" ELSE state[t]]
  BY DEF Inv, TypeOK, drop
<1>3. \A t \in Socket : t = sessions[p] => state[t] = "session"
  BY <1>1 DEF Inv, SessionInv, SessionSocket
<1>4. TypeOK'
  BY <1>1, <1>2 DEF Inv, TypeOK
<1>5. PendingIsHandshaking'
  BY <1>1, <1>2, <1>3 DEF Inv, PendingIsHandshaking
<1>6. SessionSocket' /\ OneSession'
  BY <1>1, <1>2 DEF Inv, TypeOK, SessionInv, SessionSocket, OneSession
<1>7. StopOrder' /\ StopIsFinal'
  BY <1>1 DEF Inv, StopOrder, StopIsFinal
<1> QED BY <1>4, <1>5, <1>6, <1>7 DEF Inv, SessionInv

\* P2PSession::stop keeps the invariant.
LEMMA StopP2PSessionInv == ASSUME Inv, NEW p \in Peer, stopP2PSession(p) PROVE Inv'
<1>1. /\ status' = [status EXCEPT ![p] = "stopped"]
      /\ UNCHANGED <<staticNodes, sessions, pendingConns, state, endpoint, open, timer,
                     accepted, running>>
      /\ "pool" \in running
  BY DEF stopP2PSession, sockVars
<1>2. TypeOK'
  BY <1>1 DEF Inv, TypeOK
<1>3. PendingIsHandshaking'
  BY <1>1 DEF Inv, PendingIsHandshaking
<1>4. SessionSocket' /\ OneSession'
  BY <1>1 DEF Inv, TypeOK, SessionInv, SessionSocket, OneSession
<1>5. StopOrder' /\ StopIsFinal'
  BY <1>1 DEF Inv, StopOrder, StopIsFinal
<1> QED BY <1>2, <1>3, <1>4, <1>5 DEF Inv, SessionInv

\* The end of a session that m_sessions does not hold keeps the invariant.
LEMMA DestroySessionInv == ASSUME Inv, NEW s \in Socket, destroySession(s) PROVE Inv'
<1>1. /\ state[s] = "session" /\ (\A p \in Peer : sessions[p] # s)
      /\ state' = [state EXCEPT ![s] = "closed"] /\ open' \subseteq open
      /\ UNCHANGED <<staticNodes, sessions, status, pendingConns, endpoint, timer, accepted,
                     running>>
  BY DEF destroySession, sessionVars
<1>2. TypeOK'
  BY <1>1 DEF Inv, TypeOK
<1>3. PendingIsHandshaking'
  BY <1>1 DEF Inv, TypeOK, PendingIsHandshaking
<1>4. SessionSocket' /\ OneSession'
  BY <1>1 DEF Inv, TypeOK, SessionInv, SessionSocket, OneSession
<1>5. StopOrder' /\ StopIsFinal'
  BY <1>1 DEF Inv, StopOrder, StopIsFinal, isConnected
<1> QED BY <1>2, <1>3, <1>4, <1>5 DEF Inv, SessionInv

\* onDisconnect keeps the invariant.
LEMMA OnDisconnectInv == ASSUME Inv, NEW p \in Peer, onDisconnect(p) PROVE Inv'
<1>1. /\ status[p] = "stopped" /\ status' = [status EXCEPT ![p] = "none"]
      /\ sessions' = [sessions EXCEPT ![p] = NoSession]
      /\ UNCHANGED <<pendingConns, state, endpoint, open, timer, accepted, running>>
      /\ "pool" \in running
  BY DEF onDisconnect, sockVars
<1>2. staticNodes' \in [Endpoint -> Peer \cup {Self, NoID}]
  BY DEF Inv, TypeOK, onDisconnect
<1>3. TypeOK'
  BY <1>1, <1>2, SocketFacts DEF Inv, TypeOK
<1>4. PendingIsHandshaking'
  BY <1>1 DEF Inv, PendingIsHandshaking
<1>5. SessionSocket' /\ OneSession'
  BY <1>1 DEF Inv, TypeOK, SessionInv, SessionSocket, OneSession
<1>6. StopOrder' /\ StopIsFinal'
  BY <1>1 DEF Inv, StopOrder, StopIsFinal
<1> QED BY <1>3, <1>4, <1>5, <1>6 DEF Inv, SessionInv

\* Accepting a peer keeps the invariant.
LEMMA AcceptInv ==
    ASSUME Inv, NEW p \in Peer, handshakeServer(p) PROVE Inv'
<1>1. TypeOK'
  BY DEF Inv, TypeOK, handshakeServer, sessionVars, sockVars
<1>2. PendingIsHandshaking'
  BY DEF Inv, PendingIsHandshaking, handshakeServer, sockVars
<1>3. SessionInv' /\ StopOrder' /\ StopIsFinal'
  BY <1>1, SameSessions DEF handshakeServer, sessionVars, sockVars
<1> QED BY <1>1, <1>2, <1>3 DEF Inv

\* onConnect for a peer that was accepted keeps the invariant.
LEMMA AcceptedInv == ASSUME Inv, NEW p \in Peer, onConnectAccepted(p) PROVE Inv'
<1>1. UNCHANGED <<staticNodes, pendingConns, state, endpoint, open, timer, running>>
  BY DEF onConnectAccepted, sockVars
<1>2. accepted' \subseteq Peer /\ "pool" \in running
  BY DEF Inv, TypeOK, onConnectAccepted
<1>3. CASE isConnected(p)
  <2>1. UNCHANGED <<sessions, status>>
    BY <1>3 DEF onConnectAccepted
  <2>2. TypeOK'
    BY <1>1, <1>2, <2>1 DEF Inv, TypeOK
  <2>3. PendingIsHandshaking'
    BY <1>1 DEF Inv, PendingIsHandshaking
  <2>4. SessionInv' /\ StopOrder' /\ StopIsFinal'
    BY <1>1, <2>1, <2>2, SameSessions
  <2> QED BY <2>2, <2>3, <2>4 DEF Inv
<1>4. CASE ~isConnected(p)
  <2> DEFINE new == IF "network" \in running THEN "active" ELSE "not started"
  <2>1. sessions' = [sessions EXCEPT ![p] = Inbound] /\ status' = [status EXCEPT ![p] = new]
    BY <1>4 DEF onConnectAccepted, insertSession
  <2>2. TypeOK'
    BY <1>1, <1>2, <2>1, SocketFacts DEF Inv, TypeOK
  <2>3. PendingIsHandshaking'
    BY <1>1 DEF Inv, PendingIsHandshaking
  <2>4. SessionSocket' /\ OneSession'
    BY <1>1, <2>1, SocketFacts DEF Inv, TypeOK, SessionInv, SessionSocket, OneSession
  <2>5. StopOrder' /\ StopIsFinal'
    BY <1>1, <1>2 DEF Inv, StopOrder, StopIsFinal
  <2> QED BY <2>2, <2>3, <2>4, <2>5 DEF Inv, SessionInv
<1> QED BY <1>3, <1>4

-----------------------------------------------------------------------------
(* Stopping. *)

\* Stopping the threads keeps the invariant.
LEMMA StopThreadsInv ==
    ASSUME Inv, stopNetwork \/ joinHostThread \/ stopPool PROVE Inv'
<1>1. UNCHANGED <<sessionVars, pendingConns, sockVars, accepted>>
  BY DEF stopNetwork, joinHostThread, stopPool
<1>2. /\ running' \subseteq Part /\ StopOrder'
      /\ "sessions" \in running' <=> "sessions" \in running
  BY DEF Inv, TypeOK, StopOrder, stopNetwork, joinHostThread, stopPool, Stop
<1>3. TypeOK'
  BY <1>1, <1>2 DEF Inv, TypeOK, sessionVars, sockVars
<1>4. PendingIsHandshaking' /\ StopIsFinal'
  BY <1>1, <1>2 DEF Inv, PendingIsHandshaking, StopIsFinal, isConnected, sessionVars, sockVars
<1>5. SessionSocket' /\ OneSession'
  BY <1>1 DEF Inv, SessionInv, SessionSocket, OneSession, sessionVars, sockVars
<1> QED BY <1>2, <1>3, <1>4, <1>5 DEF Inv, SessionInv

\* Clearing m_sessions keeps the invariant.
LEMMA StopSessionsInv == ASSUME Inv, stopSessions PROVE Inv'
<1>1. /\ "pool" \notin running /\ running' = running \ {"sessions"}
      /\ sessions' = [p \in Peer |-> NoSession] /\ status' = [p \in Peer |-> "none"]
      /\ UNCHANGED <<staticNodes, pendingConns, state, endpoint, open, timer, accepted>>
  BY DEF stopSessions, clearSessions, Stop, sockVars
<1>2. TypeOK'
  BY <1>1, SocketFacts DEF Inv, TypeOK
<1>3. PendingIsHandshaking'
  BY <1>1 DEF Inv, PendingIsHandshaking
<1>4. SessionInv'
  BY <1>1 DEF SessionInv, SessionSocket, OneSession
<1>5. StopOrder' /\ StopIsFinal'
  BY <1>1 DEF Inv, StopOrder, StopIsFinal, isConnected
<1> QED BY <1>2, <1>3, <1>4, <1>5 DEF Inv

\* Every step keeps the invariant.
LEMMA NextInv == Inv /\ [Next]_vars => Inv'
<1> SUFFICES ASSUME Inv, [Next]_vars PROVE Inv'
  OBVIOUS
<1>1. CASE Dial
  BY <1>1, AsyncConnectInv, ConnectedInv, ConnectFailedInv, HandshakeClientInv, TimerInv DEF Dial
<1>2. ASSUME NEW s \in Socket, onConnect(s) \/ disconnectDuplicate(s) \/ destroySession(s)
      PROVE  Inv'
  BY <1>2, OnConnectInv, DuplicateInv, DestroySessionInv
<1>3. ASSUME NEW p \in Peer,
             \/ drop(p) \/ stopP2PSession(p) \/ onDisconnect(p)
             \/ handshakeServer(p) \/ onConnectAccepted(p)
      PROVE  Inv'
  BY <1>3, DropInv, StopP2PSessionInv, OnDisconnectInv, AcceptInv, AcceptedInv
<1>4. CASE stopNetwork \/ StopStep
  BY <1>4, StopThreadsInv, StopSessionsInv DEF StopStep
<1>5. CASE UNCHANGED vars
  <2>1. UNCHANGED <<sessionVars, pendingConns, sockVars, accepted, running>>
    BY <1>5 DEF vars
  <2>2. TypeOK'
    BY <2>1 DEF Inv, TypeOK, sessionVars, sockVars
  <2>3. PendingIsHandshaking'
    BY <2>1 DEF Inv, PendingIsHandshaking, sockVars
  <2>4. SessionInv' /\ StopOrder' /\ StopIsFinal'
    BY <2>1, <2>2, SameSessions DEF sessionVars, sockVars
  <2> QED BY <2>2, <2>3, <2>4 DEF Inv
<1> QED BY <1>1, <1>2, <1>3, <1>4, <1>5 DEF Next

-----------------------------------------------------------------------------

\* HostConnect is type-correct; in particular m_sessions never holds this gateway itself.
THEOREM TypeCorrect == Spec => []TypeOK
<1>1. Inv => TypeOK
  BY DEF Inv
<1> QED BY <1>1, InitInv, NextInv, PTL DEF Spec

\* An endpoint is in m_pendingConns only while a handshake with it is under way, for any
\* number of endpoints, sockets and peers.
THEOREM PendingIsHandshakingHolds == Spec => []PendingIsHandshaking
<1>1. Inv => PendingIsHandshaking
  BY DEF Inv
<1> QED BY <1>1, InitInv, NextInv, PTL DEF Spec

\* When Service::stop has returned, m_sessions is empty and stays so, for any endpoints,
\* sockets and peers and whatever handshakes and tasks were under way when it was called.
THEOREM StopIsFinalHolds == Spec => []StopIsFinal
<1>1. Inv => StopIsFinal
  BY DEF Inv
<1> QED BY <1>1, InitInv, NextInv, PTL DEF Spec
=============================================================================
