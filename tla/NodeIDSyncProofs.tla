--------------------------- MODULE NodeIDSyncProofs ---------------------------
(***************************************************************************)
(* Proofs about NodeIDSync, for every set of gateways and nodes and every  *)
(* bound: type correctness, that a gateway that stores the current version *)
(* of a peer's list stores the current list, and that a session in use is  *)
(* the one stored for its peer.                                            *)
(***************************************************************************)
EXTENDS NodeIDSync, TLAPS

-----------------------------------------------------------------------------
(* Type correctness. *)

\* Removing a peer from a routing table, or adding one, gives a routing table.
LEMMA RoutesType ==
    ASSUME NEW routes \in [Node -> SUBSET Gateway], NEW p \in Gateway, NEW nodes
    PROVE  /\ removeNodeIDsByP2PID(routes, p) \in [Node -> SUBSET Gateway]
           /\ insertNodeIDs(routes, p, nodes) \in [Node -> SUBSET Gateway]
           /\ insertNodeIDs(removeNodeIDsByP2PID(routes, p), p, nodes)
                  \in [Node -> SUBSET Gateway]
BY DEF removeNodeIDsByP2PID, insertNodeIDs

\* A step on the local registrations of a gateway keeps the types.
LEMMA RegistrationsType ==
    ASSUME TypeOK, NEW g \in Followed, RegistrationStep(g)
    PROVE  TypeOK'
<1> USE FollowedAssumption, MaxStatusSeqAssumption
        DEF TypeOK, DynamicTypeOK, NodeManagerTypeOK, sessionVars
<1>1. ASSUME NEW n \in Node, RegisterFrontService(g, n)
      PROVE  TypeOK'
  BY <1>1 DEF RegistrationStep, RegisterFrontService, registerFrontService, increaseSeq
<1>2. ASSUME NEW n \in Node, UnregisterFrontService(g, n)
      PROVE  TypeOK'
  BY <1>2 DEF RegistrationStep, UnregisterFrontService, unregisterFrontService, increaseSeq
<1>3. ASSUME NEW n \in Node, UpdateFromGroupInfo(g, n)
      PROVE  TypeOK'
  BY <1>3 DEF RegistrationStep, UpdateFromGroupInfo, increaseSeq
<1>4. ASSUME NEW n \in Node, RemoveUnreachable(g, n)
      PROVE  TypeOK'
  BY <1>4 DEF RegistrationStep, RemoveUnreachable
<1>5. CASE FinishUpdate(g)
  BY <1>5 DEF RegistrationStep, FinishUpdate, increaseSeq
<1>6. QED
  BY <1>1, <1>2, <1>3, <1>4, <1>5 DEF RegistrationStep, Registrations

\* Connecting, dropping and the heartbeat timer keep the types.
LEMMA SessionsType ==
    ASSUME TypeOK, NEW g \in Gateway, NEW p \in Gateway,
           \/ Dial(g, p)
           \/ heartBeat(g, p)
           \/ \E c \in Conn : Accept(g, p, c) \/ RejectDuplicate(g, p, c) \/ Drop(g, p, c)
    PROVE  TypeOK'
<1> USE MaxStatusSeqAssumption, MaxConnAssumption
        DEF TypeOK, DynamicTypeOK, NodeManagerTypeOK, sessionVars, dynamicVars,
            nodeManagerVars
<1>0. ASSUME NEW c \in Conn
      PROVE  /\ Heartbeat(g, p, c) \in Packet
             /\ PacketOf("Disconnect", p, g, c, NoSeq, {}) \in Packet
  BY <1>0 DEF Heartbeat, PacketOf, Packet, PacketType, NoSeq
<1>1. CASE Dial(g, p)
  BY <1>1 DEF Dial, Conn
<1>2. CASE heartBeat(g, p)
  BY <1>0, <1>2 DEF heartBeat, Send
<1>3. ASSUME NEW c \in Conn, Accept(g, p, c)
      PROVE  TypeOK'
  BY <1>0, <1>3 DEF Accept, Conn
<1>4. ASSUME NEW c \in Conn, RejectDuplicate(g, p, c)
      PROVE  TypeOK'
  BY <1>4 DEF RejectDuplicate
<1>5. ASSUME NEW c \in Conn, Drop(g, p, c)
      PROVE  TypeOK'
  BY <1>0, <1>5 DEF Drop
<1>6. QED
  BY <1>1, <1>2, <1>3, <1>4, <1>5

\* A pool thread that takes a packet keeps the types.
LEMMA HandleType ==
    ASSUME TypeOK, NEW m \in pending, Handle(m)
    PROVE  TypeOK'
<1> USE MaxStatusSeqAssumption
        DEF TypeOK, DynamicTypeOK, NodeManagerTypeOK, sessionVars, dynamicVars,
            nodeManagerVars
<1>0. m \in Packet
  OBVIOUS
<1>1. CASE HandleHeartbeat(m)
  <2>1. PacketOf("RequestNodeIDs", m.to, m.from, m.conn, NoSeq, {}) \in Packet
    BY <1>0 DEF PacketOf, Packet, PacketType, NoSeq
  <2>2. QED
    BY <1>1, <2>1 DEF HandleHeartbeat, Send
<1>2. CASE HandleRequest(m)
  <2>1. PacketOf("ResponseNodeIDs", m.to, m.from, m.conn,
                 onRequestNodeIDs(m.to).seq, onRequestNodeIDs(m.to).nodes) \in Packet
    BY <1>0 DEF PacketOf, Packet, PacketType, onRequestNodeIDs
  <2>2. QED
    BY <1>2, <2>1 DEF HandleRequest, Send
<1>3. CASE HandleResponse(m)
  BY <1>0, <1>3 DEF HandleResponse, Task, Phase
<1>4. CASE HandleDisconnect(m)
  BY <1>0, <1>4 DEF HandleDisconnect, Task, Phase, Packet
<1>5. QED
  BY <1>1, <1>2, <1>3, <1>4 DEF Handle

\* A pool thread that goes on with a task keeps the types.
LEMMA TaskType ==
    ASSUME TypeOK, NEW t \in tasks, TaskStep(t)
    PROVE  TypeOK'
<1> USE MaxStatusSeqAssumption, MaxConnAssumption
        DEF TypeOK, DynamicTypeOK, NodeManagerTypeOK, sessionVars, dynamicVars,
            nodeManagerVars
<1>0. t \in Task /\ t.pkt \in Packet
  BY DEF Task
<1>1. CASE UpdateNodeIDs(t)
  <2>1. [pkt |-> t.pkt, phase |-> "info"] \in Task
    BY <1>0 DEF Task, Phase
  <2>2. peerGatewayNodes' \in [Gateway -> [Node -> SUBSET Gateway]]
    BY <1>0, <1>1, RoutesType DEF UpdateNodeIDs, updateNodeIDs, Packet
  <2>3. QED
    BY <1>0, <1>1, <2>1, <2>2 DEF UpdateNodeIDs, updateNodeIDs, removeNodeIDInfo, Packet
<1>2. CASE UpdateNodeIDInfo(t)
  BY <1>0, <1>2 DEF UpdateNodeIDInfo, updateNodeIDInfo, EndTask, Packet
<1>3. CASE RemoveNodeIDs(t)
  <2>1. [pkt |-> t.pkt, phase |-> "erase"] \in Task
    BY <1>0 DEF Task, Phase
  <2>2. peerGatewayNodes' \in [Gateway -> [Node -> SUBSET Gateway]]
    BY <1>0, <1>3, RoutesType DEF RemoveNodeIDs, onRemoveNodeIDs, Packet
  <2>3. /\ nodeIDInfo' \in [Gateway -> [Gateway -> SUBSET Node]]
        /\ p2pID2Seq' \in [Gateway -> [Gateway -> 0..MaxStatusSeq]]
    BY <1>0, <1>3 DEF RemoveNodeIDs, onRemoveNodeIDs, removeNodeIDInfo, NoSeq, Packet
  <2>4. QED
    BY <1>3, <2>1, <2>2, <2>3 DEF RemoveNodeIDs, onRemoveNodeIDs
<1>4. CASE EraseSession(t)
  BY <1>0, <1>4 DEF EraseSession, EndTask, NoSession, Packet
<1>5. QED
  BY <1>1, <1>2, <1>3, <1>4 DEF TaskStep

\* Every variable of the node managers and of the session layer keeps its type.
THEOREM TypeCorrect == Spec => []TypeOK
<1>1. Init => TypeOK
  BY MaxStatusSeqAssumption, MaxConnAssumption
     DEF Init, DynamicInit, NodeManagerInit, TypeOK, DynamicTypeOK, NodeManagerTypeOK,
         NoSeq, NoSession
<1>2. TypeOK /\ [Next]_vars => TypeOK'
  <2>1. ASSUME TypeOK, Next
        PROVE  TypeOK'
    BY <2>1, RegistrationsType, SessionsType, HandleType, TaskType DEF Next
  <2>2. ASSUME TypeOK, UNCHANGED vars
        PROVE  TypeOK'
    BY <2>2 DEF vars, dynamicVars, nodeManagerVars, sessionVars,
                TypeOK, DynamicTypeOK, NodeManagerTypeOK
  <2>3. QED
    BY <2>1, <2>2
<1>3. QED
  BY <1>1, <1>2, PTL DEF Spec

-----------------------------------------------------------------------------
(***************************************************************************)
(* NoSilentStaleness.  It is not inductive: a response that is on its way, *)
(* or that a pool thread is about to apply, will replace what is stored.   *)
(* The inductive invariant says of each of these lists what the property   *)
(* says of the stored one, and that no list has a version from the future. *)
(***************************************************************************)

\* The list with this version is not newer than p's registrations, and is equal
\* to them if it has their version (unless a pass of the updater is under way).
SnapshotOf(p, seq, nodes) ==
    \/ seq < statusSeq[p]
    \/ /\ seq = statusSeq[p]
       /\ updater[p] = "idle" => nodes = frontServiceInfos[p]

PendingAreSnapshots ==
    \A m \in pending : m.type = "ResponseNodeIDs" => SnapshotOf(m.from, m.seq, m.nodes)

TasksAreSnapshots ==
    \A t \in tasks : t.phase = "update" => SnapshotOf(t.pkt.from, t.pkt.seq, t.pkt.nodes)

StoredAreSnapshots ==
    \A g, p \in Gateway : SnapshotOf(p, p2pID2Seq[g][p], NodesVia(g, p))

ListsAreSnapshots == PendingAreSnapshots /\ TasksAreSnapshots /\ StoredAreSnapshots

\* What a step on the registrations does: a list that was a snapshot stays one.
LEMMA RegistrationKeepsSnapshots ==
    ASSUME TypeOK, NEW g \in Followed, RegistrationStep(g),
           NEW p \in Gateway, NEW seq \in Nat, NEW nodes, SnapshotOf(p, seq, nodes)
    PROVE  SnapshotOf(p, seq, nodes)'
<1> USE FollowedAssumption, MaxStatusSeqAssumption
        DEF TypeOK, DynamicTypeOK, NodeManagerTypeOK, SnapshotOf
<1>1. ASSUME statusSeq' = [statusSeq EXCEPT ![g] = @ + 1],
             p # g => /\ updater'[p] = updater[p]
                      /\ frontServiceInfos'[p] = frontServiceInfos[p]
      PROVE  SnapshotOf(p, seq, nodes)'
  <2>1. CASE p = g
    BY <1>1, <2>1
  <2>2. CASE p # g
    BY <1>1, <2>2
  <2>3. QED
    BY <2>1, <2>2
<1>2. ASSUME NEW n \in Node, RemoveUnreachable(g, n)
      PROVE  SnapshotOf(p, seq, nodes)'
  BY <1>2 DEF RemoveUnreachable
<1>3. ASSUME NEW n \in Node, \/ RegisterFrontService(g, n)
                             \/ UnregisterFrontService(g, n)
                             \/ UpdateFromGroupInfo(g, n)
      PROVE  SnapshotOf(p, seq, nodes)'
  BY <1>1, <1>3 DEF RegisterFrontService, registerFrontService, UnregisterFrontService,
                    unregisterFrontService, UpdateFromGroupInfo, increaseSeq
<1>4. CASE FinishUpdate(g)
  BY <1>1, <1>4 DEF FinishUpdate, increaseSeq
<1>5. QED
  BY <1>2, <1>3, <1>4 DEF RegistrationStep, Registrations

\* A step on the registrations keeps the inductive invariant: what was a snapshot
\* at most becomes an older one.
LEMMA RegistrationStepSnapshots ==
    ASSUME TypeOK, ListsAreSnapshots, NEW g \in Followed, RegistrationStep(g)
    PROVE  ListsAreSnapshots'
<1>1. /\ pending' = pending /\ tasks' = tasks
      /\ peerGatewayNodes' = peerGatewayNodes /\ p2pID2Seq' = p2pID2Seq
  BY DEF RegistrationStep, Registrations, RegisterFrontService, registerFrontService,
         UnregisterFrontService, unregisterFrontService, UpdateFromGroupInfo,
         RemoveUnreachable, FinishUpdate
<1>2. PendingAreSnapshots'
  <2>1. ASSUME NEW m \in pending, m.type = "ResponseNodeIDs"
        PROVE  SnapshotOf(m.from, m.seq, m.nodes)'
    <3>1. m.from \in Gateway /\ m.seq \in Nat
      BY MaxStatusSeqAssumption DEF TypeOK, Packet
    <3>2. SnapshotOf(m.from, m.seq, m.nodes)
      BY <2>1 DEF ListsAreSnapshots, PendingAreSnapshots
    <3>3. QED
      BY <3>1, <3>2, RegistrationKeepsSnapshots
  <2>2. QED
    BY <1>1, <2>1 DEF PendingAreSnapshots
<1>3. TasksAreSnapshots'
  <2>1. ASSUME NEW t \in tasks, t.phase = "update"
        PROVE  SnapshotOf(t.pkt.from, t.pkt.seq, t.pkt.nodes)'
    <3>1. t.pkt.from \in Gateway /\ t.pkt.seq \in Nat
      BY MaxStatusSeqAssumption DEF TypeOK, Task, Packet
    <3>2. SnapshotOf(t.pkt.from, t.pkt.seq, t.pkt.nodes)
      BY <2>1 DEF ListsAreSnapshots, TasksAreSnapshots
    <3>3. QED
      BY <3>1, <3>2, RegistrationKeepsSnapshots
  <2>2. QED
    BY <1>1, <2>1 DEF TasksAreSnapshots
<1>4. StoredAreSnapshots'
  <2>1. ASSUME NEW h \in Gateway, NEW p \in Gateway
        PROVE  SnapshotOf(p, p2pID2Seq[h][p], NodesVia(h, p))'
    <3>1. NodesVia(h, p)' = NodesVia(h, p) /\ p2pID2Seq'[h][p] = p2pID2Seq[h][p]
      BY <1>1 DEF NodesVia, queryP2pIDs
    <3>2. p2pID2Seq[h][p] \in Nat
      BY MaxStatusSeqAssumption DEF TypeOK, DynamicTypeOK, NodeManagerTypeOK
    <3>3. SnapshotOf(p, p2pID2Seq[h][p], NodesVia(h, p))
      BY DEF ListsAreSnapshots, StoredAreSnapshots
    <3>4. ASSUME NEW seq \in Nat, NEW nodes, SnapshotOf(p, seq, nodes)
          PROVE  SnapshotOf(p, seq, nodes)'
      BY <3>4, RegistrationKeepsSnapshots
    <3>5. QED
      BY <3>1, <3>2, <3>3, <3>4 DEF SnapshotOf
  <2>2. QED
    BY <2>1 DEF StoredAreSnapshots
<1>5. QED
  BY <1>2, <1>3, <1>4 DEF ListsAreSnapshots

\* Once the list of p has been replaced, the routes through p are that list and
\* the routes through another peer are what they were.
LEMMA NodesViaAfterUpdate ==
    ASSUME TypeOK, NEW g \in Gateway, NEW p \in Gateway, NEW seq, NEW nodes \in SUBSET Node,
           updateNodeIDs(g, p, seq, nodes), NEW h \in Gateway, NEW q \in Gateway
    PROVE  NodesVia(h, q)' = IF h = g /\ q = p THEN nodes ELSE NodesVia(h, q)
BY DEF TypeOK, DynamicTypeOK, NodeManagerTypeOK, updateNodeIDs, NodesVia, queryP2pIDs,
       insertNodeIDs, removeNodeIDsByP2PID

\* The same for the removal of a peer.
LEMMA NodesViaAfterRemove ==
    ASSUME TypeOK, NEW g \in Gateway, NEW p \in Gateway, onRemoveNodeIDs(g, p),
           NEW h \in Gateway, NEW q \in Gateway
    PROVE  NodesVia(h, q)' = IF h = g /\ q = p THEN {} ELSE NodesVia(h, q)
BY DEF TypeOK, DynamicTypeOK, NodeManagerTypeOK, onRemoveNodeIDs, NodesVia, queryP2pIDs,
       removeNodeIDsByP2PID

\* A step of the session layer stores no list and makes no response.
LEMMA SessionStepSnapshots ==
    ASSUME TypeOK, ListsAreSnapshots, NEW g \in Gateway, NEW p \in Gateway,
           \/ Dial(g, p)
           \/ heartBeat(g, p)
           \/ \E c \in Conn : Accept(g, p, c) \/ RejectDuplicate(g, p, c) \/ Drop(g, p, c)
    PROVE  ListsAreSnapshots'
<1> DEFINE NoList == /\ UNCHANGED dynamicVars /\ tasks' = tasks
                     /\ \A m \in pending' : m \in pending \/ m.type # "ResponseNodeIDs"
<1>1. NoList
  <2>1. CASE Dial(g, p)
    BY <2>1 DEF Dial
  <2>2. CASE heartBeat(g, p)
    BY <2>2 DEF heartBeat, Send, Heartbeat, PacketOf
  <2>3. ASSUME NEW c \in Conn, Accept(g, p, c)
        PROVE  NoList
    BY <2>3 DEF Accept, Heartbeat, PacketOf
  <2>4. ASSUME NEW c \in Conn, RejectDuplicate(g, p, c) \/ Drop(g, p, c)
        PROVE  NoList
    BY <2>4 DEF RejectDuplicate, Drop, PacketOf
  <2>5. QED
    BY <2>1, <2>2, <2>3, <2>4
<1>2. QED
  BY <1>1 DEF dynamicVars, nodeManagerVars, ListsAreSnapshots, PendingAreSnapshots,
              TasksAreSnapshots, StoredAreSnapshots, SnapshotOf, NodesVia, queryP2pIDs

\* Taking a packet keeps the invariant: a response is read in one critical section.
LEMMA HandleSnapshots ==
    ASSUME TypeOK, ListsAreSnapshots, NEW m \in pending, Handle(m)
    PROVE  ListsAreSnapshots'
<1> USE DEF dynamicVars, nodeManagerVars, ListsAreSnapshots, PendingAreSnapshots,
            TasksAreSnapshots, StoredAreSnapshots, SnapshotOf, NodesVia, queryP2pIDs
<1>1. CASE HandleHeartbeat(m)
  BY <1>1 DEF HandleHeartbeat, Send, PacketOf
<1>2. CASE HandleRequest(m)
  <2>1. \A x \in pending' : \/ x \in pending
                            \/ /\ x.from = m.to
                               /\ x.seq = statusSeq[m.to]
                               /\ x.nodes = frontServiceInfos[m.to]
    BY <1>2 DEF HandleRequest, Send, PacketOf, onRequestNodeIDs
  <2>2. QED
    BY <1>2, <2>1 DEF HandleRequest
<1>3. CASE HandleResponse(m)
  BY <1>3 DEF HandleResponse
<1>4. CASE HandleDisconnect(m)
  BY <1>4 DEF HandleDisconnect
<1>5. QED
  BY <1>1, <1>2, <1>3, <1>4 DEF Handle

\* updateNodeIDs stores a list with its version, onRemoveNodeIDs forgets both.
LEMMA TaskSnapshots ==
    ASSUME TypeOK, ListsAreSnapshots, NEW t \in tasks, TaskStep(t)
    PROVE  ListsAreSnapshots'
<1>0. /\ t.pkt.to \in Gateway /\ t.pkt.from \in Gateway
      /\ t.pkt.seq \in 0..MaxStatusSeq /\ t.pkt.nodes \in SUBSET Node
  BY DEF TypeOK, Task, Packet
<1>1. CASE UpdateNodeIDs(t)
  <2>1. /\ UNCHANGED <<statusSeq, frontServiceInfos, updater, pending>>
        /\ tasks' = (tasks \ {t}) \cup {[pkt |-> t.pkt, phase |-> "info"]}
        /\ p2pID2Seq' = [p2pID2Seq EXCEPT ![t.pkt.to][t.pkt.from] = t.pkt.seq]
    BY <1>1 DEF UpdateNodeIDs, updateNodeIDs
  <2>2. PendingAreSnapshots' /\ TasksAreSnapshots'
    BY <2>1 DEF ListsAreSnapshots, PendingAreSnapshots, TasksAreSnapshots, SnapshotOf
  <2>3. StoredAreSnapshots'
    <3>1. ASSUME NEW h \in Gateway, NEW q \in Gateway
          PROVE  SnapshotOf(q, p2pID2Seq[h][q], NodesVia(h, q))'
      <4>1. NodesVia(h, q)' =
              IF h = t.pkt.to /\ q = t.pkt.from THEN t.pkt.nodes ELSE NodesVia(h, q)
        BY <1>0, <1>1, NodesViaAfterUpdate DEF UpdateNodeIDs
      <4>2. p2pID2Seq'[h][q] =
              IF h = t.pkt.to /\ q = t.pkt.from THEN t.pkt.seq ELSE p2pID2Seq[h][q]
        BY <1>0, <2>1 DEF TypeOK, DynamicTypeOK, NodeManagerTypeOK
      <4>3. /\ SnapshotOf(t.pkt.from, t.pkt.seq, t.pkt.nodes)
            /\ SnapshotOf(q, p2pID2Seq[h][q], NodesVia(h, q))
        BY <1>1 DEF UpdateNodeIDs, ListsAreSnapshots, TasksAreSnapshots, StoredAreSnapshots
      <4>4. QED
        BY <2>1, <4>1, <4>2, <4>3 DEF SnapshotOf
    <3>2. QED
      BY <3>1 DEF StoredAreSnapshots
  <2>4. QED
    BY <2>2, <2>3 DEF ListsAreSnapshots
<1>2. CASE RemoveNodeIDs(t)
  <2>1. /\ UNCHANGED <<statusSeq, frontServiceInfos, updater, pending>>
        /\ tasks' = (tasks \ {t}) \cup {[pkt |-> t.pkt, phase |-> "erase"]}
        /\ p2pID2Seq' = [p2pID2Seq EXCEPT ![t.pkt.to][t.pkt.from] = NoSeq]
    BY <1>2 DEF RemoveNodeIDs, onRemoveNodeIDs
  <2>2. PendingAreSnapshots' /\ TasksAreSnapshots'
    BY <2>1 DEF ListsAreSnapshots, PendingAreSnapshots, TasksAreSnapshots, SnapshotOf
  <2>3. StoredAreSnapshots'
    <3>1. ASSUME NEW h \in Gateway, NEW q \in Gateway
          PROVE  SnapshotOf(q, p2pID2Seq[h][q], NodesVia(h, q))'
      <4>1. NodesVia(h, q)' =
              IF h = t.pkt.to /\ q = t.pkt.from THEN {} ELSE NodesVia(h, q)
        BY <1>0, <1>2, NodesViaAfterRemove DEF RemoveNodeIDs
      <4>2. p2pID2Seq'[h][q] =
              IF h = t.pkt.to /\ q = t.pkt.from THEN NoSeq ELSE p2pID2Seq[h][q]
        BY <1>0, <2>1 DEF TypeOK, DynamicTypeOK, NodeManagerTypeOK
      <4>3. SnapshotOf(q, p2pID2Seq[h][q], NodesVia(h, q))
        BY DEF ListsAreSnapshots, StoredAreSnapshots
      <4>4. NoSeq < statusSeq[q]
        BY MaxStatusSeqAssumption DEF TypeOK, DynamicTypeOK, NodeManagerTypeOK, NoSeq
      <4>5. QED
        BY <2>1, <4>1, <4>2, <4>3, <4>4 DEF SnapshotOf
    <3>2. QED
      BY <3>1 DEF StoredAreSnapshots
  <2>4. QED
    BY <2>2, <2>3 DEF ListsAreSnapshots
<1>3. CASE UpdateNodeIDInfo(t) \/ EraseSession(t)
  <2>1. /\ UNCHANGED <<statusSeq, frontServiceInfos, updater, peerGatewayNodes, p2pID2Seq>>
        /\ tasks' \subseteq tasks /\ pending' \subseteq pending
    BY <1>3 DEF UpdateNodeIDInfo, updateNodeIDInfo, EraseSession, EndTask, dynamicVars,
                nodeManagerVars
  <2>2. QED
    BY <2>1 DEF ListsAreSnapshots, PendingAreSnapshots, TasksAreSnapshots,
                StoredAreSnapshots, SnapshotOf, NodesVia, queryP2pIDs
<1>4. QED
  BY <1>1, <1>2, <1>3 DEF TaskStep

\* A gateway that stores the version a peer announces stores the peer's current
\* list: the heartbeats it ignores are exactly those that have nothing to tell.
THEOREM NoSilentStalenessHolds == Spec => []NoSilentStaleness
<1>1. Init => ListsAreSnapshots
  BY DEF Init, DynamicInit, NodeManagerInit, ListsAreSnapshots, PendingAreSnapshots,
         TasksAreSnapshots, StoredAreSnapshots, SnapshotOf, NoSeq
<1>2. TypeOK /\ ListsAreSnapshots /\ [Next]_vars => ListsAreSnapshots'
  <2>1. ASSUME TypeOK, ListsAreSnapshots, Next
        PROVE  ListsAreSnapshots'
    BY <2>1, RegistrationStepSnapshots, SessionStepSnapshots, HandleSnapshots,
       TaskSnapshots DEF Next
  <2>2. ASSUME ListsAreSnapshots, UNCHANGED vars
        PROVE  ListsAreSnapshots'
    BY <2>2 DEF vars, dynamicVars, nodeManagerVars, ListsAreSnapshots, PendingAreSnapshots,
                TasksAreSnapshots, StoredAreSnapshots, SnapshotOf, NodesVia, queryP2pIDs
  <2>3. QED
    BY <2>1, <2>2
<1>3. TypeOK /\ ListsAreSnapshots => NoSilentStaleness
  BY MaxStatusSeqAssumption
     DEF TypeOK, DynamicTypeOK, NodeManagerTypeOK, ListsAreSnapshots, StoredAreSnapshots,
         SnapshotOf, NoSilentStaleness
<1>4. QED
  BY <1>1, <1>2, <1>3, TypeCorrect, PTL DEF Spec

-----------------------------------------------------------------------------
(* Sessions.  The end of a connection at a gateway is awaited by onConnect,  *)
(* then runs and is active, then only runs, with its error task queued, and  *)
(* then has an error task that executes; it never goes back.                 *)

\* onConnect has still to be called for connection c at g.
Awaited(g, c) == \E p \in Gateway : <<g, p, c>> \in connecting

\* The error task of connection c at g is queued.
ErrorQueued(g, c) ==
    \E m \in pending : m.type = "Disconnect" /\ m.to = g /\ m.conn = c

\* The error task of connection c at g has stopped the P2PSession.
ErrorHandled(g, c) ==
    \E t \in tasks : t.phase \in {"remove", "erase"} /\ t.pkt.to = g /\ t.pkt.conn = c

\* Connections that have not been made yet are not used in any way.
NumbersAreFresh ==
    \A g \in Gateway : \A c \in Conn :
        \/ Awaited(g, c) \/ c \in running[g] \/ ErrorQueued(g, c) \/ ErrorHandled(g, c)
        => c <= conns

\* The stages of a connection at one gateway do not overlap.
StagesInOrder ==
    \A g \in Gateway : \A c \in Conn :
        /\ Awaited(g, c) => /\ c \notin running[g]
                            /\ ~ErrorQueued(g, c) /\ ~ErrorHandled(g, c)
        /\ c \in actived[g] => c \in running[g] /\ ~ErrorQueued(g, c)
        /\ ErrorHandled(g, c) => c \notin running[g]

\* A connection has one peer.
AwaitedOnce ==
    \A g, p, q \in Gateway : \A c \in Conn :
        <<g, p, c>> \in connecting /\ <<g, q, c>> \in connecting => p = q

SessionInv == NumbersAreFresh /\ StagesInOrder /\ AwaitedOnce /\ NoOrphanSession

\* A step that leaves the sessions alone, and adds no error task, is harmless.
LEMMA SessionsUntouched ==
    ASSUME TypeOK, SessionInv, UNCHANGED <<conns, session, running, actived>>,
           connecting' \subseteq connecting,
           \A m \in pending' : m.type = "Disconnect" => m \in pending,
           \A t \in tasks' : t.phase \in {"remove", "erase"} =>
               \E u \in tasks : u.phase \in {"remove", "erase"} /\ u.pkt = t.pkt
    PROVE  SessionInv'
<1>1. ASSUME NEW g \in Gateway, NEW c \in Conn
      PROVE  /\ Awaited(g, c)' => Awaited(g, c)
             /\ ErrorQueued(g, c)' => ErrorQueued(g, c)
             /\ ErrorHandled(g, c)' => ErrorHandled(g, c)
  BY DEF Awaited, ErrorQueued, ErrorHandled
<1>2. NumbersAreFresh' /\ StagesInOrder'
  BY <1>1 DEF SessionInv, NumbersAreFresh, StagesInOrder
<1>3. AwaitedOnce' /\ NoOrphanSession'
  BY DEF SessionInv, AwaitedOnce, NoOrphanSession
<1>4. QED
  BY <1>2, <1>3 DEF SessionInv

\* A new connection has a new number.
LEMMA DialSessions ==
    ASSUME TypeOK, SessionInv, NEW g \in Gateway, NEW p \in Gateway, Dial(g, p)
    PROVE  SessionInv'
<1>1. /\ conns \in Nat /\ conns' = conns + 1
      /\ connecting' = connecting \cup {<<g, p, conns + 1>>, <<p, g, conns + 1>>}
      /\ UNCHANGED <<session, running, actived, pending, tasks>>
      /\ g # p
  BY MaxConnAssumption DEF Dial, TypeOK
<1>2. ASSUME NEW h \in Gateway, NEW c \in Conn
      PROVE  /\ Awaited(h, c)' => Awaited(h, c) \/ c = conns + 1
             /\ ErrorQueued(h, c)' <=> ErrorQueued(h, c)
             /\ ErrorHandled(h, c)' <=> ErrorHandled(h, c)
             /\ c \in Nat
             /\ c \in actived[h] => c \in running[h]
             /\ Awaited(h, c) => c <= conns
  <2>1. /\ Awaited(h, c)' => Awaited(h, c) \/ c = conns + 1
        /\ ErrorQueued(h, c)' <=> ErrorQueued(h, c)
        /\ ErrorHandled(h, c)' <=> ErrorHandled(h, c)
    BY <1>1 DEF Awaited, ErrorQueued, ErrorHandled
  <2>2. /\ c \in Nat
        /\ c \in actived[h] => c \in running[h]
        /\ Awaited(h, c) => c <= conns
    BY MaxConnAssumption DEF Conn, SessionInv, NumbersAreFresh, StagesInOrder
  <2>3. QED
    BY <2>1, <2>2
<1>3. NumbersAreFresh'
  BY <1>1, <1>2 DEF SessionInv, NumbersAreFresh
<1>4. StagesInOrder'
  BY <1>1, <1>2 DEF SessionInv, NumbersAreFresh, StagesInOrder
<1>5. AwaitedOnce'
  <2>1. ASSUME NEW h \in Gateway, NEW q \in Gateway, <<h, q, conns + 1>> \in connecting
        PROVE  FALSE
    <3>1. conns + 1 \in Conn /\ Awaited(h, conns + 1)
      BY <2>1 DEF TypeOK, Awaited
    <3>2. QED
      BY <1>1, <1>2, <3>1
  <2>2. QED
    BY <1>1, <2>1 DEF SessionInv, AwaitedOnce
<1>6. NoOrphanSession'
  BY <1>1 DEF SessionInv, NoOrphanSession
<1>7. QED
  BY <1>3, <1>4, <1>5, <1>6 DEF SessionInv

\* The session that onConnect replaces is neither running nor active.
LEMMA AcceptSessions ==
    ASSUME TypeOK, SessionInv, NEW g \in Gateway, NEW p \in Gateway, NEW c \in Conn,
           Accept(g, p, c)
    PROVE  SessionInv'
<1>1. /\ <<g, p, c>> \in connecting /\ session[g][p] \notin running[g]
      /\ connecting' = connecting \ {<<g, p, c>>}
      /\ session' = [session EXCEPT ![g][p] = c]
      /\ running' = [running EXCEPT ![g] = @ \cup {c}]
      /\ actived' = [actived EXCEPT ![g] = @ \cup {c}]
      /\ UNCHANGED <<conns, tasks>>
  BY DEF Accept
<1>2. \A m \in pending' : m.type = "Disconnect" => m \in pending
  BY DEF Accept, Heartbeat, PacketOf
<1>3. Awaited(g, c) /\ c <= conns /\ ~ErrorQueued(g, c) /\ ~ErrorHandled(g, c)
  BY <1>1 DEF Awaited, SessionInv, NumbersAreFresh, StagesInOrder
<1>4. ASSUME NEW h \in Gateway, NEW d \in Conn
      PROVE  /\ Awaited(h, d)' => Awaited(h, d) /\ ~(h = g /\ d = c)
             /\ ErrorQueued(h, d)' => ErrorQueued(h, d)
             /\ ErrorHandled(h, d)' <=> ErrorHandled(h, d)
             /\ d \in running'[h] <=> d \in running[h] \/ (h = g /\ d = c)
             /\ d \in actived'[h] <=> d \in actived[h] \/ (h = g /\ d = c)
  <2>1. Awaited(h, d)' => Awaited(h, d) /\ ~(h = g /\ d = c)
    BY <1>1 DEF Awaited, SessionInv, AwaitedOnce
  <2>2. QED
    BY <1>1, <1>2, <2>1 DEF ErrorQueued, ErrorHandled, TypeOK
<1>5. NumbersAreFresh' /\ StagesInOrder'
  BY <1>1, <1>3, <1>4 DEF SessionInv, NumbersAreFresh, StagesInOrder
<1>6. AwaitedOnce'
  BY <1>1 DEF SessionInv, AwaitedOnce
<1>7. NoOrphanSession'
  <2>1. ASSUME NEW h \in Gateway, NEW d \in running'[h] \cup actived'[h]
        PROVE  \E q \in Gateway : session'[h][q] = d
    <3>1. session'[g][p] = c
      BY <1>1 DEF TypeOK
    <3>2. CASE h = g /\ d = c
      BY <3>1, <3>2
    <3>3. CASE ~(h = g /\ d = c)
      <4>1. d \in running[h]
        BY <1>1, <1>4, <3>3 DEF TypeOK, SessionInv, StagesInOrder
      <4>2. PICK q \in Gateway : session[h][q] = d
        BY <4>1 DEF SessionInv, NoOrphanSession
      <4>3. ~(h = g /\ q = p)
        BY <1>1, <4>1, <4>2
      <4>4. session'[h][q] = d
        BY <1>1, <4>2, <4>3 DEF TypeOK
      <4>5. QED
        BY <4>4
    <3>4. QED
      BY <3>2, <3>3
  <2>2. QED
    BY <2>1 DEF NoOrphanSession
<1>8. QED
  BY <1>5, <1>6, <1>7 DEF SessionInv

\* A session that is dropped was active, so that no error task of it exists.
LEMMA DropSessions ==
    ASSUME TypeOK, SessionInv, NEW g \in Gateway, NEW p \in Gateway, NEW c \in Conn,
           Drop(g, p, c)
    PROVE  SessionInv'
<1>1. /\ c \in actived[g]
      /\ actived' = [actived EXCEPT ![g] = @ \ {c}]
      /\ UNCHANGED <<conns, connecting, session, running, tasks>>
      /\ \A m \in pending' : m \in pending \/ (m.to = g /\ m.conn = c)
  BY DEF Drop, PacketOf
<1>2. c \in running[g] /\ c <= conns /\ ~Awaited(g, c) /\ ~ErrorHandled(g, c)
  BY <1>1 DEF SessionInv, NumbersAreFresh, StagesInOrder
<1>3. ASSUME NEW h \in Gateway, NEW d \in Conn
      PROVE  /\ Awaited(h, d)' <=> Awaited(h, d)
             /\ ErrorQueued(h, d)' => ErrorQueued(h, d) \/ (h = g /\ d = c)
             /\ ErrorHandled(h, d)' <=> ErrorHandled(h, d)
             /\ d \in actived'[h] => d \in actived[h] /\ ~(h = g /\ d = c)
  BY <1>1 DEF Awaited, ErrorQueued, ErrorHandled, TypeOK
<1>4. NumbersAreFresh' /\ StagesInOrder'
  BY <1>1, <1>2, <1>3 DEF SessionInv, NumbersAreFresh, StagesInOrder
<1>5. AwaitedOnce'
  BY <1>1 DEF SessionInv, AwaitedOnce
<1>6. NoOrphanSession'
  BY <1>1 DEF SessionInv, NoOrphanSession, TypeOK
<1>7. QED
  BY <1>4, <1>5, <1>6 DEF SessionInv

\* A connection that onConnect rejects and a heartbeat touch no session in use.
LEMMA OtherSessions ==
    ASSUME TypeOK, SessionInv, NEW g \in Gateway, NEW p \in Gateway,
           heartBeat(g, p) \/ \E c \in Conn : RejectDuplicate(g, p, c)
    PROVE  SessionInv'
<1>1. CASE heartBeat(g, p)
  <2>1. \A m \in pending' : m.type = "Disconnect" => m \in pending
    BY <1>1 DEF heartBeat, Send, Heartbeat, PacketOf
  <2>2. QED
    BY <1>1, <2>1, SessionsUntouched DEF heartBeat, sessionVars
<1>2. ASSUME NEW c \in Conn, RejectDuplicate(g, p, c)
      PROVE  SessionInv'
  BY <1>2, SessionsUntouched DEF RejectDuplicate
<1>3. QED
  BY <1>1, <1>2

\* The task of a packet that is not an error task touches no session.
LEMMA HandlePacketSessions ==
    ASSUME TypeOK, SessionInv, NEW m \in pending,
           HandleHeartbeat(m) \/ HandleRequest(m) \/ HandleResponse(m)
    PROVE  SessionInv'
<1>1. /\ UNCHANGED <<conns, connecting, session, running, actived>>
      /\ \A k \in pending' : k.type = "Disconnect" => k \in pending
  BY DEF HandleHeartbeat, HandleRequest, HandleResponse, Send, PacketOf, sessionVars
<1>2. \A t \in tasks' : t.phase \in {"remove", "erase"} => t \in tasks
  BY DEF HandleHeartbeat, HandleRequest, HandleResponse
<1>3. QED
  BY <1>1, <1>2, SessionsUntouched

\* An error task stops a session that is not active any more.
LEMMA HandleDisconnectSessions ==
    ASSUME TypeOK, SessionInv, NEW m \in pending, HandleDisconnect(m)
    PROVE  SessionInv'
<1>1. /\ m.type = "Disconnect" /\ m.to \in Gateway /\ m.conn \in Conn
      /\ running' = [running EXCEPT ![m.to] = @ \ {m.conn}]
      /\ pending' \subseteq pending
      /\ tasks' = tasks \cup {[pkt |-> m, phase |-> "remove"]}
      /\ UNCHANGED <<conns, connecting, session, actived>>
  BY DEF HandleDisconnect, TypeOK, Packet
<1>2. /\ ErrorQueued(m.to, m.conn) /\ m.conn <= conns
      /\ m.conn \notin actived[m.to] /\ ~Awaited(m.to, m.conn)
  BY <1>1 DEF ErrorQueued, SessionInv, NumbersAreFresh, StagesInOrder
<1>3. ASSUME NEW h \in Gateway, NEW d \in Conn
      PROVE  /\ Awaited(h, d)' <=> Awaited(h, d)
             /\ ErrorQueued(h, d)' => ErrorQueued(h, d)
             /\ ErrorHandled(h, d)' => ErrorHandled(h, d) \/ (h = m.to /\ d = m.conn)
             /\ d \in running'[h] <=> d \in running[h] /\ ~(h = m.to /\ d = m.conn)
  BY <1>1 DEF Awaited, ErrorQueued, ErrorHandled, TypeOK
<1>4. NumbersAreFresh' /\ StagesInOrder'
  BY <1>1, <1>2, <1>3 DEF SessionInv, NumbersAreFresh, StagesInOrder
<1>5. AwaitedOnce'
  BY <1>1 DEF SessionInv, AwaitedOnce
<1>6. NoOrphanSession'
  BY <1>1 DEF SessionInv, NoOrphanSession, TypeOK
<1>7. QED
  BY <1>4, <1>5, <1>6 DEF SessionInv

\* A session that is erased from m_sessions has been stopped before.
LEMMA TaskSessions ==
    ASSUME TypeOK, SessionInv, NEW t \in tasks, TaskStep(t)
    PROVE  SessionInv'
<1>1. CASE UpdateNodeIDs(t) \/ UpdateNodeIDInfo(t) \/ RemoveNodeIDs(t)
  <2>1. UNCHANGED sessionVars /\ pending' \subseteq pending
    BY <1>1 DEF UpdateNodeIDs, UpdateNodeIDInfo, RemoveNodeIDs, EndTask
  <2>2. \A u \in tasks' : u.phase \in {"remove", "erase"} =>
            \E v \in tasks : v.phase \in {"remove", "erase"} /\ v.pkt = u.pkt
    BY <1>1 DEF UpdateNodeIDs, UpdateNodeIDInfo, RemoveNodeIDs, EndTask
  <2>3. QED
    BY <2>1, <2>2, SessionsUntouched DEF sessionVars
<1>2. CASE EraseSession(t)
  <2> DEFINE g == t.pkt.to
             p == t.pkt.from
             c == t.pkt.conn
  <2>1. /\ t.phase = "erase" /\ g \in Gateway /\ p \in Gateway /\ c \in Conn
        /\ session' = IF session[g][p] = c
                      THEN [session EXCEPT ![g][p] = NoSession] ELSE session
        /\ UNCHANGED <<conns, connecting, running, actived>>
        /\ tasks' \subseteq tasks /\ pending' \subseteq pending
    BY <1>2 DEF EraseSession, EndTask, TypeOK, Task, Packet
  <2>2. ErrorHandled(g, c)
    BY <2>1 DEF ErrorHandled
  <2>3. c \notin running[g] /\ c \notin actived[g]
    BY <2>1, <2>2 DEF SessionInv, StagesInOrder
  <2>4. NumbersAreFresh' /\ StagesInOrder' /\ AwaitedOnce'
    <3>1. ASSUME NEW h \in Gateway, NEW d \in Conn
          PROVE  /\ Awaited(h, d)' <=> Awaited(h, d)
                 /\ ErrorQueued(h, d)' => ErrorQueued(h, d)
                 /\ ErrorHandled(h, d)' => ErrorHandled(h, d)
      BY <2>1 DEF Awaited, ErrorQueued, ErrorHandled
    <3>2. NumbersAreFresh' /\ StagesInOrder'
      BY <2>1, <3>1 DEF SessionInv, NumbersAreFresh, StagesInOrder
    <3>3. AwaitedOnce'
      BY <2>1 DEF SessionInv, AwaitedOnce
    <3>4. QED
      BY <3>2, <3>3
  <2>5. NoOrphanSession'
    <3>1. ASSUME NEW h \in Gateway, NEW d \in running[h] \cup actived[h]
          PROVE  \E q \in Gateway : session'[h][q] = d
      <4>1. PICK q \in Gateway : session[h][q] = d
        BY <3>1 DEF SessionInv, NoOrphanSession
      <4>2. ~(h = g /\ q = p /\ session[g][p] = c)
        BY <2>3, <3>1, <4>1
      <4>3. session'[h][q] = d
        BY <2>1, <4>1, <4>2 DEF TypeOK
      <4>4. QED
        BY <4>3
    <3>2. QED
      BY <2>1, <3>1 DEF NoOrphanSession
  <2>6. QED
    BY <2>4, <2>5 DEF SessionInv
<1>3. QED
  BY <1>1, <1>2 DEF TaskStep

\* However connections cross, are dropped and are replaced, a session that runs or
\* can send is the one m_sessions has for its peer: onConnect never overwrites, and
\* onDisconnect never erases, a session that is still in use.
THEOREM NoOrphanSessionHolds == Spec => []NoOrphanSession
<1>1. Init => SessionInv
  BY DEF Init, SessionInv, NumbersAreFresh, StagesInOrder, AwaitedOnce, NoOrphanSession,
         Awaited, ErrorQueued, ErrorHandled
<1>2. TypeOK /\ SessionInv /\ [Next]_vars => SessionInv'
  <2> SUFFICES ASSUME TypeOK, SessionInv, [Next]_vars
               PROVE  SessionInv'
    OBVIOUS
  <2>1. ASSUME NEW g \in Followed, RegistrationStep(g)
        PROVE  SessionInv'
    BY <2>1, SessionsUntouched DEF RegistrationStep, sessionVars
  <2>2. ASSUME NEW g \in Gateway, NEW p \in Gateway,
               \/ Dial(g, p)
               \/ heartBeat(g, p)
               \/ \E c \in Conn : Accept(g, p, c) \/ RejectDuplicate(g, p, c) \/ Drop(g, p, c)
        PROVE  SessionInv'
    BY <2>2, DialSessions, AcceptSessions, DropSessions, OtherSessions
  <2>3. ASSUME NEW m \in pending, Handle(m)
        PROVE  SessionInv'
    BY <2>3, HandlePacketSessions, HandleDisconnectSessions DEF Handle
  <2>4. ASSUME NEW t \in tasks, TaskStep(t)
        PROVE  SessionInv'
    BY <2>4, TaskSessions
  <2>5. CASE UNCHANGED vars
    BY <2>5, SessionsUntouched DEF vars, sessionVars
  <2>6. QED
    BY <2>1, <2>2, <2>3, <2>4, <2>5 DEF Next
<1>3. SessionInv => NoOrphanSession
  BY DEF SessionInv
<1>4. QED
  BY <1>1, <1>2, <1>3, TypeCorrect, PTL DEF Spec
=============================================================================
