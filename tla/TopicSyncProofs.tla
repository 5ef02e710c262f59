--------------------------- MODULE TopicSyncProofs ---------------------------
(***************************************************************************)
(* Proofs about TopicSync: types; a peer that has the present topicSeq has  *)
(* the present topics; and every client with topics is watched.            *)
(***************************************************************************)
EXTENDS TopicSync, TLAPS

\* A recorded or travelling list is older than the gateway's topics or equal to them.
Snapshot(seq, topics) == seq < topicSeq \/ (seq = topicSeq /\ topics = Topics)

\* The inductive invariant behind NoSilentStaleness.
ListsAreSnapshots ==
    /\ \A m \in pending : m.type = "ResponseTopic" => Snapshot(m.seq, m.topics)
    /\ \A p \in Peer : Snapshot(nodeID2TopicSeq[p], nodeID2TopicItems[p])

\* The topics are unchanged, or topicSeq has grown.
TopicsVersioned ==
    \/ clientTopics' = clientTopics /\ topicSeq' = topicSeq
    \/ topicSeq' = topicSeq + 1

-----------------------------------------------------------------------------

\* The messages that the gateway and the peers send are messages.
LEMMA MessagesTyped ==
    ASSUME TypeOK, NEW p \in Peer
    PROVE  /\ TopicSeqMessage(p) \in Message
           /\ RequestTopicMessage(p) \in Message
           /\ queryTopicsSubByClient(p) \in Message
<1>1. UNION {clientTopics[c] : c \in Client} \in SUBSET Topic
  BY DEF TypeOK
<1> QED BY <1>1 DEF TypeOK, Message, TopicSeqMessage, RequestTopicMessage,
           queryTopicsSubByClient, NoSeq

\* Subscriptions, removals, checks and deliveries keep the types.
LEMMA ClientsTyped == TypeOK /\ Clients => TypeOK'
<1> SUFFICES ASSUME TypeOK, Clients PROVE TypeOK'
  OBVIOUS
<1> USE DEF serviceVars, checkVars
<1>1. ASSUME NEW c \in Client, NEW T \in SUBSET Topic, subTopic(c, T)
      PROVE  TypeOK'
  BY <1>1 DEF TypeOK, subTopic, incTopicSeq, peerVars, NoSeq
<1>2. ASSUME NEW c \in Client, NEW T \in SUBSET Topic, removeTopics(c, T)
      PROVE  TypeOK'
  BY <1>2 DEF TypeOK, removeTopics, incTopicSeq, peerVars, NoSeq
<1>3. ASSUME NEW c \in Client, createAndGetServiceByClient(c)
      PROVE  clientInfo' \subseteq Client /\ unwatched' \subseteq Client
  BY <1>3 DEF TypeOK, createAndGetServiceByClient
<1>4. ASSUME NEW c \in Client, subTopicEnds(c)
      PROVE  TypeOK'
  BY <1>3, <1>4 DEF TypeOK, subTopicEnds, peerVars
<1>5. CASE checkClientConnection
  <2>1. checking' \in BOOLEAN
    BY <1>5, Zenon DEF checkClientConnection
  <2> QED BY <1>5, <2>1 DEF TypeOK, checkClientConnection, peerVars
<1>6. ASSUME NEW c \in Client, tars_endpointsAll(c)
      PROVE  TypeOK'
  BY <1>6 DEF TypeOK, tars_endpointsAll, peerVars
<1>7. CASE removeTopicsByClients
  <2>1. clientTopics' \in [Client -> SUBSET Topic]
    BY <1>7 DEF TypeOK, removeTopicsByClients
  <2>2. \A c \in Client \ known' : clientTopics'[c] = {}
    BY <1>7 DEF TypeOK, removeTopicsByClients
  <2>3. checking' \in BOOLEAN /\ clientsToRemove' \subseteq Client
    BY <1>7, Zenon DEF removeTopicsByClients
  <2> QED BY <1>7, <2>1, <2>2, <2>3 DEF TypeOK, removeTopicsByClients, incTopicSeq,
                                        peerVars, NoSeq
<1>8. ASSUME NEW t \in Topic, onReceiveAMOPMessage(t)
      PROVE  TypeOK'
  BY <1>8 DEF TypeOK, onReceiveAMOPMessage, queryClientsByTopic, peerVars
<1>9. ASSUME NEW c \in Client, asyncNotifyAMOPMessage(c)
      PROVE  TypeOK'
  BY <1>3, <1>9 DEF TypeOK, asyncNotifyAMOPMessage, peerVars
<1> QED BY <1>1, <1>2, <1>4, <1>5, <1>6, <1>7, <1>8, <1>9 DEF Clients

\* The gossip of the topics keeps the types.
LEMMA GossipTyped ==
    TypeOK /\ (broadcastTopicSeq \/ \E m \in pending : Handle(m)) => TypeOK'
<1>1. ASSUME TypeOK, broadcastTopicSeq
      PROVE  TypeOK'
  <2>1. {TopicSeqMessage(p) : p \in connected} \subseteq Message
    BY <1>1, MessagesTyped DEF TypeOK
  <2> QED BY <1>1, <2>1 DEF TypeOK, broadcastTopicSeq, clientVars, serviceVars, checkVars,
                            peerVars
<1>2. ASSUME TypeOK, NEW m \in pending, Handle(m)
      PROVE  TypeOK'
  <2>1. m.peer \in Peer /\ m.seq \in Nat /\ m.topics \in SUBSET Topic
    BY <1>2 DEF TypeOK, Message
  <2>2. CASE onReceiveTopicSeqMessage(m)
    BY <1>2, <2>1, <2>2, MessagesTyped
       DEF TypeOK, onReceiveTopicSeqMessage, Sent, clientVars, serviceVars, checkVars, peerVars
  <2>3. CASE onReceiveRequestTopicMessage(m)
    BY <1>2, <2>1, <2>3, MessagesTyped
       DEF TypeOK, onReceiveRequestTopicMessage, Sent, clientVars, serviceVars, checkVars,
           peerVars
  <2>4. CASE onReceiveResponseTopicMessage(m)
    BY <1>2, <2>1, <2>4
       DEF TypeOK, onReceiveResponseTopicMessage, updateSeqAndTopicsByNodeID, clientVars,
           serviceVars,
           checkVars
  <2> QED BY <1>2, <2>2, <2>3, <2>4 DEF Handle
<1> QED BY <1>1, <1>2

\* Connections and endpoints keep the types.
LEMMA WorldTyped == TypeOK /\ World => TypeOK'
<1> SUFFICES ASSUME TypeOK, World PROVE TypeOK'
  OBVIOUS
<1>1. ASSUME NEW p \in Peer, Connect(p) \/ Disconnect(p)
      PROVE  TypeOK'
  BY <1>1 DEF TypeOK, Connect, Disconnect, clientVars, serviceVars, checkVars, peerVars
<1>2. ASSUME NEW c \in Client, EndpointUp(c) \/ EndpointDown(c)
      PROVE  TypeOK'
  BY <1>2 DEF TypeOK, EndpointUp, EndpointDown, clientVars, serviceVars, checkVars, peerVars
<1> QED BY <1>1, <1>2 DEF World

\* Every variable has its type in every reachable state.
THEOREM TypeCorrect == Spec => []TypeOK
<1>1. Init => TypeOK
  <2> SUFFICES ASSUME Init PROVE TypeOK
    OBVIOUS
  <2>1. /\ clientTopics \in [Client -> SUBSET Topic] /\ wanted \in [Client -> SUBSET Topic]
        /\ \A c \in Client : clientTopics[c] = {}
    BY DEF Init
  <2>2. nodeID2TopicSeq \in [Peer -> Nat] /\ nodeID2TopicItems \in [Peer -> SUBSET Topic]
    BY DEF Init, NoSeq
  <2>3. checking \in BOOLEAN /\ localMode \in BOOLEAN
    BY Zenon DEF Init
  <2> QED BY <2>1, <2>2, <2>3, ConstantsAssumption DEF Init, TypeOK, NoSeq
<1>2. TypeOK /\ [Next]_vars => TypeOK'
  <2> SUFFICES ASSUME TypeOK, [Next]_vars PROVE TypeOK'
    OBVIOUS
  <2>1. CASE Next
    BY <2>1, ClientsTyped, GossipTyped, WorldTyped DEF Next
  <2>2. CASE UNCHANGED vars
    BY <2>2 DEF TypeOK, vars, clientVars, serviceVars, checkVars, peerVars
  <2> QED BY <2>1, <2>2
<1> QED BY <1>1, <1>2, PTL DEF Spec

-----------------------------------------------------------------------------

\* A list stays a snapshot when the topics change only together with topicSeq.
LEMMA SnapshotKept ==
    ASSUME TypeOK, TopicsVersioned, NEW seq \in Nat, NEW topics, Snapshot(seq, topics)
    PROVE  Snapshot(seq, topics)'
<1>1. topicSeq \in Nat
  BY DEF TypeOK
<1>2. CASE clientTopics' = clientTopics /\ topicSeq' = topicSeq
  BY <1>2 DEF Snapshot, Topics
<1>3. CASE topicSeq' = topicSeq + 1
  BY <1>1, <1>3 DEF Snapshot
<1> QED BY <1>2, <1>3 DEF TopicsVersioned

\* Every change of the gateway's subscriptions increases topicSeq, and no list is
\* touched by it.
LEMMA ClientsVersioned == Clients => TopicsVersioned /\ UNCHANGED <<pending, peerVars>>
BY DEF Clients, TopicsVersioned, subTopic, subTopicEnds, removeTopics,
       checkClientConnection, tars_endpointsAll, removeTopicsByClients,
       onReceiveAMOPMessage, asyncNotifyAMOPMessage, incTopicSeq

\* Every step of Next keeps the lists snapshots.
LEMMA SnapshotsKept ==
    ASSUME TypeOK, ListsAreSnapshots, [Next]_vars
    PROVE  ListsAreSnapshots'
<1> USE DEF TypeOK
<1>0. /\ \A m \in pending : m.seq \in Nat /\ m.peer \in Peer
      /\ \A p \in Peer : nodeID2TopicSeq[p] \in Nat
  BY DEF Message
\* A step that only loses lists, or leaves them alone.
<1>1. ASSUME TopicsVersioned, peerVars' = peerVars,
             \A m \in pending' : m \in pending \/ m.type # "ResponseTopic"
      PROVE  ListsAreSnapshots'
  <2>1. ASSUME NEW m \in pending', m.type = "ResponseTopic"
        PROVE  Snapshot(m.seq, m.topics)'
    BY <1>0, <1>1, <2>1, SnapshotKept DEF ListsAreSnapshots
  <2>2. ASSUME NEW p \in Peer
        PROVE  Snapshot(nodeID2TopicSeq[p], nodeID2TopicItems[p])'
    <3>1. Snapshot(nodeID2TopicSeq[p], nodeID2TopicItems[p])
      BY <2>2 DEF ListsAreSnapshots
    <3>2. nodeID2TopicSeq' = nodeID2TopicSeq /\ nodeID2TopicItems' = nodeID2TopicItems
      BY <1>1 DEF peerVars
    <3> QED BY <1>0, <1>1, <3>1, <3>2, SnapshotKept DEF Snapshot, Topics, TopicsVersioned
  <2> QED BY <2>1, <2>2 DEF ListsAreSnapshots
<1>2. CASE Clients
  BY <1>1, <1>2, ClientsVersioned
<1>3. CASE broadcastTopicSeq
  BY <1>1, <1>3 DEF broadcastTopicSeq, TopicSeqMessage, TopicsVersioned, clientVars,
                    serviceVars, checkVars, peerVars
<1>4. ASSUME NEW m \in pending, onReceiveTopicSeqMessage(m)
      PROVE  ListsAreSnapshots'
  BY <1>1, <1>4
     DEF onReceiveTopicSeqMessage, Sent, RequestTopicMessage, TopicsVersioned, clientVars,
         serviceVars, checkVars, peerVars
<1>5. ASSUME NEW m \in pending, onReceiveRequestTopicMessage(m)
      PROVE  ListsAreSnapshots'
  <2>1. UNCHANGED <<topicSeq, clientTopics, nodeID2TopicSeq, nodeID2TopicItems>>
    BY <1>5 DEF onReceiveRequestTopicMessage, clientVars, serviceVars, checkVars, peerVars
  <2>2. \A n \in pending' : n \in pending \/ (n.seq = topicSeq /\ n.topics = Topics)
    BY <1>5 DEF onReceiveRequestTopicMessage, Sent, queryTopicsSubByClient, Topics
  <2> QED BY <2>1, <2>2 DEF ListsAreSnapshots, Snapshot, Topics
<1>6. ASSUME NEW m \in pending, onReceiveResponseTopicMessage(m)
      PROVE  ListsAreSnapshots'
  <2>1. UNCHANGED <<topicSeq, clientTopics>> /\ pending' \subseteq pending
    BY <1>6 DEF onReceiveResponseTopicMessage, clientVars
  <2>2. Snapshot(m.seq, m.topics)
    BY <1>6 DEF onReceiveResponseTopicMessage, ListsAreSnapshots
  <2>3. \A p \in Peer :
          \/ nodeID2TopicSeq'[p] = m.seq /\ nodeID2TopicItems'[p] = m.topics
          \/ nodeID2TopicSeq'[p] = nodeID2TopicSeq[p] /\ nodeID2TopicItems'[p] = nodeID2TopicItems[p]
    BY <1>0, <1>6 DEF onReceiveResponseTopicMessage, updateSeqAndTopicsByNodeID
  <2> QED BY <2>1, <2>2, <2>3 DEF ListsAreSnapshots, Snapshot, Topics
<1>7. CASE World
  <2>1. TopicsVersioned /\ peerVars' = peerVars /\ pending' \subseteq pending
    BY <1>7 DEF World, Connect, Disconnect, EndpointUp, EndpointDown, TopicsVersioned, clientVars
  <2> QED BY <1>1, <2>1
<1>8. CASE UNCHANGED vars
  BY <1>1, <1>8 DEF vars, clientVars, TopicsVersioned
<1> QED BY <1>2, <1>3, <1>4, <1>5, <1>6, <1>7, <1>8 DEF Next, Handle

\* A peer that has recorded the present topicSeq has recorded the present topics,
\* however many messages were lost, delayed or overtaken.
THEOREM NoSilentStalenessHolds == Spec => []NoSilentStaleness
<1>1. Init => ListsAreSnapshots
  BY DEF Init, ListsAreSnapshots, Snapshot, NoSeq
<1>2. TypeOK /\ ListsAreSnapshots /\ [Next]_vars => ListsAreSnapshots'
  BY SnapshotsKept
<1>3. TypeOK /\ ListsAreSnapshots => NoSilentStaleness
  BY DEF TypeOK, ListsAreSnapshots, Snapshot, NoSilentStaleness
<1> QED BY <1>1, <1>2, <1>3, TypeCorrect, PTL DEF Spec

-----------------------------------------------------------------------------

\* What keeps the clients with topics watched: between two checks there is nobody to
\* look at or to remove, so that a check forgets nobody the last one has found.
WatchInv == TopicsAreWatched /\ (~checking => toCheck = {} /\ clientsToRemove = {})

\* Every step keeps the clients with topics watched.
LEMMA WatchKept ==
    ASSUME TypeOK, WatchInv, [Next]_vars
    PROVE  WatchInv'
<1> USE DEF WatchInv, TopicsAreWatched, serviceVars, checkVars
\* Looking a service up either finds it or leaves a client that is not watched.
<1>0. ASSUME NEW c \in Client, createAndGetServiceByClient(c), ~localMode
      PROVE  /\ c \in clientInfo' \cup unwatched'
             /\ clientInfo \cup unwatched \subseteq clientInfo' \cup unwatched'
  BY <1>0 DEF createAndGetServiceByClient
<1>1. ASSUME NEW c \in Client, NEW T \in SUBSET Topic, subTopic(c, T) \/ removeTopics(c, T)
      PROVE  WatchInv'
  BY <1>1 DEF subTopic, removeTopics
<1>2. ASSUME NEW c \in Client, subTopicEnds(c)
      PROVE  WatchInv'
  BY <1>0, <1>2 DEF subTopicEnds
<1>3. CASE checkClientConnection
  BY <1>3 DEF checkClientConnection
<1>4. ASSUME NEW c \in Client, tars_endpointsAll(c)
      PROVE  WatchInv'
  <2>1. UNCHANGED <<known, localMode, subscribing, unwatched, checking>>
    BY <1>4 DEF tars_endpointsAll
  <2>2. clientInfo \cup clientsToRemove \subseteq clientInfo' \cup clientsToRemove'
    BY <1>4 DEF tars_endpointsAll
  <2>3. checking
    BY <1>4 DEF tars_endpointsAll
  <2> QED BY <2>1, <2>2, <2>3
<1>5. CASE removeTopicsByClients
  BY <1>5 DEF removeTopicsByClients
<1>6. ASSUME NEW t \in Topic, onReceiveAMOPMessage(t)
      PROVE  WatchInv'
  BY <1>6 DEF onReceiveAMOPMessage
<1>7. ASSUME NEW c \in Client, asyncNotifyAMOPMessage(c)
      PROVE  WatchInv'
  BY <1>0, <1>7 DEF asyncNotifyAMOPMessage
<1>8. ASSUME UNCHANGED clientVars
      PROVE  WatchInv'
  BY <1>8 DEF clientVars
<1>9. CASE broadcastTopicSeq \/ (\E m \in pending : Handle(m)) \/ World \/ UNCHANGED vars
  <2>1. UNCHANGED clientVars
    BY <1>9 DEF broadcastTopicSeq, Handle, onReceiveTopicSeqMessage,
       onReceiveRequestTopicMessage, onReceiveResponseTopicMessage, World, Connect,
       Disconnect, EndpointUp, EndpointDown, vars
  <2> QED BY <1>8, <2>1
<1> QED BY <1>1, <1>2, <1>3, <1>4, <1>5, <1>6, <1>7, <1>9 DEF Next, Clients

\* Unless the gateway has a LocalTopicManager, every client with an entry in
\* m_client2TopicItems is watched by checkClientConnection, about to be, being removed, or
\* one whose service createAndGetServiceByClient could not create, for any clients and
\* however the pass interleaves with subscriptions and deliveries.
THEOREM TopicsAreWatchedHolds == Spec => []TopicsAreWatched
<1>1. Init => WatchInv
  BY DEF Init, WatchInv, TopicsAreWatched
<1>2. TypeOK /\ WatchInv /\ [Next]_vars => WatchInv'
  BY WatchKept
<1>3. WatchInv => TopicsAreWatched
  BY DEF WatchInv
<1> QED BY <1>1, <1>2, <1>3, TypeCorrect, PTL DEF Spec
=============================================================================
