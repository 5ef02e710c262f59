------------------------------ MODULE TopicSync ------------------------------
(***************************************************************************)
(* How the other gateways learn the topics that the clients of one gateway *)
(* subscribe (TopicManager, and the topic messages of AMOPImpl).  Clients  *)
(* subscribe with the gateway, which increases topicSeq at every change and *)
(* broadcasts it from a timer; a peer that has recorded another seq asks   *)
(* for the topics.  What the gateway learns of its peers is kept in other  *)
(* maps and is the same protocol the other way round.                      *)
(*                                                                         *)
(* A gateway that runs in one process with its node has a                  *)
(* LocalTopicManager: no timer, no services, one client in the process.    *)
(***************************************************************************)
EXTENDS Naturals, FiniteSets

CONSTANTS
    Peer,          \* the other gateways
    Client,        \* the rpc nodes, named by their endpoints
    Topic,
    MaxTopicSeq,   \* bound: no subscription, removal or idle check beyond it
    MaxInFlight    \* bound on the topic lists in flight to a peer

ASSUME ConstantsAssumption ==
    MaxTopicSeq \in Nat /\ MaxInFlight \in Nat

VARIABLES
    \* the gateway
    known,            \* clients with an entry in m_client2TopicItems
    clientTopics,     \* m_client2TopicItems, {} without an entry
    topicSeq,         \* m_topicSeq
    clientInfo,       \* clients with an entry in m_clientInfo
    unwatched,        \* history: clients whose service could not be created last time
    localMode,        \* whether it is a LocalTopicManager
    subscribing,      \* clients for which subTopic has not created the service yet
    dispatching,      \* clients that the message being dispatched is still to go to
    checking,         \* checkClientConnection holds x_clientInfo
    toCheck,          \* the clients it has still to look at
    clientsToRemove,  \* the clients it found disconnected
    \* a peer's record of the gateway
    nodeID2TopicSeq,
    nodeID2TopicItems,
    \* the world
    connected,        \* peers with a session
    pending,          \* messages on the wire or in the queue of a dispatcher
    active,           \* clients whose endpoint is up
    wanted            \* topics a client has asked for since its endpoint is up

serviceVars == <<clientInfo, unwatched>>
checkVars == <<checking, toCheck, clientsToRemove>>
clientVars == <<known, clientTopics, topicSeq, serviceVars, localMode, subscribing,
                dispatching, checkVars>>
peerVars == <<nodeID2TopicSeq, nodeID2TopicItems>>
vars == <<clientVars, peerVars, connected, pending, active, wanted>>

NoSeq == 0

Message ==
    [type : {"TopicSeq", "RequestTopic", "ResponseTopic"}, peer : Peer,
     seq : Nat, topics : SUBSET Topic]

TypeOK ==
    /\ known \subseteq Client /\ clientTopics \in [Client -> SUBSET Topic]
    /\ \A c \in Client \ known : clientTopics[c] = {}
    /\ topicSeq \in Nat \ {NoSeq}
    /\ clientInfo \subseteq Client /\ unwatched \subseteq Client /\ localMode \in BOOLEAN
    /\ subscribing \subseteq Client /\ dispatching \subseteq Client
    /\ checking \in BOOLEAN /\ toCheck \subseteq Client /\ clientsToRemove \subseteq Client
    /\ nodeID2TopicSeq \in [Peer -> Nat]
    /\ nodeID2TopicItems \in [Peer -> SUBSET Topic]
    /\ connected \subseteq Peer /\ pending \subseteq Message
    /\ active \subseteq Client /\ wanted \in [Client -> SUBSET Topic]

Init ==
    /\ known = {} /\ clientTopics = [c \in Client |-> {}]
    /\ topicSeq = 1
    /\ clientInfo = {} /\ unwatched = {} /\ localMode \in BOOLEAN
    /\ subscribing = {} /\ dispatching = {}
    /\ checking = FALSE /\ toCheck = {} /\ clientsToRemove = {}
    /\ nodeID2TopicSeq = [p \in Peer |-> NoSeq]
    /\ nodeID2TopicItems = [p \in Peer |-> {}]
    /\ connected = {} /\ pending = {}
    /\ active = {} /\ wanted = [c \in Client |-> {}]

-----------------------------------------------------------------------------
(* Subscriptions.  x_clientTopics covers a change and its incTopicSeq. *)

incTopicSeq == topicSeq' = topicSeq + 1

\* Without an entry the service is created, or stringToProxy throws: there is still no
\* entry, and the nullptr is ignored or the client passed over.  A LocalTopicManager
\* returns m_rpc and keeps no entry.
createAndGetServiceByClient(c) ==
    /\ ~checking
    /\ \/ (c \in clientInfo \/ localMode) /\ UNCHANGED serviceVars
       \/ /\ c \notin clientInfo /\ ~localMode
          /\ \/ clientInfo' = clientInfo \cup {c} /\ unwatched' = unwatched \ {c}
             \/ clientInfo' = clientInfo /\ unwatched' = unwatched \cup {c}

\* The topics replace the client's previous ones.
subTopic(c, topicItems) ==
    /\ c \in active /\ topicSeq < MaxTopicSeq
    /\ known' = known \cup {c}
    /\ clientTopics' = [clientTopics EXCEPT ![c] = topicItems]
    /\ incTopicSeq
    /\ subscribing' = subscribing \cup {c}
    /\ wanted' = [wanted EXCEPT ![c] = topicItems]
    /\ UNCHANGED <<serviceVars, localMode, dispatching, checkVars, peerVars,
                   connected, pending, active>>

\* subTopic creates the service once it has released x_clientTopics.
subTopicEnds(c) ==
    /\ c \in subscribing
    /\ createAndGetServiceByClient(c)
    /\ subscribing' = subscribing \ {c}
    /\ UNCHANGED <<known, clientTopics, topicSeq, localMode, dispatching, checkVars,
                   peerVars, connected, pending, active, wanted>>

removeTopics(c, topicList) ==
    /\ c \in active /\ c \in known /\ topicSeq < MaxTopicSeq
    /\ clientTopics' = [clientTopics EXCEPT ![c] = @ \ topicList]
    /\ incTopicSeq
    /\ wanted' = [wanted EXCEPT ![c] = @ \ topicList]
    /\ UNCHANGED <<known, serviceVars, localMode, subscribing, dispatching, checkVars,
                   peerVars, connected, pending, active>>

\* The timer's pass over m_clientInfo: it holds x_clientInfo until the topics are
\* removed as well.  The timer of a LocalTopicManager is never started.
checkClientConnection ==
    /\ ~localMode /\ ~checking
    /\ clientInfo \subseteq active => topicSeq < MaxTopicSeq
    /\ checking' = TRUE
    /\ toCheck' = clientInfo
    /\ UNCHANGED <<known, clientTopics, topicSeq, serviceVars, localMode, subscribing, dispatching,
                   clientsToRemove, peerVars, connected, pending, active, wanted>>

\* Mutant: a client is erased and not noted.
tars_endpointsAllUnnoted(c) ==
    /\ c \in toCheck
    /\ toCheck' = toCheck \ {c}
    /\ clientInfo' = IF c \in active THEN clientInfo ELSE clientInfo \ {c}
    /\ UNCHANGED <<known, clientTopics, topicSeq, unwatched, localMode, subscribing, dispatching,
                   checking, clientsToRemove, peerVars, connected, pending, active, wanted>>

\* The pass asks for the endpoints of one client after the other.
tars_endpointsAll(c) ==
    /\ c \in toCheck
    /\ toCheck' = toCheck \ {c}
    /\ IF c \in active
       THEN UNCHANGED <<clientInfo, clientsToRemove>>
       ELSE /\ clientInfo' = clientInfo \ {c}
            /\ clientsToRemove' = clientsToRemove \cup {c}
    /\ UNCHANGED <<known, clientTopics, topicSeq, unwatched, localMode, subscribing, dispatching,
                   checking, peerVars, connected, pending, active, wanted>>

\* Mutant: the peers are not told of a removal.
removeTopicsByClientsUntold ==
    /\ checking /\ toCheck = {}
    /\ known' = known \ clientsToRemove
    /\ clientTopics' = [c \in Client |->
                          IF c \in clientsToRemove THEN {} ELSE clientTopics[c]]
    /\ checking' = FALSE /\ clientsToRemove' = {}
    /\ UNCHANGED <<topicSeq, serviceVars, localMode, subscribing, dispatching, toCheck, peerVars,
                   connected, pending, active, wanted>>

\* topicSeq is increased even if there was no client to remove.
removeTopicsByClients ==
    /\ checking /\ toCheck = {}
    /\ known' = known \ clientsToRemove
    /\ clientTopics' = [c \in Client |->
                          IF c \in clientsToRemove THEN {} ELSE clientTopics[c]]
    /\ incTopicSeq
    /\ checking' = FALSE /\ clientsToRemove' = {}
    /\ UNCHANGED <<serviceVars, localMode, subscribing, dispatching, toCheck, peerVars, connected,
                   pending, active, wanted>>

-----------------------------------------------------------------------------
(* Messages of the clients.  The dispatcher has one thread. *)

queryClientsByTopic(t) == {c \in Client : t \in clientTopics[c]}

\* A request goes to one client that subscribes its topic, a broadcast to all.
\* Without such a client there is an error response or nothing.
onReceiveAMOPMessage(t) ==
    /\ dispatching = {}
    /\ \/ \E choosedClient \in queryClientsByTopic(t) : dispatching' = {choosedClient}
       \/ dispatching' = queryClientsByTopic(t)
    /\ UNCHANGED <<known, clientTopics, topicSeq, serviceVars, localMode, subscribing, checkVars,
                   peerVars, connected, pending, active, wanted>>

\* A client may have been removed since it was found: its service is created again.
asyncNotifyAMOPMessage(c) ==
    /\ c \in dispatching
    /\ createAndGetServiceByClient(c)
    /\ dispatching' = dispatching \ {c}
    /\ UNCHANGED <<known, clientTopics, topicSeq, localMode, subscribing, checkVars,
                   peerVars, connected, pending, active, wanted>>

-----------------------------------------------------------------------------
(* Gossip of the topics. *)

TopicSeqMessage(p) == [type |-> "TopicSeq", peer |-> p, seq |-> topicSeq, topics |-> {}]
RequestTopicMessage(p) == [type |-> "RequestTopic", peer |-> p, seq |-> NoSeq, topics |-> {}]

\* seq and topics are read in one section of x_clientTopics.
queryTopicsSubByClient(p) ==
    [type |-> "ResponseTopic", peer |-> p, seq |-> topicSeq,
     topics |-> UNION {clientTopics[c] : c \in Client}]

\* asyncSendMessageByP2PNodeID reports an error, which is only logged, if there is no
\* session with p.
Sent(p, m) == IF p \in connected THEN {m} ELSE {}

\* Bound: the previous announcement has arrived or is lost.
broadcastTopicSeq ==
    /\ \A m \in pending : m.type # "TopicSeq"
    /\ pending' = pending \cup {TopicSeqMessage(p) : p \in connected}
    /\ UNCHANGED <<clientVars, peerVars, connected, active, wanted>>

\* Mutant: only a gateway that is known already is asked for its topics.
checkTopicSeqOfKnown(p, seq) == nodeID2TopicSeq[p] \notin {NoSeq, seq}

checkTopicSeq(p, seq) == nodeID2TopicSeq[p] # seq

onReceiveTopicSeqMessage(m) ==
    /\ m \in pending /\ m.type = "TopicSeq"
    /\ pending' = (pending \ {m}) \cup
          (IF checkTopicSeq(m.peer, m.seq) THEN Sent(m.peer, RequestTopicMessage(m.peer))
                                           ELSE {})
    /\ UNCHANGED <<clientVars, peerVars, connected, active, wanted>>

onReceiveRequestTopicMessage(m) ==
    /\ m \in pending /\ m.type = "RequestTopic"
    /\ dispatching = {}
    /\ Cardinality({n \in pending : n.peer = m.peer /\ n.type = "ResponseTopic"}) < MaxInFlight
    /\ pending' = (pending \ {m}) \cup Sent(m.peer, queryTopicsSubByClient(m.peer))
    /\ UNCHANGED <<clientVars, peerVars, connected, active, wanted>>

updateSeqAndTopicsByNodeID(p, seq, topicItems) ==
    /\ nodeID2TopicSeq' = [nodeID2TopicSeq EXCEPT ![p] = seq]
    /\ nodeID2TopicItems' = [nodeID2TopicItems EXCEPT ![p] = topicItems]

onReceiveResponseTopicMessage(m) ==
    /\ m \in pending /\ m.type = "ResponseTopic"
    /\ updateSeqAndTopicsByNodeID(m.peer, m.seq, m.topics)
    /\ pending' = pending \ {m}
    /\ UNCHANGED <<clientVars, connected, active, wanted>>

-----------------------------------------------------------------------------
(* Sessions and endpoints.  A peer keeps its record of the gateway when the session *)
(* is lost: notifyNodeIDs, which would remove it, is never called. *)

Connect(p) ==
    /\ connected' = connected \cup {p}
    /\ UNCHANGED <<clientVars, peerVars, pending, active, wanted>>

\* What is in a dispatcher's queue survives the session, what is on the wire does not.
Disconnect(p) ==
    /\ p \in connected
    /\ connected' = connected \ {p}
    /\ \E lost \in SUBSET {m \in pending : m.peer = p} : pending' = pending \ lost
    /\ UNCHANGED <<clientVars, peerVars, active, wanted>>

\* Bound: beyond MaxTopicSeq no endpoint comes up in the middle of a pass.
EndpointUp(c) ==
    /\ topicSeq < MaxTopicSeq \/ c \notin toCheck
    /\ active' = active \cup {c}
    /\ UNCHANGED <<clientVars, peerVars, connected, pending, wanted>>

EndpointDown(c) ==
    /\ active' = active \ {c}
    /\ wanted' = [wanted EXCEPT ![c] = {}]
    /\ UNCHANGED <<clientVars, peerVars, connected, pending>>

-----------------------------------------------------------------------------

Handle(m) ==
    \/ onReceiveTopicSeqMessage(m)
    \/ onReceiveRequestTopicMessage(m)
    \/ onReceiveResponseTopicMessage(m)

Clients ==
    \/ \E c \in Client, T \in SUBSET Topic : subTopic(c, T) \/ removeTopics(c, T)
    \/ \E c \in Client : subTopicEnds(c)
    \/ checkClientConnection
    \/ \E c \in Client : tars_endpointsAll(c)
    \/ removeTopicsByClients
    \/ \E t \in Topic : onReceiveAMOPMessage(t)
    \/ \E c \in Client : asyncNotifyAMOPMessage(c)

World ==
    \/ \E p \in Peer : Connect(p) \/ Disconnect(p)
    \/ \E c \in Client : EndpointUp(c) \/ EndpointDown(c)

Next ==
    \/ Clients
    \/ broadcastTopicSeq
    \/ \E m \in pending : Handle(m)
    \/ World

Spec == Init /\ [][Next]_vars

\* Timers fire, threads go on, and what has been sent arrives unless its session is
\* lost.  The dispatcher's queue is FIFO: messages of clients cannot keep a request of
\* the topics waiting for ever.
FairSpec ==
    /\ Spec
    /\ WF_vars(broadcastTopicSeq)
    /\ \A p \in Peer :
          /\ WF_vars(\E m \in pending : m.peer = p /\ onReceiveTopicSeqMessage(m))
          /\ SF_vars(\E m \in pending : m.peer = p /\ onReceiveRequestTopicMessage(m))
          /\ WF_vars(\E m \in pending : m.peer = p /\ onReceiveResponseTopicMessage(m))
    /\ WF_vars(checkClientConnection) /\ WF_vars(removeTopicsByClients)
    /\ \A c \in Client :
          /\ WF_vars(tars_endpointsAll(c))
          /\ WF_vars(subTopicEnds(c)) /\ WF_vars(asyncNotifyAMOPMessage(c))

-----------------------------------------------------------------------------
(* Properties. *)

Topics == UNION {clientTopics[c] : c \in Client}

\* A peer that has recorded the present topicSeq, and so will not ask again, has
\* recorded the topics that go with it: checkTopicSeq "return bool: if the nodeID has
\* been changed" (TopicManager.h).
NoSilentStaleness ==
    \A p \in Peer : nodeID2TopicSeq[p] = topicSeq => nodeID2TopicItems[p] = Topics

\* A peer that stays connected learns the topics of the gateway's clients in the end,
\* whatever responses overtook each other on the way.
TopicsConverge ==
    \A p \in Peer : <>[](p \in connected) => <>[](nodeID2TopicItems[p] = Topics)

\* A client with topics is one that the timer looks after, or will be once its subTopic
\* has created the service, or is being removed; its topics would otherwise stay when it
\* has gone.  Excepted are a LocalTopicManager, which has no timer, and a client whose
\* service could not be created: nobody looks after those.
TopicsAreWatched ==
    ~localMode => known \subseteq clientInfo \cup subscribing \cup clientsToRemove \cup unwatched

\* The topics of a client that has gone, and its entry in m_clientInfo (which a delivery
\* that was under way may create once more after the client's removal), are removed by the
\* timer, unless it returns; the exceptions are those of TopicsAreWatched.
DeadClientsForgotten ==
    \A c \in Client :
        (~localMode /\ c \notin active /\ c \in known \cup clientInfo)
            ~> (c \in active \/ c \in unwatched \/ c \notin known \cup clientInfo)

\* "query topics subscribe by all connected clients" (TopicManager.cpp,
\* queryTopicsSubByClient): what a connected client has asked for is there.
ConnectedClientsServed ==
    \A c \in active : wanted[c] \subseteq clientTopics[c]
=============================================================================
