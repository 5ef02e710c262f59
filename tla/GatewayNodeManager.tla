------------------------- MODULE GatewayNodeManager -------------------------
(***************************************************************************)
(* The node manager of a gateway (GatewayNodeManager.cpp): which front     *)
(* services are registered with this gateway, and which nodes can be       *)
(* reached through which peer gateway.                                     *)
(*                                                                         *)
(* Every gateway runs one node manager, so each variable is a function of  *)
(* the gateway's p2pID.  A Node stands for one (groupID, nodeID) pair, the *)
(* key of the two nested maps of the code.  A critical section of the code *)
(* is one operator; what a method does after it has released the lock is   *)
(* an operator of its own, so that a composition can interleave other      *)
(* threads between the two.                                                *)
(***************************************************************************)
EXTENDS Naturals

CONSTANTS
    Gateway,       \* the p2pIDs of the gateways
    Node,          \* the (groupID, nodeID) pairs of the front services
    MaxStatusSeq   \* bound on m_statusSeq; below 2^32, where the code's counter wraps

ASSUME MaxStatusSeqAssumption == MaxStatusSeq \in Nat \ {0}

VARIABLES
    statusSeq,          \* m_statusSeq: version of the local registrations
    frontServiceInfos,  \* m_frontServiceInfos: the locally registered nodes
    peerGatewayNodes,   \* m_peerGatewayNodes: node -> the gateways that serve it
    p2pID2Seq,          \* m_p2pID2Seq: peer -> statusSeq of the list stored for it
    nodeIDInfo          \* m_nodeIDInfo: peer -> the nodes it serves

nodeManagerVars ==
    <<statusSeq, frontServiceInfos, peerGatewayNodes, p2pID2Seq, nodeIDInfo>>

\* A peer that has no entry in m_p2pID2Seq: m_statusSeq starts from 1.
NoSeq == 0

NodeManagerTypeOK ==
    /\ statusSeq \in [Gateway -> 1..MaxStatusSeq]
    /\ frontServiceInfos \in [Gateway -> SUBSET Node]
    /\ peerGatewayNodes \in [Gateway -> [Node -> SUBSET Gateway]]
    /\ p2pID2Seq \in [Gateway -> [Gateway -> 0..MaxStatusSeq]]
    /\ nodeIDInfo \in [Gateway -> [Gateway -> SUBSET Node]]

\* Mutant: versions start at 0 (m_statusSeq{0}), one below the first that a gateway may announce.
NodeManagerInitSeqZero ==
    /\ statusSeq = [g \in Gateway |-> 0]
    /\ frontServiceInfos = [g \in Gateway |-> {}]
    /\ peerGatewayNodes = [g \in Gateway |-> [n \in Node |-> {}]]
    /\ p2pID2Seq = [g \in Gateway |-> [p \in Gateway |-> NoSeq]]
    /\ nodeIDInfo = [g \in Gateway |-> [p \in Gateway |-> {}]]

NodeManagerInit ==
    /\ statusSeq = [g \in Gateway |-> 1]
    /\ frontServiceInfos = [g \in Gateway |-> {}]
    /\ peerGatewayNodes = [g \in Gateway |-> [n \in Node |-> {}]]
    /\ p2pID2Seq = [g \in Gateway |-> [p \in Gateway |-> NoSeq]]
    /\ nodeIDInfo = [g \in Gateway |-> [p \in Gateway |-> {}]]

-----------------------------------------------------------------------------
(* Local registrations, under the write lock of x_frontServiceInfos. *)

increaseSeq(g) ==
    /\ statusSeq[g] < MaxStatusSeq
    /\ statusSeq' = [statusSeq EXCEPT ![g] = @ + 1]

\* Registering a node twice changes nothing and returns false.
registerFrontService(g, n) ==
    /\ n \notin frontServiceInfos[g]
    /\ frontServiceInfos' = [frontServiceInfos EXCEPT ![g] = @ \cup {n}]
    /\ increaseSeq(g)
    /\ UNCHANGED <<peerGatewayNodes, p2pID2Seq, nodeIDInfo>>

\* Unregistering an unknown node changes nothing and returns false.
unregisterFrontService(g, n) ==
    /\ n \in frontServiceInfos[g]
    /\ frontServiceInfos' = [frontServiceInfos EXCEPT ![g] = @ \ {n}]
    /\ increaseSeq(g)
    /\ UNCHANGED <<peerGatewayNodes, p2pID2Seq, nodeIDInfo>>

\* The version and the registrations, read under one read lock.
onRequestNodeIDs(g) ==
    [seq |-> statusSeq[g], nodes |-> frontServiceInfos[g]]

-----------------------------------------------------------------------------
(* What is known of the peers, under x_peerGatewayNodes. *)

\* The result parameter _statusSeqChanged.
onReceiveStatusSeq(g, p, seq) == p2pID2Seq[g][p] # seq

\* A node without any gateway left has no entry in the map of the code.
removeNodeIDsByP2PID(routes, p) == [n \in Node |-> routes[n] \ {p}]

insertNodeIDs(routes, p, nodes) ==
    [n \in Node |-> IF n \in nodes THEN routes[n] \cup {p} ELSE routes[n]]

\* removeNodeIDsByP2PID ends with a call of removeNodeIDInfo.
removeNodeIDInfo(g, p) == nodeIDInfo' = [nodeIDInfo EXCEPT ![g][p] = {}]

\* Mutant: the peer's old nodes are not removed first.
updateNodeIDsAppending(g, p, seq, nodes) ==
    /\ peerGatewayNodes' = [peerGatewayNodes EXCEPT ![g] = insertNodeIDs(@, p, nodes)]
    /\ removeNodeIDInfo(g, p)
    /\ p2pID2Seq' = [p2pID2Seq EXCEPT ![g][p] = seq]
    /\ UNCHANGED <<statusSeq, frontServiceInfos>>

\* The critical section of updateNodeIDs.
updateNodeIDs(g, p, seq, nodes) ==
    /\ peerGatewayNodes' = [peerGatewayNodes EXCEPT
           ![g] = insertNodeIDs(removeNodeIDsByP2PID(@, p), p, nodes)]
    /\ removeNodeIDInfo(g, p)
    /\ p2pID2Seq' = [p2pID2Seq EXCEPT ![g][p] = seq]
    /\ UNCHANGED <<statusSeq, frontServiceInfos>>

\* The call updateNodeIDs makes once it has released x_peerGatewayNodes.
updateNodeIDInfo(g, p, nodes) ==
    /\ nodeIDInfo' = [nodeIDInfo EXCEPT ![g][p] = nodes]
    /\ UNCHANGED <<statusSeq, frontServiceInfos, peerGatewayNodes, p2pID2Seq>>

\* Mutant: the peer's version is kept.
onRemoveNodeIDsKeepingSeq(g, p) ==
    /\ peerGatewayNodes' = [peerGatewayNodes EXCEPT ![g] = removeNodeIDsByP2PID(@, p)]
    /\ removeNodeIDInfo(g, p)
    /\ UNCHANGED <<statusSeq, frontServiceInfos, p2pID2Seq>>

\* The peer has disconnected.
onRemoveNodeIDs(g, p) ==
    /\ peerGatewayNodes' = [peerGatewayNodes EXCEPT ![g] = removeNodeIDsByP2PID(@, p)]
    /\ removeNodeIDInfo(g, p)
    /\ p2pID2Seq' = [p2pID2Seq EXCEPT ![g][p] = NoSeq]
    /\ UNCHANGED <<statusSeq, frontServiceInfos>>

-----------------------------------------------------------------------------
\* The gateways to which Gateway::asyncSendMessageByNodeID can hand a message for n.
queryP2pIDs(g, n) == peerGatewayNodes[g][n]

\* The nodes g would route to the peer p.
NodesVia(g, p) == {n \in Node : p \in queryP2pIDs(g, n)}
=============================================================================
