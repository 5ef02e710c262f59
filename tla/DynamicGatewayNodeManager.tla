---------------------- MODULE DynamicGatewayNodeManager ----------------------
(***************************************************************************)
(* The node manager used outside local mode (DynamicGatewayNodeManager.cpp)*)
(* adds a timer that removes the front services that cannot be reached any *)
(* more, and registers the nodes a group-information notice lists.         *)
(*                                                                         *)
(* Both hold x_frontServiceInfos as an upgradable lock.  While they do, no *)
(* write lock is granted, but a reader (onRequestNodeIDs) is admitted      *)
(* whenever the lock is not upgraded: after each single removal.           *)
(***************************************************************************)
EXTENDS GatewayNodeManager

VARIABLE
    updater    \* where the timer's pass over the registrations is

dynamicVars == <<nodeManagerVars, updater>>

DynamicTypeOK == NodeManagerTypeOK /\ updater \in [Gateway -> {"idle", "removing"}]

DynamicInit == NodeManagerInit /\ updater = [g \in Gateway |-> "idle"]

\* The operations that need the write lock wait for the pass to end.
RegisterFrontService(g, n) ==
    /\ updater[g] = "idle"
    /\ registerFrontService(g, n)
    /\ UNCHANGED updater

UnregisterFrontService(g, n) ==
    /\ updater[g] = "idle"
    /\ unregisterFrontService(g, n)
    /\ UNCHANGED updater

\* updateFrontServiceInfo(GroupInfo): one listed node that is not registered yet.
\* It is inserted and counted under one upgraded lock.
UpdateFromGroupInfo(g, n) ==
    /\ updater[g] = "idle"
    /\ n \notin frontServiceInfos[g]
    /\ frontServiceInfos' = [frontServiceInfos EXCEPT ![g] = @ \cup {n}]
    /\ increaseSeq(g)
    /\ UNCHANGED <<peerGatewayNodes, p2pID2Seq, nodeIDInfo, updater>>

\* updateFrontServiceInfo(): the pass meets an unreachable front service.  The
\* version is left alone until the pass has seen every front service.
RemoveUnreachable(g, n) ==
    /\ n \in frontServiceInfos[g]
    /\ statusSeq[g] < MaxStatusSeq
    /\ frontServiceInfos' = [frontServiceInfos EXCEPT ![g] = @ \ {n}]
    /\ updater' = [updater EXCEPT ![g] = "removing"]
    /\ UNCHANGED <<statusSeq, peerGatewayNodes, p2pID2Seq, nodeIDInfo>>

\* The end of a pass that removed something.
FinishUpdate(g) ==
    /\ updater[g] = "removing"
    /\ increaseSeq(g)
    /\ updater' = [updater EXCEPT ![g] = "idle"]
    /\ UNCHANGED <<frontServiceInfos, peerGatewayNodes, p2pID2Seq, nodeIDInfo>>

\* One step of the environment or of the timer on the registrations of g.
Registrations(g) ==
    \/ \E n \in Node :
          \/ RegisterFrontService(g, n)
          \/ UnregisterFrontService(g, n)
          \/ UpdateFromGroupInfo(g, n)
          \/ RemoveUnreachable(g, n)
    \/ FinishUpdate(g)
=============================================================================
