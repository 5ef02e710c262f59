----------------------------- MODULE FrontNotify -----------------------------
(***************************************************************************)
(* How the front services of a group learn which nodes the group has       *)
(* (GatewayNodeManager::notifyNodeIDs2FrontService and its callers), with  *)
(* the locking of x_frontServiceInfos.                                     *)
(*                                                                         *)
(* A pool thread notifies after it has stored or removed the node list of  *)
(* a peer.  Outside local mode (DynamicGatewayNodeManager) the timer and a *)
(* group-information notice change the registrations and notify, both      *)
(* under an upgradable lock that is held until the notification ends.  In  *)
(* local mode (GatewayNodeManager) registrations come in through           *)
(* registerFrontService and unregisterFrontService, under a write lock and *)
(* without a notification.  GatewayFactory::buildGateway decides.          *)
(*                                                                         *)
(* What is known of the peers is a version number, increased by each       *)
(* change.  A list of node IDs is the set of registered nodes and that     *)
(* number.  One group stands for all: the loop over the groups repeats the *)
(* same steps.                                                             *)
(***************************************************************************)
EXTENDS Naturals, SharedMutex

CONSTANTS
    Pool,       \* threads of the pool that handle node lists and disconnects
    Caller,     \* threads that call in with registrations or group information
    Timer,      \* the thread of m_frontServiceInfoUpdater
    Front,      \* the nodes that may be registered
    MaxChanges, \* bound on the changes of what is known of the peers
    MaxCalls    \* bound on the calls of the operations that change registrations

ASSUME ThreadAssumption == Thread = Pool \cup Caller \cup {Timer}
ASSUME BoundsAssumption == MaxChanges \in Nat /\ MaxCalls \in Nat

VARIABLES
    localMode,  \* _localMode of GatewayFactory::buildGateway
    infos,      \* m_frontServiceInfos: the registered nodes
    peers,      \* version of m_peerGatewayNodes
    pc,         \* where each thread is
    todo,       \* the front services a thread's loop has still to visit
    list,       \* the list of node IDs a thread has queried
    updated,    \* updated, frontServiceUpdated: the thread's pass changed something
    calls,      \* number of calls made so far
    due         \* the version of the peers' nodes each front waits for, or 0

vars == <<mutexVars, localMode, infos, peers, pc, todo, list, updated, calls, due>>

PC == {"idle",
       "notify", "copy", "query", "local", "peers", "deliver",     \* notifyNodeIDs2FrontService
       "upgradable", "pass", "change",                             \* updateFrontServiceInfo
       "lock", "write"}                                            \* (un)registerFrontService

TypeOK ==
    /\ MutexTypeOK
    /\ localMode \in BOOLEAN
    /\ infos \subseteq Front
    /\ peers \in 0..MaxChanges
    /\ pc \in [Thread -> PC]
    /\ todo \in [Thread -> SUBSET Front]
    /\ list \in [Thread -> [nodes : SUBSET Front, peers : 0..MaxChanges]]
    /\ updated \in [Thread -> BOOLEAN]
    /\ calls \in 0..MaxCalls
    /\ due \in [Front -> 0..MaxChanges]

NoList == [nodes |-> {}, peers |-> 0]

Init ==
    /\ MutexInit
    /\ localMode \in BOOLEAN
    /\ infos \in SUBSET Front
    /\ peers = 0
    /\ pc = [t \in Thread |-> "idle"]
    /\ todo = [t \in Thread |-> {}]
    /\ list = [t \in Thread |-> NoList]
    /\ updated = [t \in Thread |-> FALSE]
    /\ calls = 0
    /\ due = [f \in Front |-> 0]

Goto(t, label) == pc' = [pc EXCEPT ![t] = label]

Register(f) == infos' = infos \cup {f} /\ UNCHANGED due

\* Nothing is owed to a front service that has gone.
Unregister(f) == infos' = infos \ {f} /\ due' = [due EXCEPT ![f] = 0]

-----------------------------------------------------------------------------
(* notifyNodeIDs2FrontService, on any thread. *)

LockToCopy(t) ==
    /\ pc[t] = "notify"
    /\ lock_shared(t)
    /\ Goto(t, "copy")
    /\ UNCHANGED <<localMode, infos, peers, todo, list, updated, calls, due>>

\* Without any front service there is nothing to query.
Copy(t) ==
    /\ pc[t] = "copy"
    /\ todo' = [todo EXCEPT ![t] = infos]
    /\ unlock_shared(t)
    /\ Goto(t, IF infos = {} THEN "deliver" ELSE "query")
    /\ UNCHANGED <<localMode, infos, peers, list, updated, calls, due>>

LockToQuery(t) ==
    /\ pc[t] = "query"
    /\ lock_shared(t)
    /\ Goto(t, "local")
    /\ UNCHANGED <<localMode, infos, peers, todo, list, updated, calls, due>>

queryLocalNodeIDsByGroup(t) ==
    /\ pc[t] = "local"
    /\ list' = [list EXCEPT ![t].nodes = infos]
    /\ unlock_shared(t)
    /\ Goto(t, "peers")
    /\ UNCHANGED <<localMode, infos, peers, todo, updated, calls, due>>

\* The rest of queryNodeIDsByGroupID, under x_peerGatewayNodes.
queryNodeIDsByGroupID(t) ==
    /\ pc[t] = "peers"
    /\ list' = [list EXCEPT ![t].peers = peers]
    /\ Goto(t, "deliver")
    /\ UNCHANGED <<mutexVars, localMode, infos, peers, todo, updated, calls, due>>

onReceiveNodeIDs(t, f) ==
    /\ pc[t] = "deliver" /\ f \in todo[t]
    /\ due' = [due EXCEPT ![f] = IF list[t].peers >= @ THEN 0 ELSE @]
    /\ todo' = [todo EXCEPT ![t] = @ \ {f}]
    /\ UNCHANGED <<mutexVars, localMode, infos, peers, pc, list, updated, calls>>

\* The notification is over; an updater releases its upgradable lock with it.
NotifyEnds(t) ==
    /\ pc[t] = "deliver" /\ todo[t] = {}
    /\ Goto(t, "idle")
    /\ list' = [list EXCEPT ![t] = NoList]
    /\ updated' = [updated EXCEPT ![t] = FALSE]
    /\ IF upgrader = t THEN unlock_upgrade(t) ELSE UNCHANGED mutexVars
    /\ UNCHANGED <<localMode, infos, peers, todo, calls, due>>

NotifyStep(t) ==
    \/ LockToCopy(t) \/ Copy(t)
    \/ LockToQuery(t) \/ queryLocalNodeIDsByGroup(t) \/ queryNodeIDsByGroupID(t)
    \/ \E f \in Front : onReceiveNodeIDs(t, f)
    \/ NotifyEnds(t)

-----------------------------------------------------------------------------
(* updateNodeIDs and onRemoveNodeIDs, on a pool thread. *)

\* Mutant: no notification while another one is under way.
ChangePeersCoalescing(t) ==
    /\ t \in Pool /\ pc[t] = "idle"
    /\ peers < MaxChanges
    /\ peers' = peers + 1
    /\ due' = [f \in Front |-> IF f \in infos THEN peers + 1 ELSE 0]
    /\ Goto(t, IF \E u \in Thread : pc[u] = "deliver" THEN "idle" ELSE "notify")
    /\ UNCHANGED <<mutexVars, localMode, infos, todo, list, updated, calls>>

ChangePeers(t) ==
    /\ t \in Pool /\ pc[t] = "idle"
    /\ peers < MaxChanges
    /\ peers' = peers + 1
    /\ due' = [f \in Front |-> IF f \in infos THEN peers + 1 ELSE 0]
    /\ Goto(t, "notify")
    /\ UNCHANGED <<mutexVars, localMode, infos, todo, list, updated, calls>>

-----------------------------------------------------------------------------
(* updateFrontServiceInfo, on the timer's thread and on a caller's. *)

Call(t, label) ==
    /\ pc[t] = "idle"
    /\ calls < MaxCalls
    /\ calls' = calls + 1
    /\ Goto(t, label)
    /\ UNCHANGED <<mutexVars, localMode, infos, peers, todo, list, updated, due>>

StartUpdate(t) ==
    /\ ~localMode
    /\ t \notin Pool
    /\ Call(t, "upgradable")

\* The timer looks at every front service, a notice lists the nodes of its group.
LockUpgradable(t) ==
    /\ pc[t] = "upgradable"
    /\ lock_upgrade(t)
    /\ IF t = Timer
       THEN todo' = [todo EXCEPT ![t] = infos]
       ELSE \E listed \in SUBSET Front : todo' = [todo EXCEPT ![t] = listed]
    /\ Goto(t, "pass")
    /\ UNCHANGED <<localMode, infos, peers, list, updated, calls, due>>

\* The front service is reachable, or is registered already or has no service.
Skip(t, f) ==
    /\ pc[t] = "pass" /\ f \in todo[t]
    /\ todo' = [todo EXCEPT ![t] = @ \ {f}]
    /\ UNCHANGED <<mutexVars, localMode, infos, peers, pc, list, updated, calls, due>>

Upgrade(t) ==
    /\ pc[t] = "pass"
    /\ t = Timer \/ todo[t] \ infos # {}
    /\ todo[t] # {}
    /\ unlock_upgrade_and_lock(t)
    /\ Goto(t, "change")
    /\ UNCHANGED <<localMode, infos, peers, todo, list, updated, calls, due>>

\* The timer erases an unreachable front service, a notice inserts a new one.  (A group
\* that has become empty is erased under an UpgradeGuard of its own, which waits for
\* the same threads once more and changes nothing else.)
Change(t, f) ==
    /\ pc[t] = "change" /\ exclusive = t
    /\ f \in todo[t]
    /\ IF t = Timer THEN Unregister(f) ELSE f \notin infos /\ Register(f)
    /\ todo' = [todo EXCEPT ![t] = @ \ {f}]
    /\ updated' = [updated EXCEPT ![t] = TRUE]
    /\ unlock_and_lock_upgrade(t)
    /\ Goto(t, "pass")
    /\ UNCHANGED <<localMode, peers, list, calls>>

\* Mutant: the lock is released before the notification.
PassEndsReleasing(t) ==
    /\ pc[t] = "pass" /\ todo[t] = {}
    /\ unlock_upgrade(t)
    /\ Goto(t, IF updated[t] THEN "notify" ELSE "idle")
    /\ UNCHANGED <<localMode, infos, peers, todo, list, updated, calls, due>>

PassEnds(t) ==
    /\ pc[t] = "pass" /\ todo[t] = {}
    /\ IF updated[t]
       THEN Goto(t, "notify") /\ UNCHANGED mutexVars
       ELSE Goto(t, "idle") /\ unlock_upgrade(t)
    /\ UNCHANGED <<localMode, infos, peers, todo, list, updated, calls, due>>

UpdateStep(t) ==
    \/ LockUpgradable(t) \/ Upgrade(t) \/ PassEnds(t)
    \/ \E f \in Front : Skip(t, f) \/ Change(t, f)

-----------------------------------------------------------------------------
(* registerFrontService and unregisterFrontService, on a caller's thread. *)

\* Mutant: a gateway that is not in local mode is used in the same way.
StartWriteAnyMode(t) == t \in Caller /\ Call(t, "lock")

StartWrite(t) ==
    /\ localMode
    /\ t \in Caller
    /\ Call(t, "lock")

Lock(t) ==
    /\ pc[t] = "lock"
    /\ lock(t)
    /\ Goto(t, "write")
    /\ UNCHANGED <<localMode, infos, peers, todo, list, updated, calls, due>>

LockWaits(t) ==
    /\ pc[t] = "lock"
    /\ lockWaits
    /\ UNCHANGED <<localMode, infos, peers, pc, todo, list, updated, calls, due>>

Write(t, f) ==
    /\ pc[t] = "write"
    /\ IF f \in infos THEN Unregister(f) ELSE Register(f)
    /\ unlock(t)
    /\ Goto(t, "idle")
    /\ UNCHANGED <<localMode, peers, todo, list, updated, calls>>

WriteStep(t) == Lock(t) \/ LockWaits(t) \/ \E f \in Front : Write(t, f)

-----------------------------------------------------------------------------
Next ==
    \E t \in Thread :
        \/ ChangePeers(t) \/ StartUpdate(t) \/ StartWrite(t)
        \/ NotifyStep(t) \/ UpdateStep(t) \/ WriteStep(t)

Spec == Init /\ [][Next]_vars

\* A thread inside an operation goes on whenever the mutex lets it.  No fairness
\* for the start of an operation.
Fairness == \A t \in Thread : WF_vars(NotifyStep(t) \/ UpdateStep(t) \/ WriteStep(t))

FairSpec == Spec /\ Fairness

-----------------------------------------------------------------------------
(* Properties. *)

\* Nobody waits for ever: when no more operations start all of them end.  A
\* notification takes a read lock while its own thread holds the upgradable lock:
\* with a thread waiting in a WriteGuard both would wait on each other, and every
\* other user of the mutex on them.  It does not happen because only local mode has
\* write locks and it has no upgradable ones.
OperationsEnd == <>[](\A t \in Thread : pc[t] = "idle")

\* Thread t is inside an operation, and the mutex does not let it go on.
Waits(t) ==
    \/ pc[t] \in {"notify", "query"} /\ (exclusive # NoThread \/ blocked)
    \/ pc[t] = "upgradable" /\ (exclusive # NoThread \/ blocked \/ upgrader # NoThread)
    \/ pc[t] = "change" /\ exclusive # t
    \/ pc[t] = "lock" /\ (exclusive # NoThread \/ MoreShared)

\* Not everybody waits on everybody: while operations of x_frontServiceInfos are
\* under way, one of their threads can go on.  This is what keeps the read lock that
\* an updater takes inside its own upgradable lock from deadlocking the gateway.
SomebodyRuns ==
    (\E t \in Thread : pc[t] # "idle") => \E t \in Thread : pc[t] # "idle" /\ ~Waits(t)

\* A change of a peer's nodes is not kept from a front service that is registered
\* when it happens, whatever other notifications and registrations run at the same
\* time: as long as it stays registered it is handed a list at least as new.  (The
\* notification of another thread may hand it an older one afterwards.)
FrontsLearn == []<>(\A f \in Front : due[f] = 0)

\* The list that follows a change of the registrations is true to them while it is
\* being handed out: the upgradable lock keeps other changes out until the end.
UpdaterListIsCurrent ==
    \A t \in Thread \ Pool :
        pc[t] = "deliver" /\ todo[t] # {} => list[t].nodes = infos
=============================================================================
