-------------------------- MODULE FrontNotifyProofs --------------------------
(***************************************************************************)
(* Proofs about FrontNotify, for any threads, front services and bounds:   *)
(* type correctness, that an updater hands out a list that is true to the  *)
(* registrations, and that the threads never all wait for the mutex.       *)
(***************************************************************************)
EXTENDS FrontNotify, TLAPS

-----------------------------------------------------------------------------
(* The inductive invariant. *)

Notifying == {"notify", "copy", "query", "local", "peers", "deliver"}

\* The rules of the mutex: exclusive ownership excludes everything else, an upgrade
\* waits only for readers, and a WriteGuard waits only for somebody.
MutexInv ==
    /\ exclusive # NoThread => readers = {} /\ upgrader = NoThread
    /\ upgrading => upgrader # NoThread /\ readers # {}
    /\ blocked => exclusive # NoThread \/ MoreShared

\* Who holds the mutex, and how, follows from where the threads are.
HoldersInv ==
    \A t \in Thread :
        /\ t \in readers <=> pc[t] \in {"copy", "local"}
        /\ exclusive = t => pc[t] \in {"change", "write"}
        /\ pc[t] = "write" => exclusive = t
        /\ pc[t] = "change" => exclusive = t \/ (upgrader = t /\ upgrading)
        /\ upgrader = t => /\ t \notin Pool
                           /\ IF upgrading THEN pc[t] = "change"
                              ELSE pc[t] \in Notifying \cup {"pass"}
        /\ pc[t] = "pass" => upgrader = t
        /\ t \notin Pool /\ pc[t] \in Notifying => upgrader = t
        /\ pc[t] \in {"upgradable", "change"} => t \notin Pool

\* Write locks and upgradable locks are never used by one gateway.
ModeInv ==
    /\ localMode => /\ upgrader = NoThread
                    /\ \A t \in Thread : pc[t] \notin {"upgradable", "change"}
    /\ ~localMode => ~blocked /\ \A t \in Thread : pc[t] \notin {"lock", "write"}

\* An updater's copy of the registrations stays true.
ListInv ==
    \A t \in Thread \ Pool :
        pc[t] = "peers" \/ (pc[t] = "deliver" /\ todo[t] # {}) => list[t].nodes = infos

Inv == TypeOK /\ MutexInv /\ HoldersInv /\ ModeInv /\ ListInv

-----------------------------------------------------------------------------
(* Type correctness. *)

\* A step of a notification keeps the types.
LEMMA NotifyType ==
    ASSUME TypeOK, NEW t \in Thread, NotifyStep(t)
    PROVE  TypeOK'
<1> USE BoundsAssumption DEF TypeOK, MutexTypeOK, mutexVars, PC, Goto
<1>1. CASE LockToCopy(t) \/ LockToQuery(t)
  BY <1>1 DEF LockToCopy, LockToQuery, lock_shared
<1>2. CASE Copy(t) \/ queryLocalNodeIDsByGroup(t)
  <2>1. blocked' \in BOOLEAN /\ upgrading' \in BOOLEAN
    BY <1>2, Zenon DEF Copy, queryLocalNodeIDsByGroup, unlock_shared
  <2>2. MutexTypeOK'
    BY <1>2, <2>1 DEF Copy, queryLocalNodeIDsByGroup, unlock_shared
  <2>3. CASE Copy(t)
    BY <2>2, <2>3 DEF Copy
  <2>4. CASE queryLocalNodeIDsByGroup(t)
    <3>1. list' \in [Thread -> [nodes : SUBSET Front, peers : 0..MaxChanges]]
      BY <2>4 DEF queryLocalNodeIDsByGroup
    <3>2. QED
      BY <2>2, <2>4, <3>1 DEF queryLocalNodeIDsByGroup
  <2>5. QED
    BY <1>2, <2>3, <2>4
<1>3. CASE queryNodeIDsByGroupID(t)
  BY <1>3 DEF queryNodeIDsByGroupID
<1>4. ASSUME NEW f \in Front, onReceiveNodeIDs(t, f)
      PROVE  TypeOK'
  BY <1>4 DEF onReceiveNodeIDs
<1>5. CASE NotifyEnds(t)
  <2>1. MutexTypeOK'
    <3>1. blocked' \in BOOLEAN
      BY <1>5, Zenon DEF NotifyEnds, unlock_upgrade
    <3>2. QED
      BY <1>5, <3>1 DEF NotifyEnds, unlock_upgrade
  <2>2. list' \in [Thread -> [nodes : SUBSET Front, peers : 0..MaxChanges]]
    BY <1>5 DEF NotifyEnds, NoList
  <2>3. updated' \in [Thread -> BOOLEAN]
    BY <1>5, Zenon DEF NotifyEnds
  <2>4. QED
    BY <1>5, <2>1, <2>2, <2>3 DEF NotifyEnds
<1>6. QED
  BY <1>1, <1>2, <1>3, <1>4, <1>5 DEF NotifyStep

\* A step of an updater keeps the types.
LEMMA UpdateType ==
    ASSUME TypeOK, NEW t \in Thread, UpdateStep(t)
    PROVE  TypeOK'
<1> USE DEF TypeOK, MutexTypeOK, mutexVars, PC, Goto
<1>1. CASE LockUpgradable(t)
  BY <1>1 DEF LockUpgradable, lock_upgrade
<1>2. CASE Upgrade(t)
  BY <1>2 DEF Upgrade, unlock_upgrade_and_lock
<1>3. CASE PassEnds(t)
  <2>1. blocked' \in BOOLEAN
    BY <1>3, Zenon DEF PassEnds, unlock_upgrade
  <2>2. QED
    BY <1>3, <2>1 DEF PassEnds, unlock_upgrade
<1>4. ASSUME NEW f \in Front, Skip(t, f)
      PROVE  TypeOK'
  BY <1>4 DEF Skip
<1>5. ASSUME NEW f \in Front, Change(t, f)
      PROVE  TypeOK'
  <2>1. MutexTypeOK'
    BY <1>5, Zenon DEF Change, unlock_and_lock_upgrade
  <2>2. infos' \subseteq Front /\ due' \in [Front -> 0..MaxChanges]
    BY <1>5, BoundsAssumption DEF Change, Unregister, Register
  <2>3. updated' \in [Thread -> BOOLEAN]
    BY <1>5, Zenon DEF Change
  <2>4. QED
    BY <1>5, <2>1, <2>2, <2>3 DEF Change
<1>6. QED
  BY <1>1, <1>2, <1>3, <1>4, <1>5 DEF UpdateStep

\* A registration in local mode, and the start of any operation, keep the types.
LEMMA OtherType ==
    ASSUME TypeOK, NEW t \in Thread,
           WriteStep(t) \/ ChangePeers(t) \/ StartUpdate(t) \/ StartWrite(t)
    PROVE  TypeOK'
<1> USE BoundsAssumption DEF TypeOK, MutexTypeOK, mutexVars, PC, Goto
<1>1. CASE Lock(t) \/ LockWaits(t)
  BY <1>1 DEF Lock, LockWaits, lock, lockWaits
<1>2. ASSUME NEW f \in Front, Write(t, f)
      PROVE  TypeOK'
  <2>1. MutexTypeOK'
    BY <1>2, Zenon DEF Write, unlock
  <2>2. infos' \subseteq Front /\ due' \in [Front -> 0..MaxChanges]
    BY <1>2 DEF Write, Unregister, Register
  <2>3. QED
    BY <1>2, <2>1, <2>2 DEF Write
<1>3. CASE ChangePeers(t)
  BY <1>3 DEF ChangePeers
<1>4. CASE StartUpdate(t) \/ StartWrite(t)
  BY <1>4 DEF StartUpdate, StartWrite, Call
<1>5. QED
  BY <1>1, <1>2, <1>3, <1>4 DEF WriteStep

\* The types hold at first.
LEMMA TypeInit == ASSUME Init PROVE TypeOK
<1>1. updated \in [Thread -> BOOLEAN] /\ MutexTypeOK
  BY Zenon DEF Init, MutexInit, MutexTypeOK
<1>2. QED
  BY <1>1, BoundsAssumption DEF Init, NoList, TypeOK, PC

\* The mutex, the registrations and the threads keep their types.
THEOREM TypeCorrect == Spec => []TypeOK
<1>1. Init => TypeOK
  BY TypeInit
<1>2. TypeOK /\ [Next]_vars => TypeOK'
  <2>1. ASSUME TypeOK, Next
        PROVE  TypeOK'
    BY <2>1, NotifyType, UpdateType, OtherType DEF Next
  <2>2. ASSUME TypeOK, UNCHANGED vars
        PROVE  TypeOK'
    BY <2>2 DEF vars, mutexVars, TypeOK, MutexTypeOK
  <2>3. QED
    BY <2>1, <2>2
<1>3. QED
  BY <1>1, <1>2, PTL DEF Spec

\* A step of a notification keeps the invariant.
LEMMA NotifyKeeps ==
    ASSUME Inv, NEW t \in Thread, NotifyStep(t)
    PROVE  MutexInv' /\ HoldersInv' /\ ModeInv' /\ ListInv'
<1> USE NoThreadAssumption DEF Inv, TypeOK, MutexTypeOK, Goto, mutexVars, Notifying
<1>1. CASE LockToCopy(t) \/ LockToQuery(t)
  <2>1. MutexInv'
    BY <1>1 DEF MutexInv, HoldersInv, MoreShared, LockToCopy, LockToQuery, lock_shared
  <2>2. HoldersInv'
    BY <1>1 DEF HoldersInv, MutexInv, LockToCopy, LockToQuery, lock_shared
  <2>3. ModeInv'
    BY <1>1 DEF ModeInv, HoldersInv, MutexInv, LockToCopy, LockToQuery, lock_shared
  <2>4. ListInv'
    BY <1>1 DEF ListInv, HoldersInv, MutexInv, ModeInv, LockToCopy, LockToQuery, lock_shared
  <2>5. QED
    BY <2>1, <2>2, <2>3, <2>4
<1>2. CASE Copy(t)
  <2>1. MutexInv'
    BY <1>2 DEF MutexInv, HoldersInv, MoreShared, Copy, unlock_shared
  <2>2. HoldersInv'
    BY <1>2 DEF HoldersInv, MutexInv, Copy, unlock_shared
  <2>3. ModeInv'
    BY <1>2 DEF ModeInv, HoldersInv, MutexInv, Copy, unlock_shared
  <2>4. ListInv'
    BY <1>2 DEF ListInv, HoldersInv, MutexInv, ModeInv, Copy, unlock_shared
  <2>5. QED
    BY <2>1, <2>2, <2>3, <2>4
<1>3. CASE queryLocalNodeIDsByGroup(t)
  <2>1. MutexInv'
    BY <1>3 DEF MutexInv, HoldersInv, MoreShared, queryLocalNodeIDsByGroup, unlock_shared
  <2>2. HoldersInv'
    BY <1>3 DEF HoldersInv, MutexInv, queryLocalNodeIDsByGroup, unlock_shared
  <2>3. ModeInv'
    BY <1>3 DEF ModeInv, HoldersInv, MutexInv, queryLocalNodeIDsByGroup, unlock_shared
  <2>4. ListInv'
    BY <1>3 DEF ListInv, HoldersInv, MutexInv, ModeInv, queryLocalNodeIDsByGroup, unlock_shared
  <2>5. QED
    BY <2>1, <2>2, <2>3, <2>4
<1>4. CASE queryNodeIDsByGroupID(t)
  <2>1. MutexInv'
    BY <1>4 DEF MutexInv, HoldersInv, MoreShared, queryNodeIDsByGroupID
  <2>2. HoldersInv'
    BY <1>4 DEF HoldersInv, MutexInv, queryNodeIDsByGroupID
  <2>3. ModeInv'
    BY <1>4 DEF ModeInv, HoldersInv, MutexInv, queryNodeIDsByGroupID
  <2>4. ListInv'
    BY <1>4 DEF ListInv, HoldersInv, MutexInv, ModeInv, queryNodeIDsByGroupID
  <2>5. QED
    BY <2>1, <2>2, <2>3, <2>4
<1>5. ASSUME NEW f \in Front, onReceiveNodeIDs(t, f)
      PROVE  MutexInv' /\ HoldersInv' /\ ModeInv' /\ ListInv'
  <2>1. MutexInv'
    BY <1>5 DEF MutexInv, HoldersInv, MoreShared, onReceiveNodeIDs
  <2>2. HoldersInv'
    BY <1>5 DEF HoldersInv, MutexInv, onReceiveNodeIDs
  <2>3. ModeInv'
    BY <1>5 DEF ModeInv, HoldersInv, MutexInv, onReceiveNodeIDs
  <2>4. ListInv'
    BY <1>5 DEF ListInv, HoldersInv, MutexInv, ModeInv, onReceiveNodeIDs
  <2>5. QED
    BY <2>1, <2>2, <2>3, <2>4
<1>6. CASE NotifyEnds(t)
  <2>1. MutexInv'
    BY <1>6 DEF MutexInv, HoldersInv, MoreShared, NotifyEnds, unlock_upgrade, NoList
  <2>2. HoldersInv'
    BY <1>6 DEF HoldersInv, MutexInv, NotifyEnds, unlock_upgrade, NoList
  <2>3. ModeInv'
    BY <1>6 DEF ModeInv, HoldersInv, MutexInv, NotifyEnds, unlock_upgrade, NoList
  <2>4. ListInv'
    BY <1>6 DEF ListInv, HoldersInv, MutexInv, ModeInv, NotifyEnds, unlock_upgrade, NoList
  <2>5. QED
    BY <2>1, <2>2, <2>3, <2>4
<1>7. QED
  BY <1>1, <1>2, <1>3, <1>4, <1>5, <1>6 DEF NotifyStep

\* A step of an updater keeps the invariant.
LEMMA UpdateKeeps ==
    ASSUME Inv, NEW t \in Thread, UpdateStep(t)
    PROVE  MutexInv' /\ HoldersInv' /\ ModeInv' /\ ListInv'
<1> USE NoThreadAssumption DEF Inv, TypeOK, MutexTypeOK, Goto, mutexVars, Notifying
<1>1. CASE LockUpgradable(t)
  <2>1. MutexInv'
    BY <1>1 DEF MutexInv, HoldersInv, MoreShared, LockUpgradable, lock_upgrade
  <2>2. HoldersInv'
    BY <1>1 DEF HoldersInv, MutexInv, LockUpgradable, lock_upgrade
  <2>3. ModeInv'
    BY <1>1 DEF ModeInv, HoldersInv, MutexInv, LockUpgradable, lock_upgrade
  <2>4. ListInv'
    BY <1>1 DEF ListInv, HoldersInv, MutexInv, ModeInv, LockUpgradable, lock_upgrade
  <2>5. QED
    BY <2>1, <2>2, <2>3, <2>4
<1>2. CASE Upgrade(t)
  <2>1. MutexInv'
    BY <1>2 DEF MutexInv, HoldersInv, MoreShared, Upgrade, unlock_upgrade_and_lock
  <2>2. HoldersInv'
    BY <1>2 DEF HoldersInv, MutexInv, Upgrade, unlock_upgrade_and_lock
  <2>3. ModeInv'
    BY <1>2 DEF ModeInv, HoldersInv, MutexInv, Upgrade, unlock_upgrade_and_lock
  <2>4. ListInv'
    BY <1>2 DEF ListInv, HoldersInv, MutexInv, ModeInv, Upgrade, unlock_upgrade_and_lock
  <2>5. QED
    BY <2>1, <2>2, <2>3, <2>4
<1>3. CASE PassEnds(t)
  <2>1. MutexInv'
    BY <1>3 DEF MutexInv, HoldersInv, MoreShared, PassEnds, unlock_upgrade
  <2>2. HoldersInv'
    BY <1>3 DEF HoldersInv, MutexInv, PassEnds, unlock_upgrade
  <2>3. ModeInv'
    BY <1>3 DEF ModeInv, HoldersInv, MutexInv, PassEnds, unlock_upgrade
  <2>4. ListInv'
    BY <1>3 DEF ListInv, HoldersInv, MutexInv, ModeInv, PassEnds, unlock_upgrade
  <2>5. QED
    BY <2>1, <2>2, <2>3, <2>4
<1>4. ASSUME NEW f \in Front, Skip(t, f)
      PROVE  MutexInv' /\ HoldersInv' /\ ModeInv' /\ ListInv'
  <2>1. MutexInv'
    BY <1>4 DEF MutexInv, HoldersInv, MoreShared, Skip
  <2>2. HoldersInv'
    BY <1>4 DEF HoldersInv, MutexInv, Skip
  <2>3. ModeInv'
    BY <1>4 DEF ModeInv, HoldersInv, MutexInv, Skip
  <2>4. ListInv'
    BY <1>4 DEF ListInv, HoldersInv, MutexInv, ModeInv, Skip
  <2>5. QED
    BY <2>1, <2>2, <2>3, <2>4
<1>5. ASSUME NEW f \in Front, Change(t, f)
      PROVE  MutexInv' /\ HoldersInv' /\ ModeInv' /\ ListInv'
  <2>1. MutexInv'
    BY <1>5 DEF MutexInv, HoldersInv, MoreShared, Change, Unregister, Register,
       unlock_and_lock_upgrade
  <2>2. HoldersInv'
    BY <1>5 DEF HoldersInv, MutexInv, Change, Unregister, Register, unlock_and_lock_upgrade
  <2>3. ModeInv'
    BY <1>5 DEF ModeInv, HoldersInv, MutexInv, Change, Unregister, Register,
       unlock_and_lock_upgrade
  <2>4. ListInv'
    BY <1>5 DEF ListInv, HoldersInv, MutexInv, ModeInv, Change, Unregister, Register,
       unlock_and_lock_upgrade
  <2>5. QED
    BY <2>1, <2>2, <2>3, <2>4
<1>6. QED
  BY <1>1, <1>2, <1>3, <1>4, <1>5 DEF UpdateStep

\* A step of a registration in local mode keeps the invariant.
LEMMA WriteKeeps ==
    ASSUME Inv, NEW t \in Thread, WriteStep(t)
    PROVE  MutexInv' /\ HoldersInv' /\ ModeInv' /\ ListInv'
<1> USE NoThreadAssumption DEF Inv, TypeOK, MutexTypeOK, Goto, mutexVars, Notifying
<1>1. CASE Lock(t)
  <2>1. MutexInv'
    BY <1>1 DEF MutexInv, HoldersInv, MoreShared, Lock, lock
  <2>2. HoldersInv'
    BY <1>1 DEF HoldersInv, MutexInv, Lock, lock
  <2>3. ModeInv'
    BY <1>1 DEF ModeInv, HoldersInv, MutexInv, Lock, lock
  <2>4. ListInv'
    BY <1>1 DEF ListInv, HoldersInv, MutexInv, ModeInv, Lock, lock
  <2>5. QED
    BY <2>1, <2>2, <2>3, <2>4
<1>2. CASE LockWaits(t)
  <2>1. MutexInv'
    BY <1>2 DEF MutexInv, HoldersInv, MoreShared, LockWaits, lockWaits
  <2>2. HoldersInv'
    BY <1>2 DEF HoldersInv, MutexInv, LockWaits, lockWaits
  <2>3. ModeInv'
    BY <1>2 DEF ModeInv, HoldersInv, MutexInv, LockWaits, lockWaits
  <2>4. ListInv'
    BY <1>2 DEF ListInv, HoldersInv, MutexInv, ModeInv, LockWaits, lockWaits
  <2>5. QED
    BY <2>1, <2>2, <2>3, <2>4
<1>3. ASSUME NEW f \in Front, Write(t, f)
      PROVE  MutexInv' /\ HoldersInv' /\ ModeInv' /\ ListInv'
  <2>1. MutexInv'
    BY <1>3 DEF MutexInv, HoldersInv, MoreShared, Write, Unregister, Register, unlock
  <2>2. HoldersInv'
    BY <1>3 DEF HoldersInv, MutexInv, Write, Unregister, Register, unlock
  <2>3. ModeInv'
    BY <1>3 DEF ModeInv, HoldersInv, MutexInv, Write, Unregister, Register, unlock
  <2>4. ListInv'
    BY <1>3 DEF ListInv, HoldersInv, MutexInv, ModeInv, Write, Unregister, Register, unlock
  <2>5. QED
    BY <2>1, <2>2, <2>3, <2>4
<1>4. QED
  BY <1>1, <1>2, <1>3 DEF WriteStep

\* The start of an operation keeps the invariant.
LEMMA StartKeeps ==
    ASSUME Inv, NEW t \in Thread, ChangePeers(t) \/ StartUpdate(t) \/ StartWrite(t)
    PROVE  MutexInv' /\ HoldersInv' /\ ModeInv' /\ ListInv'
<1> USE NoThreadAssumption DEF Inv, TypeOK, MutexTypeOK, Goto, mutexVars, Notifying,
        ChangePeers, StartUpdate, StartWrite, Call
<1>1. MutexInv'
  BY DEF MutexInv, MoreShared
<1>2. HoldersInv'
  BY DEF HoldersInv
<1>3. ModeInv'
  BY DEF ModeInv
<1>4. ListInv'
  BY DEF ListInv
<1>5. QED
  BY <1>1, <1>2, <1>3, <1>4

\* The invariant holds in every reachable state.
LEMMA Invariance == Spec => []Inv
<1>1. Init => Inv
  <2> SUFFICES ASSUME Init PROVE MutexInv /\ HoldersInv /\ ModeInv /\ ListInv /\ TypeOK
    BY DEF Inv
  <2>1. TypeOK
    BY TypeInit
  <2>2. MutexInv /\ HoldersInv /\ ModeInv /\ ListInv
    BY NoThreadAssumption DEF Init, MutexInit, MutexInv, HoldersInv, ModeInv, ListInv, Notifying
  <2>3. QED
    BY <2>1, <2>2
<1>2. Inv /\ [Next]_vars => Inv'
  <2>1. ASSUME Inv, Next
        PROVE  Inv'
    <3>1. TypeOK'
      BY <2>1, NotifyType, UpdateType, OtherType DEF Next, Inv
    <3>2. MutexInv' /\ HoldersInv' /\ ModeInv' /\ ListInv'
      BY <2>1, NotifyKeeps, UpdateKeeps, WriteKeeps, StartKeeps DEF Next
    <3>3. QED
      BY <3>1, <3>2 DEF Inv
  <2>2. ASSUME Inv, UNCHANGED vars
        PROVE  Inv'
    BY <2>2 DEF vars, mutexVars, Inv, TypeOK, MutexTypeOK, MutexInv, MoreShared, HoldersInv,
                ModeInv, ListInv
  <2>3. QED
    BY <2>1, <2>2
<1>3. QED
  BY <1>1, <1>2, PTL DEF Spec

\* The list an updater hands out after its change of the registrations stays true to
\* them until the last front service has it: nobody else gets to change them.
THEOREM UpdaterListIsCurrentHolds == Spec => []UpdaterListIsCurrent
<1>1. Inv => UpdaterListIsCurrent
  BY DEF Inv, ListInv, UpdaterListIsCurrent
<1>2. QED
  BY <1>1, Invariance, PTL

\* In no state do all the threads inside an operation wait for the mutex.
LEMMA InvSomebodyRuns ==
    ASSUME Inv
    PROVE  SomebodyRuns
<1> USE NoThreadAssumption DEF Inv, TypeOK, MutexTypeOK
<1> SUFFICES ASSUME NEW t \in Thread, pc[t] # "idle"
             PROVE  \E u \in Thread : pc[u] # "idle" /\ ~Waits(u)
  BY DEF SomebodyRuns
\* The owner of the mutex never waits.
<1>1. CASE exclusive # NoThread
  <2>1. exclusive \in Thread /\ pc[exclusive] \in {"change", "write"}
    BY <1>1 DEF HoldersInv
  <2>2. ~Waits(exclusive)
    BY <2>1 DEF Waits
  <2>3. QED
    BY <2>1, <2>2
\* Nor does a reader.
<1>2. CASE readers # {}
  <2>1. PICK u \in readers : TRUE
    BY <1>2
  <2>2. u \in Thread /\ pc[u] \in {"copy", "local"}
    BY <2>1 DEF HoldersInv
  <2>3. ~Waits(u)
    BY <2>2 DEF Waits
  <2>4. QED
    BY <2>2, <2>3
\* Nor does the thread with the upgradable lock: no WriteGuard is waiting.
<1>3. CASE exclusive = NoThread /\ readers = {} /\ upgrader # NoThread
  <2>1. upgrader \in Thread /\ ~upgrading /\ pc[upgrader] \in Notifying \cup {"pass"}
    BY <1>3 DEF MutexInv, HoldersInv
  <2>2. ~blocked
    BY <1>3 DEF ModeInv
  <2>3. ~Waits(upgrader)
    BY <1>3, <2>1, <2>2 DEF Waits, Notifying
  <2>4. QED
    BY <2>1, <2>3 DEF Notifying
\* A mutex that nobody holds lets everybody go on.
<1>4. CASE exclusive = NoThread /\ readers = {} /\ upgrader = NoThread
  <2>1. ~blocked /\ ~MoreShared
    BY <1>4 DEF MutexInv, MoreShared
  <2>2. pc[t] # "change"
    BY <1>4 DEF HoldersInv
  <2>3. ~Waits(t)
    BY <1>4, <2>1, <2>2 DEF Waits
  <2>4. QED
    BY <2>3
<1>5. QED
  BY <1>1, <1>2, <1>3, <1>4

\* The threads that register, update and notify never all wait on each other for
\* x_frontServiceInfos, however many there are.
THEOREM SomebodyRunsHolds == Spec => []SomebodyRuns
BY Invariance, InvSomebodyRuns, PTL
=============================================================================
