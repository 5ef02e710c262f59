----------------------------- MODULE SharedMutex -----------------------------
(***************************************************************************)
(* The mutex behind ReadGuard, UpgradableGuard, UpgradeGuard and WriteGuard*)
(* (boost::shared_mutex, external).  Many threads may share it; one of the *)
(* sharers may hold it as an upgradable lock and turn that into exclusive  *)
(* ownership once the other sharers have left.  A thread that waits for    *)
(* exclusive ownership keeps new sharers out (exclusive_waiting_blocked),  *)
(* a thread that waits for its upgrade does not.                           *)
(***************************************************************************)
CONSTANTS
    Thread,
    NoThread    \* nobody

ASSUME NoThreadAssumption == NoThread \notin Thread

VARIABLES
    readers,    \* threads inside a ReadGuard
    upgrader,   \* the thread with the upgradable lock
    upgrading,  \* it has given up its share and waits for the readers to leave
    exclusive,  \* the thread inside a WriteGuard or an UpgradeGuard
    blocked     \* exclusive_waiting_blocked

mutexVars == <<readers, upgrader, upgrading, exclusive, blocked>>

MutexTypeOK ==
    /\ readers \subseteq Thread
    /\ upgrader \in Thread \cup {NoThread}
    /\ upgrading \in BOOLEAN
    /\ exclusive \in Thread \cup {NoThread}
    /\ blocked \in BOOLEAN

MutexInit ==
    /\ readers = {}
    /\ upgrader = NoThread /\ upgrading = FALSE
    /\ exclusive = NoThread
    /\ blocked = FALSE

\* shared_count > 0
MoreShared == readers # {} \/ (upgrader # NoThread /\ ~upgrading)

lock_shared(t) ==
    /\ exclusive = NoThread /\ ~blocked
    /\ readers' = readers \cup {t}
    /\ UNCHANGED <<upgrader, upgrading, exclusive, blocked>>

\* The last sharer hands the mutex to a thread that waits for its upgrade.
unlock_shared(t) ==
    /\ readers' = readers \ {t}
    /\ IF readers = {t} /\ upgrading
       THEN /\ exclusive' = upgrader
            /\ upgrader' = NoThread /\ upgrading' = FALSE
            /\ UNCHANGED blocked
       ELSE /\ UNCHANGED <<upgrader, upgrading, exclusive>>
            /\ blocked' = (blocked /\ MoreShared')

lock_upgrade(t) ==
    /\ exclusive = NoThread /\ ~blocked /\ upgrader = NoThread
    /\ upgrader' = t
    /\ UNCHANGED <<readers, upgrading, exclusive, blocked>>

unlock_upgrade(t) ==
    /\ upgrader' = NoThread
    /\ blocked' = (blocked /\ readers # {})
    /\ UNCHANGED <<readers, upgrading, exclusive>>

unlock_upgrade_and_lock(t) ==
    /\ upgrader = t
    /\ IF readers = {}
       THEN /\ exclusive' = t
            /\ upgrader' = NoThread
            /\ UNCHANGED upgrading
       ELSE /\ upgrading' = TRUE
            /\ UNCHANGED <<exclusive, upgrader>>
    /\ UNCHANGED <<readers, blocked>>

unlock_and_lock_upgrade(t) ==
    /\ exclusive' = NoThread
    /\ upgrader' = t
    /\ blocked' = FALSE
    /\ UNCHANGED <<readers, upgrading>>

lock(t) ==
    /\ exclusive = NoThread /\ ~MoreShared
    /\ exclusive' = t
    /\ UNCHANGED <<readers, upgrader, upgrading, blocked>>

\* lock has to wait; whenever the thread is woken in vain it does this again.
lockWaits ==
    /\ exclusive # NoThread \/ MoreShared
    /\ ~blocked
    /\ blocked' = TRUE
    /\ UNCHANGED <<readers, upgrader, upgrading, exclusive>>

unlock(t) ==
    /\ exclusive' = NoThread
    /\ blocked' = FALSE
    /\ UNCHANGED <<readers, upgrader, upgrading>>
=============================================================================
