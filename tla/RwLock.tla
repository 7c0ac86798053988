------------------------------- MODULE RwLock -------------------------------
(***************************************************************************)
(* std::sync::RwLock, the lock around the Storage of a KvStore: external,  *)
(* modelled from what the crate relies on.  A thread that wants to write   *)
(* queues up; whether a queued writer keeps new readers out is a policy of *)
(* the platform.  A write guard that is dropped by a panic poisons the     *)
(* lock, a read guard does not.                                            *)
(***************************************************************************)
CONSTANTS
    Thread,
    WritersFirst    \* TRUE where a queued writer keeps new readers out

VARIABLES
    writers,        \* threads that hold a RwLockWriteGuard, at most one
    readers,        \* threads that hold a RwLockReadGuard
    queued,         \* threads blocked in write()
    poisoned

lockVars == <<writers, readers, queued, poisoned>>

LockTypeOK ==
    /\ writers \in SUBSET Thread
    /\ readers \in SUBSET Thread
    /\ queued \in SUBSET Thread
    /\ poisoned \in BOOLEAN

LockInit ==
    /\ writers = {}
    /\ readers = {}
    /\ queued = {}
    /\ poisoned = FALSE

CanWrite == writers = {} /\ readers = {}
CanRead == writers = {} /\ (WritersFirst => queued = {})

Enqueue(t) ==
    /\ queued' = queued \cup {t}
    /\ UNCHANGED <<writers, readers, poisoned>>

Dequeue(t) ==
    /\ queued' = queued \ {t}
    /\ UNCHANGED <<writers, readers, poisoned>>

GetWrite(t) ==
    /\ CanWrite
    /\ writers' = writers \cup {t}
    /\ queued' = queued \ {t}
    /\ UNCHANGED <<readers, poisoned>>

GetRead(t) ==
    /\ CanRead
    /\ readers' = readers \cup {t}
    /\ UNCHANGED <<writers, queued, poisoned>>

DropWrite(t, panicking) ==
    /\ writers' = writers \ {t}
    /\ poisoned' = (poisoned \/ panicking)
    /\ UNCHANGED <<readers, queued>>

DropRead(t) ==
    /\ readers' = readers \ {t}
    /\ UNCHANGED <<writers, queued, poisoned>>
=============================================================================
