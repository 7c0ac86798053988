------------------------------ MODULE KvStore ------------------------------
(***************************************************************************)
(* A KvStore shared by threads: the Storage behind the RwLock, and the     *)
(* ways to get at it - a raw call (KvStore, KvTable, KvTableIndex) takes   *)
(* the lock for one operation; a Transaction or RoTransaction is a guard   *)
(* that lives from begin to drop.  A thread is in at most one of them.     *)
(*                                                                         *)
(* Reads change nothing and are not actions: what a holder of a guard can  *)
(* read are the read operators of Storage, in every state in which it      *)
(* holds the guard.                                                        *)
(***************************************************************************)
EXTENDS Storage, RwLock, Naturals

CONSTANT MaxCalls       \* bound: calls and transactions per thread

ASSUME MaxCallsAssumption == MaxCalls \in Nat

\* The whole contents of a store: never mistaken for None.
Stored == [table : Table, singletons : [Singleton -> SinEntry]]

ASSUME StoredAssumption == None \notin Stored

VARIABLES
    session,        \* what a thread is doing, and as which owner
    calls,          \* how many calls and transactions a thread has begun
    committed       \* history: the storage when the last write guard was
                    \* taken, until that guard is dropped without a panic

vars == <<storageVars, lockVars, session, calls, committed>>

RawCalls == {"read", "write"}
Transactions == {"ro", "txn"}
Call == RawCalls \cup Transactions
WriteLocked == {"write", "txn"}

NoSession == [phase |-> "idle", call |-> None, owner |-> None]
Session == [phase : {"waiting", "holding", "returning"},
            call : Call, owner : Owner]

Contents == [table |-> table, singletons |-> singletons]

TypeOK ==
    /\ StorageTypeOK
    /\ LockTypeOK
    /\ session \in [Thread -> Session \cup {NoSession}]
    /\ calls \in [Thread -> 0..MaxCalls]
    /\ committed \in Option(Stored)

Init ==
    /\ StorageInit
    /\ LockInit
    /\ session = [t \in Thread |-> NoSession]
    /\ calls = [t \in Thread |-> 0]
    /\ committed = None

----------------------------------------------------------------------------
Is(t, phase, call) == session[t].phase = phase /\ session[t].call = call

Enter(t, phase, call, o) ==
    session' = [session EXCEPT ![t] = [phase |-> phase, call |-> call, owner |-> o]]

Leave(t) == session' = [session EXCEPT ![t] = NoSession]

Counted(t) ==
    /\ session[t].phase = "idle"
    /\ calls[t] < MaxCalls
    /\ calls' = [calls EXCEPT ![t] = @ + 1]

Available(call) == IF call \in WriteLocked THEN CanWrite ELSE CanRead

\* A mistake, for mutation checks: the read guard is a temporary, gone at once.
TakeGuardSlip(t, call) ==
    IF call \in WriteLocked
    THEN GetWrite(t) /\ committed' = Contents
    ELSE CanRead /\ UNCHANGED <<lockVars, committed>>

\* Both kinds of guard; a write guard comes with the current contents.
TakeGuard(t, call) ==
    IF call \in WriteLocked
    THEN GetWrite(t) /\ committed' = Contents
    ELSE GetRead(t) /\ UNCHANGED committed

----------------------------------------------------------------------------
(* Getting the lock.                                                       *)

\* A raw call, begin_transaction or begin_ro_transaction blocks on the lock.
Begin(t) ==
    /\ Counted(t)
    /\ \E call \in Call, o \in Owner :
          /\ Enter(t, "waiting", call, o)
          /\ IF call \in WriteLocked THEN Enqueue(t) ELSE UNCHANGED lockVars
    /\ UNCHANGED <<storageVars, committed>>

\* A mistake, for mutation checks: the poisoned lock is taken all the same.
AcquireSlip(t) ==
    /\ session[t].phase = "waiting"
    /\ TakeGuard(t, session[t].call)
    /\ session' = [session EXCEPT ![t].phase = "holding"]
    /\ UNCHANGED <<storageVars, calls>>

\* A mistake, for mutation checks: try_read or try_write in place of read or
\* write, with nothing done when the lock is taken.
AcquireTrySlip(t) ==
    /\ session[t].phase = "waiting"
    /\ ~poisoned
    /\ \/ /\ TakeGuard(t, session[t].call)
          /\ session' = [session EXCEPT ![t].phase = "holding"]
       \/ /\ ~Available(session[t].call)
          /\ Dequeue(t)
          /\ Leave(t)
          /\ UNCHANGED committed
    /\ UNCHANGED <<storageVars, calls>>

Acquire(t) ==
    /\ session[t].phase = "waiting"
    /\ ~poisoned
    /\ TakeGuard(t, session[t].call)
    /\ session' = [session EXCEPT ![t].phase = "holding"]
    /\ UNCHANGED <<storageVars, calls>>

\* A mistake, for mutation checks: the caller tries again until the lock is
\* in order.
UnwrapPanicsSlip(t) ==
    /\ session[t].phase = "waiting"
    /\ poisoned
    /\ Available(session[t].call)
    /\ UNCHANGED vars

\* A poisoned lock is acquired too, but then unwrap panics and the guard goes.
UnwrapPanics(t) ==
    /\ session[t].phase = "waiting"
    /\ poisoned
    /\ Available(session[t].call)
    /\ Dequeue(t)
    /\ Leave(t)
    /\ UNCHANGED <<storageVars, calls, committed>>

TryBegin(t) ==
    /\ Counted(t)
    /\ ~poisoned
    /\ \E call \in Transactions, o \in Owner :
          /\ TakeGuard(t, call)
          /\ Enter(t, "holding", call, o)
    /\ UNCHANGED storageVars

\* WouldBlock gives None; a poisoned lock that is free gives a panic.
TryBeginFails(t) ==
    /\ Counted(t)
    /\ \E call \in Transactions : ~Available(call) \/ poisoned
    /\ UNCHANGED <<storageVars, lockVars, session, committed>>

----------------------------------------------------------------------------
(* Under the lock.                                                         *)

RawWrite(t) ==
    /\ Is(t, "holding", "write")
    /\ Completes(session[t].owner)
    /\ session' = [session EXCEPT ![t].phase = "returning"]
    /\ UNCHANGED <<lockVars, calls, committed>>

\* In a transaction, tables, index tables, indexed views and singletons are
\* all used in the name of the transaction's owner.
TransactionalTableCall(t) ==
    TableCall(session[t].owner) \/ IndexTableCall(session[t].owner)
TransactionalIndexCall(t) == IndexedCall(session[t].owner)
TransactionalSingletonCall(t) == SingletonCall(session[t].owner)

TransactionCall(t) ==
    /\ Is(t, "holding", "txn")
    /\ \/ TransactionalTableCall(t)
       \/ TransactionalIndexCall(t)
       \/ TransactionalSingletonCall(t)
    /\ UNCHANGED <<lockVars, session, calls, committed>>

\* A panic caught while the Transaction is still alive.
TransactionCatches(t) ==
    /\ CatchUnwind
    /\ Is(t, "holding", "txn")
    /\ Panics(session[t].owner)
    /\ UNCHANGED <<lockVars, session, calls, committed>>

\* An operation panics, or in a transaction the code between operations.
Unwind(t) ==
    /\ \/ Is(t, "holding", "write") /\ Panics(session[t].owner)
       \/ Is(t, "holding", "txn") /\ Panics(session[t].owner)
       \/ Is(t, "holding", "txn") /\ UNCHANGED storageVars
    /\ DropWrite(t, TRUE)
    /\ Leave(t)
    /\ UNCHANGED <<calls, committed>>

\* A mistake, for mutation checks: a read guard is forgotten, not dropped.
DropGuardSlip(t) ==
    \/ /\ Is(t, "returning", "write") \/ Is(t, "holding", "txn")
       /\ DropWrite(t, FALSE)
       /\ Leave(t)
       /\ committed' = None
       /\ UNCHANGED <<storageVars, calls>>
    \/ /\ Is(t, "holding", "read") \/ Is(t, "holding", "ro")
       /\ Leave(t)
       /\ UNCHANGED <<storageVars, lockVars, calls, committed>>

\* The end of a raw call's function, or commit or drop of a transaction.
DropGuard(t) ==
    \/ /\ Is(t, "returning", "write") \/ Is(t, "holding", "txn")
       /\ DropWrite(t, FALSE)
       /\ Leave(t)
       /\ committed' = None
       /\ UNCHANGED <<storageVars, calls>>
    \/ /\ Is(t, "holding", "read") \/ Is(t, "holding", "ro")
       /\ DropRead(t)
       /\ Leave(t)
       /\ UNCHANGED <<storageVars, calls, committed>>

\* No thread has anything left to do.
Finished ==
    /\ \A t \in Thread : session[t].phase = "idle" /\ calls[t] = MaxCalls
    /\ UNCHANGED vars

Step(t) ==
    \/ Begin(t)
    \/ Acquire(t)
    \/ UnwrapPanics(t)
    \/ TryBegin(t)
    \/ TryBeginFails(t)
    \/ RawWrite(t)
    \/ TransactionCall(t)
    \/ TransactionCatches(t)
    \/ Unwind(t)
    \/ DropGuard(t)

Next == (\E t \in Thread : Step(t)) \/ Finished

Spec == Init /\ [][Next]_vars

----------------------------------------------------------------------------
(* Properties.                                                             *)

\* Raw calls and transactions are atomic and serializable (lib.rs), and what
\* a panic interrupts is never seen again: the store implements AtomicStore.
NoTxn == [writes |-> FALSE, base |-> None, view |-> None]

OpenTxn(t) ==
    IF t \in writers
    THEN [writes |-> TRUE, base |-> committed, view |-> Contents]
    ELSE IF t \in readers
    THEN [writes |-> FALSE, base |-> Contents, view |-> Contents]
    ELSE NoTxn

AbstractDb == IF committed = None THEN Contents ELSE committed
AbstractTxn == [t \in Thread |-> OpenTxn(t)]

Atomic == INSTANCE AtomicStore WITH
    db <- AbstractDb,
    txn <- AbstractTxn,
    down <- poisoned

ImplementsAtomicStore == Atomic!Spec

\* What a thread reads in one call or read-only transaction does not change
\* under it, whatever other threads do: raw iterators, whose references into
\* the storage outlive the borrow checker's view of the guard, and RoTransaction
\* see one state of the store.
Reading(t) == Is(t, "holding", "read") \/ Is(t, "holding", "ro")

SnapshotIsStable ==
    [][\A t \in Thread : Reading(t) /\ Reading(t)' => UNCHANGED storageVars]_vars

\* Whoever is let in finds every index in agreement with the table,
\* although operations update the two one after the other and can panic in
\* between.
HoldersSeeExactIndexes ==
    (\E t \in Thread : session[t].phase = "holding")
        => IndexSound /\ IndexComplete

\* "Every KV pair has a single owner and can only be mutated by that owner":
\* rows and owned singletons change only under a write guard taken for their
\* owner.
OnlyOwnersMutate ==
    [][/\ table'.data # table.data =>
              \E t \in writers : session[t].owner = table'.owner
       /\ \A s \in Singleton :
              singletons'[s] # singletons[s] /\ singletons[s].owner # None =>
                  \E t \in writers : session[t].owner = singletons[s].owner
      ]_vars

\* Whoever waits for the lock waits for a thread that holds a guard, or some
\* waiting thread could have the lock now: panics, poisoning, and calls that
\* give up leave no guard behind and no writer in the queue.
LockIsNeverLost ==
    (\E t \in Thread : session[t].phase = "waiting") =>
        \E t \in Thread :
            \/ session[t].phase \in {"holding", "returning"}
            \/ session[t].phase = "waiting" /\ Available(session[t].call)
=============================================================================
