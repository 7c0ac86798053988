---------------------------- MODULE KvStoreProofs ----------------------------
(* Theorems about KvStore for any number of threads and calls: guards       *)
(* exclude each other, a reader's view is stable, nobody who holds a guard  *)
(* sees an index that disagrees with its table, only owners change data,    *)
(* and calls and transactions are atomic.                                   *)
EXTENDS KvStore, FieldProofs

WriteSession(t) ==
    \/ Is(t, "holding", "write") \/ Is(t, "holding", "txn")
    \/ Is(t, "returning", "write")

\* Sessions and guards agree, guards exclude each other, and nobody holds a
\* guard on a poisoned lock.
Guards ==
    /\ \A t \in Thread : t \in writers <=> WriteSession(t)
    /\ \A t \in Thread : t \in readers <=> Reading(t)
    /\ \A t, u \in Thread : t \in writers /\ u \in writers => t = u
    /\ writers # {} => readers = {}
    /\ poisoned => writers = {} /\ readers = {}

\* The contents are well typed, and what is left to type is the sessions.
LEMMA StorageUnchanged ==
    ASSUME StorageTypeOK, UNCHANGED storageVars
    PROVE  StorageTypeOK'
BY DEF StorageTypeOK, storageVars

LEMMA StepStorage ==
    ASSUME NEW t \in Thread, Step(t)
    PROVE  \/ UNCHANGED storageVars
           \/ /\ Is(t, "holding", "write") \/ Is(t, "holding", "txn")
              /\ \/ Completes(session[t].owner) /\ UNCHANGED lockVars
                 \/ /\ CatchUnwind
                    /\ Panics(session[t].owner)
                    /\ UNCHANGED lockVars
                 \/ Panics(session[t].owner) /\ DropWrite(t, TRUE)
BY DEF Step, Begin, Acquire, UnwrapPanics, TryBegin, TryBeginFails, RawWrite,
       TransactionCall, TransactionalTableCall, TransactionalIndexCall,
       TransactionalSingletonCall, Completes, TransactionCatches, Unwind, DropGuard

LEMMA SessionTyped ==
    ASSUME TypeOK, NEW t \in Thread, session[t].phase # "idle"
    PROVE  session[t] \in Session
BY DEF TypeOK, NoSession

LEMMA ContentsType ==
    ASSUME StorageTypeOK
    PROVE  Contents \in Stored
BY DEF Contents, Stored, StorageTypeOK

LEMMA InitTypeOK == Init => TypeOK
<1> SUFFICES ASSUME Init PROVE TypeOK
    OBVIOUS
<1>1. StorageTypeOK
    BY InitType DEF Init
<1>2. LockTypeOK
    BY DEF Init, LockInit, LockTypeOK
<1> QED BY <1>1, <1>2, MaxCallsAssumption DEF Init, TypeOK, Option

LEMMA StepTypeOK ==
    ASSUME TypeOK, NEW t \in Thread, Step(t)
    PROVE  TypeOK'
<1>1. StorageTypeOK'
    <2>1. CASE UNCHANGED storageVars
        BY <2>1, StorageUnchanged DEF TypeOK
    <2>2. CASE /\ Is(t, "holding", "write") \/ Is(t, "holding", "txn")
               /\ Completes(session[t].owner) \/ Panics(session[t].owner)
        <3>1. session[t].owner \in Owner
            BY <2>2, SessionTyped DEF Is, Session
        <3> QED BY <2>2, <3>1, CompletesType, PanicsType DEF TypeOK
    <2> QED BY <2>1, <2>2, StepStorage
<1>2. LockTypeOK'
    <2>1. UNCHANGED lockVars => LockTypeOK'
        BY DEF lockVars, LockTypeOK, TypeOK
    <2>2. Enqueue(t) \/ Dequeue(t) \/ GetWrite(t) \/ GetRead(t)
             \/ DropRead(t) \/ (\E p \in BOOLEAN : DropWrite(t, p)) => LockTypeOK'
        BY DEF Enqueue, Dequeue, GetWrite, GetRead, DropRead, DropWrite,
               LockTypeOK, TypeOK
    <2> QED BY <2>1, <2>2
            DEF Step, Begin, Acquire, UnwrapPanics, TryBegin, TryBeginFails,
                RawWrite, TransactionCall, TransactionCatches, Unwind,
                DropGuard, TakeGuard
<1>3. session' \in [Thread -> Session \cup {NoSession}]
    <2> USE DEF TypeOK
    <2>1. ASSUME NEW ph \in {"waiting", "holding"}, NEW c \in Call,
                 NEW o \in Owner, Enter(t, ph, c, o)
          PROVE  session' \in [Thread -> Session \cup {NoSession}]
        BY <2>1 DEF Enter, Session
    <2>2. CASE Begin(t) \/ TryBegin(t)
        BY <2>1, <2>2 DEF Begin, TryBegin, Transactions, Call
    <2>3. CASE Acquire(t) \/ RawWrite(t)
        <3>1. session[t] \in Session
            BY <2>3, SessionTyped DEF Acquire, RawWrite, Is
        <3> QED BY <2>3, <3>1 DEF Acquire, RawWrite, Session
    <2>4. CASE Leave(t)
        BY <2>4 DEF Leave
    <2>5. CASE UNCHANGED session
        BY <2>5
    <2> QED BY <2>2, <2>3, <2>4, <2>5
            DEF Step, UnwrapPanics, TryBeginFails, TransactionCall,
                TransactionCatches, Unwind, DropGuard
<1>4. calls' \in [Thread -> 0..MaxCalls]
    <2>1. CASE Counted(t)
        BY <2>1, MaxCallsAssumption DEF Counted, TypeOK
    <2>2. CASE UNCHANGED calls
        BY <2>2 DEF TypeOK
    <2> QED BY <2>1, <2>2
            DEF Step, Begin, Acquire, UnwrapPanics, TryBegin, TryBeginFails,
                RawWrite, TransactionCall, TransactionCatches, Unwind, DropGuard
<1>5. committed' \in Option(Stored)
    <2>1. committed' \in {committed, None, Contents}
        BY DEF Step, Begin, Acquire, UnwrapPanics, TryBegin, TryBeginFails,
               RawWrite, TransactionCall, TransactionCatches, Unwind,
               DropGuard, TakeGuard
    <2> QED BY <2>1, ContentsType DEF TypeOK, Option
<1> QED BY <1>1, <1>2, <1>3, <1>4, <1>5 DEF TypeOK

\* Storage, lock, sessions and history keep their types for any number of
\* threads.
THEOREM KvTypeCorrect == Spec => []TypeOK
<1>1. TypeOK /\ [Next]_vars => TypeOK'
    <2> SUFFICES ASSUME TypeOK, [Next]_vars PROVE TypeOK'
        OBVIOUS
    <2>1. CASE UNCHANGED vars
        BY <2>1 DEF vars, storageVars, lockVars, TypeOK, StorageTypeOK, LockTypeOK
    <2>2. CASE Finished
        BY <2>1, <2>2 DEF Finished
    <2> QED BY <2>1, <2>2, StepTypeOK DEF Next
<1> QED BY <1>1, InitTypeOK, PTL DEF Spec

----------------------------------------------------------------------------
(* Guards.                                                                  *)

LEMMA GetGuards ==
    ASSUME TypeOK, Guards, ~poisoned, NEW t \in Thread, NEW call \in Call,
           TakeGuard(t, call), ~WriteSession(t), ~Reading(t),
           session'[t].phase = "holding", session'[t].call = call,
           \A u \in Thread \ {t} : session'[u] = session[u]
    PROVE  Guards'
<1>1. CASE call \in WriteLocked
    BY <1>1 DEF Guards, TakeGuard, GetWrite, CanWrite, WriteSession, Reading,
                Is, WriteLocked
<1>2. CASE call \notin WriteLocked
    <2>1. call \in {"read", "ro"}
        BY <1>2 DEF Call, RawCalls, Transactions, WriteLocked
    <2> QED BY <1>2, <2>1 DEF Guards, TakeGuard, GetRead, CanRead, WriteSession,
                              Reading, Is
<1> QED BY <1>1, <1>2

\* t gives up what it holds, if anything.
LEMMA LeaveGuards ==
    ASSUME TypeOK, Guards, NEW t \in Thread, Leave(t),
           writers' = writers \ {t}, readers' = readers \ {t},
           poisoned' => poisoned \/ t \in writers
    PROVE  Guards'
<1>1. /\ ~WriteSession(t)' /\ ~Reading(t)'
      /\ \A u \in Thread \ {t} : session'[u] = session[u]
    BY DEF Leave, NoSession, WriteSession, Reading, Is, TypeOK
<1> QED BY <1>1 DEF Guards, WriteSession, Reading, Is, TypeOK, LockTypeOK

LEMMA StepGuards ==
    ASSUME TypeOK, Guards, NEW t \in Thread, Step(t)
    PROVE  Guards'
<1>1. CASE Begin(t)
    <2>1. /\ session[t].phase = "idle" /\ session'[t].phase = "waiting"
          /\ \A u \in Thread \ {t} : session'[u] = session[u]
        BY <1>1 DEF Begin, Counted, Enter, TypeOK
    <2>2. UNCHANGED <<writers, readers, poisoned>>
        BY <1>1 DEF Begin, Enqueue, lockVars
    <2> QED BY <2>1, <2>2 DEF Guards, WriteSession, Reading, Is
<1>2. CASE Acquire(t)
    <2>1. session[t] \in Session
        BY <1>2, SessionTyped DEF Acquire
    <2>2. /\ session'[t] = [session[t] EXCEPT !.phase = "holding"]
          /\ \A u \in Thread \ {t} : session'[u] = session[u]
        BY <1>2 DEF Acquire, TypeOK
    <2>3. /\ session'[t].phase = "holding" /\ session'[t].call = session[t].call
          /\ session[t].call \in Call
        BY <2>1, <2>2 DEF Session
    <2>4. ~WriteSession(t) /\ ~Reading(t)
        BY <1>2 DEF Acquire, WriteSession, Reading, Is
    <2> QED BY <1>2, <2>2, <2>3, <2>4, GetGuards DEF Acquire
<1>3. CASE TryBegin(t)
    <2>1. PICK call \in Transactions, o \in Owner :
            TakeGuard(t, call) /\ Enter(t, "holding", call, o)
        BY <1>3 DEF TryBegin
    <2>2. /\ session'[t] = [phase |-> "holding", call |-> call, owner |-> o]
          /\ \A u \in Thread \ {t} : session'[u] = session[u]
        BY <2>1 DEF Enter, TypeOK
    <2>3. ~WriteSession(t) /\ ~Reading(t)
        BY <1>3 DEF TryBegin, Counted, WriteSession, Reading, Is
    <2>4. call \in Call
        BY DEF Call
    <2> QED BY <1>3, <2>1, <2>2, <2>3, <2>4, GetGuards DEF TryBegin
<1>4. CASE UnwrapPanics(t)
    <2>1. ~WriteSession(t) /\ ~Reading(t)
        BY <1>4 DEF UnwrapPanics, WriteSession, Reading, Is
    <2>2. writers' = writers \ {t} /\ readers' = readers \ {t}
        BY <1>4, <2>1 DEF UnwrapPanics, Dequeue, Guards
    <2> QED BY <1>4, <2>2, LeaveGuards DEF UnwrapPanics, Dequeue
<1>5. CASE TryBeginFails(t) \/ TransactionCall(t) \/ TransactionCatches(t)
    BY <1>5 DEF TryBeginFails, TransactionCall, TransactionCatches, Guards,
                WriteSession, Reading, Is, lockVars
<1>6. CASE RawWrite(t)
    <2>1. session[t] \in Session
        BY <1>6, SessionTyped DEF RawWrite, Is
    <2>2. /\ session'[t].phase = "returning" /\ session'[t].call = "write"
          /\ \A u \in Thread \ {t} : session'[u] = session[u]
        BY <1>6, <2>1 DEF RawWrite, Is, TypeOK, Session
    <2> QED BY <1>6, <2>2
            DEF RawWrite, Guards, WriteSession, Reading, Is, lockVars
<1>7. CASE Unwind(t)
    <2>1. t \in writers
        BY <1>7 DEF Unwind, Guards, WriteSession
    <2> QED BY <1>7, <2>1, LeaveGuards DEF Unwind, DropWrite, Guards
<1>8. CASE DropGuard(t)
    <2>1. CASE WriteSession(t) /\ DropWrite(t, FALSE) /\ Leave(t)
        BY <2>1, LeaveGuards DEF DropWrite, Guards
    <2>2. CASE Reading(t) /\ DropRead(t) /\ Leave(t)
        <3>1. t \notin writers
            BY <2>2 DEF Guards, WriteSession, Reading, Is
        <3> QED BY <2>2, <3>1, LeaveGuards DEF DropRead
    <2> QED BY <1>8, <2>1, <2>2 DEF DropGuard, WriteSession, Reading
<1> QED BY <1>1, <1>2, <1>3, <1>4, <1>5, <1>6, <1>7, <1>8 DEF Step

\* The lock is an RwLock: at most one writer, never together with readers,
\* nobody on a poisoned lock, and whoever writes does so in a session.
THEOREM GuardsExclude == Spec => [](TypeOK /\ Guards)
<1>1. Init => Guards
    BY DEF Init, LockInit, Guards, WriteSession, Reading, Is, NoSession
<1>2. TypeOK /\ Guards /\ [Next]_vars => Guards'
    <2>1. UNCHANGED vars /\ Guards => Guards'
        BY DEF vars, lockVars, Guards, WriteSession, Reading, Is
    <2> QED BY <2>1, StepGuards DEF Next, Finished
<1> QED BY <1>1, <1>2, KvTypeCorrect, PTL DEF Spec

\* Only a thread with the write guard changes the storage.
LEMMA OnlyWritersWrite ==
    ASSUME Guards, [Next]_vars, ~UNCHANGED storageVars
    PROVE  \E t \in writers \cap Thread :
                /\ Step(t)
                /\ \/ Completes(session[t].owner) /\ UNCHANGED lockVars
                   \/ /\ CatchUnwind
                      /\ Panics(session[t].owner)
                      /\ UNCHANGED lockVars
                   \/ Panics(session[t].owner) /\ DropWrite(t, TRUE)
<1>1. PICK t \in Thread : Step(t)
    BY DEF Next, Finished, vars
<1>2. t \in writers
    BY <1>1, StepStorage DEF Guards, WriteSession
<1> QED BY <1>1, <1>2, StepStorage

\* What a read guard sees does not change under it (KvStore!SnapshotIsStable).
THEOREM ReadersKeepTheirSnapshot == Spec => SnapshotIsStable
<1>1. Guards /\ [Next]_vars
        => [\A t \in Thread : Reading(t) /\ Reading(t)'
                => UNCHANGED storageVars]_vars
    BY OnlyWritersWrite DEF Guards
<1> QED BY <1>1, GuardsExclude, PTL DEF Spec, SnapshotIsStable

----------------------------------------------------------------------------
(* Indexes.                                                                 *)

LEMMA PoisonStays ==
    ASSUME [Next]_vars, poisoned
    PROVE  poisoned'
BY DEF Next, Step, Begin, Acquire, UnwrapPanics, TryBegin, TryBeginFails,
       RawWrite, TransactionCall, TransactionCatches, Unwind, DropGuard,
       TakeGuard, Enqueue, Dequeue, GetWrite, GetRead, DropWrite, DropRead,
       Finished, vars, lockVars

\* A panic under the write guard is the end of the store: from then on nobody
\* has a guard, and its contents stay what they were.
THEOREM PoisonIsFinal ==
    Spec => [][poisoned => /\ poisoned'
                           /\ writers' = {} /\ readers' = {}
                           /\ UNCHANGED storageVars]_vars
<1>1. Guards /\ Guards' /\ [Next]_vars
        => [poisoned => /\ poisoned'
                        /\ writers' = {} /\ readers' = {}
                        /\ UNCHANGED storageVars]_vars
    BY PoisonStays, OnlyWritersWrite DEF Guards
<1> QED BY <1>1, GuardsExclude, PTL DEF Spec

\* What a panic leaves behind in the indexes stays behind a poisoned lock.
LEMMA StepIndexes ==
    ASSUME Undisturbed, TypeOK, Guards, [Next]_vars
    PROVE  /\ poisoned \/ IndexSound => (poisoned \/ IndexSound)'
           /\ UniqueFields /\ (poisoned \/ ExactInv) => (poisoned \/ ExactInv)'
<1>1. CASE UNCHANGED storageVars
    BY <1>1, PoisonStays DEF storageVars, ExactInv, IndexSound
<1>2. CASE ~UNCHANGED storageVars
    <2>1. PICK t \in writers \cap Thread :
            \/ Completes(session[t].owner)
            \/ DropWrite(t, TRUE)
        BY <1>2, OnlyWritersWrite DEF Undisturbed
    <2>2. session[t].owner \in Owner
        BY SessionTyped DEF Guards, WriteSession, Is, Session
    <2>3. ~poisoned
        BY DEF Guards
    <2> QED BY <2>1, <2>2, <2>3, CompletesExact, CompletesSound
            DEF DropWrite, TypeOK, Undisturbed
<1> QED BY <1>1, <1>2

LEMMA SoundUnlessPoisoned ==
    ASSUME Undisturbed
    PROVE  Spec => [](poisoned \/ IndexSound)
<1>1. Init => IndexSound
    BY InitExact DEF Init, ExactInv, Exact, IndexSound
<1>2. TypeOK /\ Guards /\ (poisoned \/ IndexSound) /\ [Next]_vars
        => (poisoned \/ IndexSound)'
    BY StepIndexes
<1> QED BY <1>1, <1>2, GuardsExclude, PTL DEF Spec

LEMMA ExactUnlessPoisoned ==
    ASSUME Undisturbed, UniqueFields
    PROVE  Spec => [](poisoned \/ ExactInv)
<1>1. Init => ExactInv
    BY InitExact DEF Init
<1>2. TypeOK /\ Guards /\ (poisoned \/ ExactInv) /\ [Next]_vars
        => (poisoned \/ ExactInv)'
    BY StepIndexes
<1> QED BY <1>1, <1>2, GuardsExclude, PTL DEF Spec

\* Who is under a guard is not in a poisoned store.
LEMMA HoldersAreNotPoisoned ==
    ASSUME TypeOK, Guards, NEW t \in Thread, session[t].phase = "holding"
    PROVE  ~poisoned
<1>1. session[t].call \in Call
    BY SessionTyped DEF Session
<1>2. t \in writers \cup readers
    BY <1>1 DEF Guards, WriteSession, Reading, Is, Call, RawCalls, Transactions
<1> QED BY <1>2 DEF Guards

\* Even when rows share indexed fields, whoever holds a guard finds no index
\* entry that dangles or is stale.
THEOREM HoldersFindSoundIndexes ==
    Undisturbed =>
        (Spec => []((\E t \in Thread : session[t].phase = "holding") => IndexSound))
<1> SUFFICES ASSUME Undisturbed
             PROVE  Spec => []((\E t \in Thread : session[t].phase = "holding")
                                    => IndexSound)
    OBVIOUS
<1>1. TypeOK /\ Guards /\ (poisoned \/ IndexSound) =>
        ((\E t \in Thread : session[t].phase = "holding") => IndexSound)
    BY HoldersAreNotPoisoned
<1> QED BY <1>1, SoundUnlessPoisoned, GuardsExclude, PTL

\* While callers keep indexed fields distinct, whoever holds a guard finds
\* every index in exact agreement with the table, panics included.
THEOREM HoldersFindExactIndexes ==
    Undisturbed /\ UniqueFields => (Spec => []HoldersSeeExactIndexes)
<1> SUFFICES ASSUME Undisturbed, UniqueFields
             PROVE  Spec => []HoldersSeeExactIndexes
    OBVIOUS
<1>1. TypeOK /\ Guards /\ (poisoned \/ ExactInv) => HoldersSeeExactIndexes
    BY HoldersAreNotPoisoned
       DEF HoldersSeeExactIndexes, ExactInv, Exact, IndexSound, IndexComplete
<1> QED BY <1>1, ExactUnlessPoisoned, GuardsExclude, PTL

\* So that what any of them gets through an index is the row a search of the
\* table by that field would find, whoever wrote it.
THEOREM HoldersSearchByField ==
    Undisturbed /\ UniqueFields =>
        (Spec => []((\E t \in Thread : session[t].phase = "holding")
                        => IndexedGetSearchesByField))
<1> SUFFICES ASSUME Undisturbed, UniqueFields
             PROVE  Spec => []((\E t \in Thread : session[t].phase = "holding")
                                    => IndexedGetSearchesByField)
    OBVIOUS
<1>1. TypeOK /\ Guards /\ (poisoned \/ ExactInv) =>
        ((\E t \in Thread : session[t].phase = "holding")
            => IndexedGetSearchesByField)
    BY HoldersAreNotPoisoned, ExactGetsSearch DEF TypeOK
<1> QED BY <1>1, ExactUnlessPoisoned, GuardsExclude, PTL

----------------------------------------------------------------------------
(* What threads do to the storage is a sequence of calls.                   *)

LEMMA WriterCall ==
    ASSUME TypeOK, Guards, [Next]_vars, ~UNCHANGED storageVars
    PROVE  \E t \in writers : /\ session[t].owner \in Owner
                              /\ \/ Completes(session[t].owner)
                                 \/ Panics(session[t].owner)
<1>1. PICK t \in writers \cap Thread :
        Completes(session[t].owner) \/ Panics(session[t].owner)
    BY OnlyWritersWrite
<1>2. session[t].owner \in Owner
    BY SessionTyped DEF Guards, WriteSession, Is, Session
<1> QED BY <1>1, <1>2

\* Whatever threads, guards and panics do, the storage goes through one
\* sequence of whole calls by owners: what OwnershipProofs and FieldProofs show
\* of such a sequence holds of a shared store.
THEOREM StoreIsOneSequence == Spec => AnyCalls
<1>1. Init => StorageInit
    BY DEF Init
<1>2. TypeOK /\ Guards /\ [Next]_vars => [AnyCall]_storageVars
    BY WriterCall DEF AnyCall
<1> QED BY <1>1, <1>2, GuardsExclude, PTL DEF Spec, AnyCalls

\* With threads and panics too, nothing takes a table from its owner.
THEOREM SharedOwnersStay == Spec => OwnerIsForever
BY StoreIsOneSequence, CallsKeepOwners, PTL

\* And a table that nobody owns has no rows, so that the calls that let anyone
\* into it find nothing, whichever thread comes first.
THEOREM SharedUnownedStaysEmpty == Spec => []UnownedIsEmpty
BY StoreIsOneSequence, CallsKeepUnownedEmpty, PTL

\* In a debug build the rows of a shared table change as those of a table that
\* has no indexes and one owner, after a panic and in between.
THEOREM SharedTableIsFieldTable ==
    DebugAssertions => (Spec => ImplementsFieldTable)
<1> SUFFICES ASSUME DebugAssertions PROVE Spec => ImplementsFieldTable
    OBVIOUS
<1> QED BY StoreIsOneSequence, CallsAreFieldTable, PTL

\* s loses its owner to no call but a remove, made under the write guard of a
\* thread that acts for that same owner.
ReleasedByOwner(s) ==
    singletons[s].owner # None /\ singletons'[s].owner # singletons[s].owner =>
        \E t \in writers : /\ session[t].owner = singletons[s].owner
                           /\ SingletonRemove(session[t].owner, s)

\* In a debug build an owned singleton gets rid of its owner in one way: a
\* thread that has a write guard for that same owner removes it.  Clear keeps
\* the owner, no insert takes over, and no panic sets a singleton free.
THEOREM SharedSingletonsAreReleased ==
    DebugAssertions => (Spec => [][\A s \in Singleton : ReleasedByOwner(s)]_vars)
<1> SUFFICES ASSUME DebugAssertions
             PROVE  Spec => [][\A s \in Singleton : ReleasedByOwner(s)]_vars
    OBVIOUS
<1>1. TypeOK /\ Guards /\ [Next]_vars => [\A s \in Singleton : ReleasedByOwner(s)]_vars
    <2> SUFFICES ASSUME TypeOK, Guards, [Next]_vars, NEW s \in Singleton,
                        singletons[s].owner # None,
                        singletons'[s].owner # singletons[s].owner
                 PROVE  \E t \in writers :
                            /\ session[t].owner = singletons[s].owner
                            /\ SingletonRemove(session[t].owner, s)
        BY DEF ReleasedByOwner
    <2>1. PICK t \in writers : /\ session[t].owner \in Owner
                               /\ \/ Completes(session[t].owner)
                                  \/ Panics(session[t].owner)
        BY WriterCall DEF storageVars
    <2> QED BY <2>1, OwnerGoesByRemoval DEF TypeOK
<1> QED BY <1>1, GuardsExclude, PTL DEF Spec

\* In a debug build rows and owned singletons change only under a write guard
\* that was taken for their owner.
THEOREM OwnersMutateAlone == DebugAssertions => (Spec => OnlyOwnersMutate)
<1> SUFFICES ASSUME DebugAssertions PROVE Spec => OnlyOwnersMutate
    OBVIOUS
<1>1. TypeOK /\ Guards /\ UnownedIsEmpty /\ [Next]_vars =>
        [/\ table'.data # table.data =>
                \E t \in writers : session[t].owner = table'.owner
         /\ \A s \in Singleton :
                singletons'[s] # singletons[s] /\ singletons[s].owner # None =>
                    \E t \in writers : session[t].owner = singletons[s].owner
        ]_vars
    <2>1. ASSUME TypeOK, UnownedIsEmpty, NEW o \in Owner, Completes(o) \/ Panics(o)
          PROVE  OnlyOwn(o)
        BY <2>1, CallOnlyOwn DEF TypeOK
    <2> QED BY <2>1, WriterCall DEF OnlyOwn, storageVars
<1> QED BY <1>1, GuardsExclude, SharedUnownedStaysEmpty, PTL DEF Spec, OnlyOwnersMutate

----------------------------------------------------------------------------
(* Calls and transactions are atomic: KvStore implements AtomicStore.       *)

\* The contents to fall back on are kept while somebody writes, and for ever
\* once a writer has panicked.
History ==
    /\ committed = None <=> writers = {} /\ ~poisoned
    /\ committed \in Option(Stored)

\* While t writes, it is the only one with an open transaction.
LEMMA WriterAlone ==
    ASSUME Guards, NEW t \in writers \cap Thread
    PROVE  /\ OpenTxn(t) = [writes |-> TRUE, base |-> committed, view |-> Contents]
           /\ \A u \in Thread \ {t} : OpenTxn(u) = NoTxn
BY DEF Guards, OpenTxn

\* Getting a guard begins a transaction.
LEMMA GetBegins ==
    ASSUME TypeOK, Guards, History, ~poisoned, NEW t \in Thread,
           NEW call \in Call, TakeGuard(t, call), UNCHANGED storageVars,
           ~WriteSession(t), ~Reading(t)
    PROVE  (\E writes \in BOOLEAN : Atomic!Begin(t, writes)) /\ History'
<1> USE DEF Atomic!Begin, Atomic!Closed
<1>0. Contents' = Contents /\ Contents \in Stored /\ OpenTxn(t) = NoTxn
    BY ContentsType DEF Contents, storageVars, TypeOK, OpenTxn, Guards
<1>1. CASE call \in WriteLocked
    <2>1. /\ writers = {} /\ readers = {} /\ writers' = {t} /\ readers' = {}
          /\ UNCHANGED poisoned /\ committed = None /\ committed' = Contents
        BY <1>1 DEF TakeGuard, GetWrite, CanWrite, History
    <2>2. committed' # None
        BY <1>0, <2>1, StoredAssumption
    <2>3. \A u \in Thread : OpenTxn(u) = NoTxn
        BY <2>1 DEF OpenTxn
    <2>4. \A u \in Thread \ {t} : OpenTxn(u)' = NoTxn
        BY <2>1 DEF OpenTxn
    <2>5. OpenTxn(t)' = [writes |-> TRUE, base |-> Contents, view |-> Contents]
        BY <1>0, <2>1 DEF OpenTxn
    <2>6. AbstractTxn' = [AbstractTxn EXCEPT ![t] =
                            [writes |-> TRUE, base |-> Contents, view |-> Contents]]
        BY <2>3, <2>4, <2>5 DEF AbstractTxn
    <2>7. Atomic!Begin(t, TRUE)
        BY <1>0, <2>1, <2>2, <2>6 DEF AbstractDb, AbstractTxn, NoTxn
    <2>8. History'
        BY <1>0, <2>1, <2>2 DEF History, Option
    <2> QED BY <2>7, <2>8
<1>2. CASE call \notin WriteLocked
    <2>1. /\ writers = {} /\ writers' = {} /\ readers' = readers \cup {t}
          /\ UNCHANGED <<poisoned, committed>> /\ committed = None
        BY <1>2 DEF TakeGuard, GetRead, CanRead, History
    <2>2. \A u \in Thread \ {t} : OpenTxn(u)' = OpenTxn(u)
        BY <1>0, <2>1 DEF OpenTxn, NoTxn
    <2>3. OpenTxn(t)' = [writes |-> FALSE, base |-> Contents, view |-> Contents]
        BY <1>0, <2>1 DEF OpenTxn
    <2>4. AbstractTxn' = [AbstractTxn EXCEPT ![t] =
                            [writes |-> FALSE, base |-> Contents, view |-> Contents]]
        BY <2>2, <2>3 DEF AbstractTxn
    <2>5. Atomic!Begin(t, FALSE)
        BY <1>0, <2>1, <2>4 DEF AbstractDb, AbstractTxn, NoTxn
    <2>6. History'
        BY <2>1 DEF History
    <2> QED BY <2>5, <2>6
<1> QED BY <1>1, <1>2

\* Calls under a write guard write to its transaction.
LEMMA CallWrites ==
    ASSUME TypeOK, Guards, History, NEW t \in writers \cap Thread,
           UNCHANGED <<lockVars, committed>>
    PROVE  Atomic!Write(t) /\ History'
<1> USE DEF Atomic!Write
<1>1. UNCHANGED <<writers, readers, poisoned>> /\ committed # None
    BY DEF lockVars, History
<1>2. /\ OpenTxn(t)' = [writes |-> TRUE, base |-> committed, view |-> Contents']
      /\ \A u \in Thread \ {t} : OpenTxn(u)' = OpenTxn(u)
    <2>1. OpenTxn(t)' = [writes |-> TRUE, base |-> committed, view |-> Contents']
        BY <1>1 DEF OpenTxn
    <2>2. \A u \in Thread \ {t} : u \notin writers /\ readers = {}
        BY DEF Guards
    <2>3. \A u \in Thread \ {t} : OpenTxn(u)' = NoTxn
        BY <1>1, <2>2 DEF OpenTxn
    <2> QED BY <2>1, <2>3, WriterAlone
<1>3. AbstractTxn' = [AbstractTxn EXCEPT ![t] =
        [writes |-> TRUE, base |-> AbstractTxn[t].base,
         view |-> (AbstractTxn')[t].view]]
    <2>1. AbstractTxn[t] = [writes |-> TRUE, base |-> committed, view |-> Contents]
        BY WriterAlone DEF AbstractTxn
    <2>2. AbstractTxn' = [AbstractTxn EXCEPT ![t] =
            [writes |-> TRUE, base |-> committed, view |-> Contents']]
        BY <1>2 DEF AbstractTxn
    <2>3. AbstractTxn'[t] = [writes |-> TRUE, base |-> committed, view |-> Contents']
        BY <1>2 DEF AbstractTxn
    <2>4. AbstractTxn[t].base = committed /\ AbstractTxn'[t].view = Contents'
        BY <2>1, <2>3
    <2> QED BY <2>2, <2>4
<1>4. AbstractTxn[t].writes
    BY WriterAlone DEF AbstractTxn
<1> QED BY <1>1, <1>3, <1>4 DEF AbstractDb, AbstractTxn, History

\* A panic throws the transaction away, with the last call's work.
LEMMA PanicFails ==
    ASSUME TypeOK, Guards, History, NEW t \in writers \cap Thread,
           DropWrite(t, TRUE), UNCHANGED committed
    PROVE  Atomic!Fail(t) /\ History'
<1> USE DEF Atomic!Fail, Atomic!Closed
<1>1. /\ writers' = {} /\ readers' = {} /\ poisoned' /\ committed # None
      /\ committed' = committed
    BY DEF DropWrite, Guards, History, TypeOK, LockTypeOK
<1>2. \A u \in Thread : OpenTxn(u)' = NoTxn
    BY <1>1 DEF OpenTxn
<1>3. AbstractTxn' = [AbstractTxn EXCEPT ![t] = NoTxn]
    BY <1>2, WriterAlone DEF AbstractTxn
<1>4. AbstractTxn[t].writes
    BY WriterAlone DEF AbstractTxn
<1>5. poisoned' = TRUE
    BY DEF DropWrite
<1> QED BY <1>1, <1>3, <1>4, <1>5 DEF AbstractDb, AbstractTxn, NoTxn, History

\* Dropping a guard commits.
LEMMA DropCommits ==
    ASSUME TypeOK, Guards, History, NEW t \in Thread, DropGuard(t)
    PROVE  Atomic!Commit(t) /\ History'
<1> USE DEF Atomic!Commit, Atomic!Closed
<1>0. Contents \in Stored /\ Contents' = Contents /\ UNCHANGED poisoned
    <2>1. Contents \in Stored
        BY ContentsType DEF TypeOK
    <2>2. Contents' = Contents
        BY DEF DropGuard, storageVars, Contents
    <2>3. UNCHANGED poisoned
        BY DEF DropGuard, DropWrite, DropRead, TypeOK, LockTypeOK
    <2> QED BY <2>1, <2>2, <2>3
<1>1. CASE WriteSession(t) /\ DropWrite(t, FALSE) /\ committed' = None
    <2>1. /\ t \in writers /\ ~poisoned /\ writers' = {} /\ readers' = {}
          /\ committed # None
        BY <1>1 DEF DropWrite, Guards, History, TypeOK, LockTypeOK
    <2>2. \A u \in Thread : OpenTxn(u)' = NoTxn
        BY <2>1 DEF OpenTxn
    <2>3. AbstractTxn' = [AbstractTxn EXCEPT ![t] = NoTxn]
        BY <2>1, <2>2, WriterAlone DEF AbstractTxn
    <2>4. AbstractTxn[t] =
            [writes |-> TRUE, base |-> committed, view |-> Contents]
        BY <2>1, WriterAlone DEF AbstractTxn
    <2> QED BY <1>0, <1>1, <2>1, <2>3, <2>4
            DEF AbstractDb, AbstractTxn, NoTxn, History, Option
<1>2. CASE Reading(t) /\ DropRead(t) /\ UNCHANGED committed
    <2>1. writers' = writers /\ readers' = readers \ {t} /\ t \notin writers
        BY <1>2 DEF DropRead, Guards, Reading, WriteSession, Is
    <2>2. CASE t \in readers
        <3>1. writers = {} /\ ~poisoned /\ committed = None
            BY <2>2 DEF Guards, History
        <3>2. /\ OpenTxn(t)' = NoTxn
              /\ \A u \in Thread \ {t} : OpenTxn(u)' = OpenTxn(u)
            BY <1>0, <2>1, <3>1 DEF OpenTxn, NoTxn
        <3>3. AbstractTxn' = [AbstractTxn EXCEPT ![t] = NoTxn]
            BY <3>2 DEF AbstractTxn
        <3>4. AbstractTxn[t] =
                [writes |-> FALSE, base |-> Contents, view |-> Contents]
            BY <2>2, <3>1 DEF AbstractTxn, OpenTxn
        <3>5. Contents # None
            BY <1>0, StoredAssumption
        <3> QED BY <1>0, <1>2, <2>1, <3>1, <3>3, <3>4, <3>5
                DEF AbstractDb, AbstractTxn, NoTxn, History
    <2> QED BY <1>2, <2>2 DEF Guards
<1> QED BY <1>1, <1>2 DEF DropGuard, WriteSession, Reading

\* A step that leaves guards, contents and history alone shows nothing.
LEMMA Hidden ==
    ASSUME History, UNCHANGED <<storageVars, writers, readers, poisoned, committed>>
    PROVE  UNCHANGED <<AbstractDb, AbstractTxn, poisoned>> /\ History'
<1>1. Contents' = Contents
    BY DEF Contents, storageVars
<1>2. \A u \in Thread : OpenTxn(u)' = OpenTxn(u)
    BY <1>1 DEF OpenTxn, NoTxn
<1> QED BY <1>1, <1>2 DEF AbstractDb, AbstractTxn, History

LEMMA StepAtomic ==
    ASSUME TypeOK, Guards, History, NEW t \in Thread, Step(t)
    PROVE  /\ Atomic!Next \/ UNCHANGED <<AbstractDb, AbstractTxn, poisoned>>
           /\ History'
<1>1. CASE Acquire(t) \/ TryBegin(t)
    <2>1. PICK call \in Call : TakeGuard(t, call)
        BY <1>1, SessionTyped DEF Acquire, TryBegin, Session, Call
    <2>2. ~WriteSession(t) /\ ~Reading(t)
        BY <1>1 DEF Acquire, TryBegin, Counted, WriteSession, Reading, Is
    <2>3. ~poisoned /\ UNCHANGED storageVars
        BY <1>1 DEF Acquire, TryBegin
    <2> QED BY <2>1, <2>2, <2>3, GetBegins DEF Atomic!Next
<1>2. CASE RawWrite(t) \/ TransactionCall(t) \/ TransactionCatches(t)
    <2>1. WriteSession(t) /\ UNCHANGED <<lockVars, committed>>
        BY <1>2 DEF RawWrite, TransactionCall, TransactionCatches, WriteSession
    <2>2. t \in writers \cap Thread
        BY <2>1 DEF Guards
    <2> QED BY <2>1, <2>2, CallWrites DEF Atomic!Next
<1>3. CASE Unwind(t)
    <2>1. WriteSession(t) /\ DropWrite(t, TRUE) /\ UNCHANGED committed
        BY <1>3 DEF Unwind, WriteSession
    <2>2. t \in writers \cap Thread
        BY <2>1 DEF Guards
    <2> QED BY <2>1, <2>2, PanicFails DEF Atomic!Next
<1>4. CASE DropGuard(t)
    BY <1>4, DropCommits DEF Atomic!Next
<1>5. CASE Begin(t) \/ UnwrapPanics(t) \/ TryBeginFails(t)
    <2>1. UNCHANGED <<storageVars, writers, readers, poisoned, committed>>
        BY <1>5 DEF Begin, UnwrapPanics, TryBeginFails, Enqueue, Dequeue, lockVars
    <2> QED BY <2>1, Hidden
<1> QED BY <1>1, <1>2, <1>3, <1>4, <1>5 DEF Step

LEMMA InitAtomic ==
    ASSUME Init
    PROVE  Atomic!Init /\ History
<1>1. \A u \in Thread : OpenTxn(u) = NoTxn
    BY DEF Init, LockInit, OpenTxn
<1>2. Atomic!Init
    BY <1>1 DEF Init, LockInit, NoTxn, AbstractTxn, Atomic!Init, Atomic!Closed
<1>3. History
    BY DEF Init, LockInit, History, Option
<1> QED BY <1>2, <1>3

LEMMA NextAtomic ==
    ASSUME TypeOK, Guards, History, [Next]_vars
    PROVE  /\ Atomic!Next \/ UNCHANGED <<AbstractDb, AbstractTxn, poisoned>>
           /\ History'
<1>1. UNCHANGED vars =>
        UNCHANGED <<AbstractDb, AbstractTxn, poisoned>> /\ History'
    BY Hidden DEF vars, lockVars
<1> QED BY <1>1, StepAtomic DEF Next, Finished

LEMMA HistoryIsKept == Spec => [](TypeOK /\ Guards /\ History)
<1>1. Init => History
    BY InitAtomic
<1>2. TypeOK /\ Guards /\ History /\ [Next]_vars => History'
    BY NextAtomic
<1> QED BY <1>1, <1>2, GuardsExclude, PTL DEF Spec

\* Every behaviour of threads, guards and panics is one of AtomicStore: raw
\* calls and transactions are atomic and serializable, and nothing a panic
\* interrupted is ever published.
THEOREM CallsAreAtomic == Spec => ImplementsAtomicStore
<1>1. Init => Atomic!Init
    BY InitAtomic
<1>2. TypeOK /\ Guards /\ History /\ [Next]_vars =>
        [Atomic!Next]_<<AbstractDb, AbstractTxn, poisoned>>
    BY NextAtomic
<1>3. Spec => Atomic!Init /\
              [][Atomic!Next]_<<AbstractDb, AbstractTxn, poisoned>>
    BY <1>1, <1>2, HistoryIsKept, PTL DEF Spec
<1> QED BY <1>3 DEF ImplementsAtomicStore, Atomic!Spec

\* A reader, whichever kind of guard it has, never sees what a writer has not
\* committed.
THEOREM ReadersSeeCommitted ==
    Spec => [](\A t \in Thread : Reading(t) => Contents = AbstractDb)
<1>1. Guards /\ History => (\A t \in Thread : Reading(t) => Contents = AbstractDb)
    BY DEF Guards, History, AbstractDb
<1> QED BY <1>1, HistoryIsKept, PTL

\* What later transactions build on changes only when a writer drops its guard
\* without a panic, and then to all that it wrote: calls in between, caught
\* panics and the death of a writer leave it alone.
THEOREM CommitsPublish ==
    Spec => [][AbstractDb' # AbstractDb =>
                  \E t \in Thread :
                      WriteSession(t) /\ DropGuard(t) /\ AbstractDb' = Contents]_vars
<1>1. ASSUME TypeOK, Guards, History, NEW t \in Thread, Step(t),
             AbstractDb' # AbstractDb
      PROVE  WriteSession(t) /\ DropGuard(t) /\ AbstractDb' = Contents
    <2>1. CASE DropGuard(t)
        <3>1. Contents' = Contents
            BY <2>1 DEF DropGuard, storageVars, Contents
        <3>2. CASE Reading(t) /\ UNCHANGED committed
            BY <1>1, <3>1, <3>2 DEF AbstractDb
        <3>3. CASE WriteSession(t) /\ committed' = None
            BY <2>1, <3>1, <3>3 DEF AbstractDb
        <3> QED BY <2>1, <3>2, <3>3 DEF DropGuard, WriteSession, Reading
    <2>2. CASE Acquire(t) \/ TryBegin(t)
        <3>1. Contents' = Contents /\ committed' \in {committed, Contents}
            BY <2>2 DEF Acquire, TryBegin, TakeGuard, storageVars, Contents
        <3>2. committed = None
            <4>1. CASE Acquire(t)
                BY <1>1, <4>1 DEF Acquire, TakeGuard, GetWrite, GetRead, CanWrite, CanRead,
                            History
            <4>2. CASE TryBegin(t)
                BY <1>1, <4>2 DEF TryBegin, TakeGuard, GetWrite, GetRead, CanWrite, CanRead,
                            History
            <4> QED BY <2>2, <4>1, <4>2
        <3> QED BY <1>1, <3>1, <3>2 DEF AbstractDb
    <2>3. CASE RawWrite(t) \/ TransactionCall(t) \/ TransactionCatches(t) \/ Unwind(t)
        <3>1. t \in writers /\ UNCHANGED committed
            BY <1>1, <2>3 DEF RawWrite, TransactionCall, TransactionCatches, Unwind,
                        Guards, WriteSession
        <3>2. committed # None
            BY <1>1, <3>1 DEF History
        <3> QED BY <1>1, <3>1, <3>2 DEF AbstractDb
    <2>4. CASE Begin(t) \/ UnwrapPanics(t) \/ TryBeginFails(t)
        BY <1>1, <2>4 DEF Begin, UnwrapPanics, TryBeginFails, AbstractDb, Contents,
                          storageVars
    <2> QED BY <1>1, <2>1, <2>2, <2>3, <2>4 DEF Step
<1>2. UNCHANGED vars => AbstractDb' = AbstractDb
    BY DEF vars, storageVars, AbstractDb, Contents
<1>3. TypeOK /\ Guards /\ History /\ [Next]_vars =>
        [AbstractDb' # AbstractDb =>
            \E t \in Thread :
                WriteSession(t) /\ DropGuard(t) /\ AbstractDb' = Contents]_vars
    BY <1>1, <1>2 DEF Next, Finished
<1> QED BY <1>3, HistoryIsKept, PTL DEF Spec

----------------------------------------------------------------------------
(* The queue.                                                               *)

\* Only threads that wait to write are in the queue.
QueueInv ==
    \A t \in queued : session[t].phase = "waiting" /\ session[t].call \in WriteLocked

LEMMA StepQueue ==
    ASSUME TypeOK, QueueInv, NEW t \in Thread, Step(t)
    PROVE  QueueInv'
<1>1. \A u \in Thread \ {t} : session'[u] = session[u]
    BY DEF Step, Begin, Acquire, UnwrapPanics, TryBegin, TryBeginFails, RawWrite,
           TransactionCall, TransactionCatches, Unwind, DropGuard, Enter, Leave, TypeOK
<1>2. queued \subseteq Thread
    BY DEF TypeOK, LockTypeOK
<1>3. CASE Begin(t)
    <2>1. PICK call \in Call, o \in Owner :
            /\ Enter(t, "waiting", call, o)
            /\ IF call \in WriteLocked THEN Enqueue(t) ELSE UNCHANGED lockVars
        BY <1>3 DEF Begin
    <2>2. session'[t].phase = "waiting" /\ session'[t].call = call
        BY <2>1 DEF Enter, TypeOK
    <2>3. t \notin queued
        BY <1>3 DEF Begin, Counted, QueueInv
    <2>4. CASE call \in WriteLocked
        BY <1>1, <1>2, <2>1, <2>2, <2>4 DEF QueueInv, Enqueue
    <2>5. CASE call \notin WriteLocked
        BY <1>1, <1>2, <2>1, <2>3, <2>5 DEF QueueInv, lockVars
    <2> QED BY <2>4, <2>5
<1>4. CASE Acquire(t) \/ TryBegin(t) \/ UnwrapPanics(t)
    <2>1. t \notin queued' /\ queued' \subseteq queued
        <3>1. CASE Acquire(t)
            <4>1. CASE session[t].call \in WriteLocked
                BY <3>1, <4>1 DEF Acquire, TakeGuard, GetWrite
            <4>2. CASE session[t].call \notin WriteLocked
                BY <3>1, <4>2 DEF Acquire, TakeGuard, GetRead, QueueInv
            <4> QED BY <4>1, <4>2
        <3>2. CASE TryBegin(t)
            BY <3>2 DEF TryBegin, Counted, TakeGuard, GetWrite, GetRead, QueueInv
        <3>3. CASE UnwrapPanics(t)
            BY <3>3 DEF UnwrapPanics, Dequeue
        <3> QED BY <1>4, <3>1, <3>2, <3>3
    <2> QED BY <1>1, <1>2, <2>1 DEF QueueInv
<1>5. CASE \/ TryBeginFails(t) \/ RawWrite(t) \/ TransactionCall(t)
           \/ TransactionCatches(t) \/ Unwind(t) \/ DropGuard(t)
    <2>1. queued' = queued
        BY <1>5 DEF TryBeginFails, RawWrite, TransactionCall, TransactionCatches,
                    Unwind, DropGuard, DropWrite, DropRead, lockVars
    <2>2. t \notin queued \/ UNCHANGED session
        BY <1>5 DEF TryBeginFails, RawWrite, TransactionCall, TransactionCatches,
                    Unwind, DropGuard, Is, QueueInv
    <2> QED BY <1>1, <1>2, <2>1, <2>2 DEF QueueInv
<1> QED BY <1>3, <1>4, <1>5 DEF Step

LEMMA QueueIsOfWaiters == Spec => []QueueInv
<1>1. Init => QueueInv
    BY DEF Init, LockInit, QueueInv
<1>2. TypeOK /\ QueueInv /\ [Next]_vars => QueueInv'
    <2>1. UNCHANGED vars /\ QueueInv => QueueInv'
        BY DEF vars, lockVars, QueueInv
    <2> QED BY <2>1, StepQueue DEF Next, Finished
<1> QED BY <1>1, <1>2, KvTypeCorrect, PTL DEF Spec

\* A lock that nobody has can be had.
LEMMA LockIsHadOrFree ==
    ASSUME TypeOK, QueueInv, NEW t \in Thread, session[t].phase = "waiting"
    PROVE  \E u \in Thread :
               \/ u \in writers \cup readers
               \/ session[u].phase = "waiting" /\ Available(session[u].call)
<1>1. CASE writers # {} \/ readers # {}
    BY <1>1 DEF TypeOK, LockTypeOK
<1>2. CASE writers = {} /\ readers = {} /\ queued # {}
    <2>1. PICK u \in Thread : u \in queued
        BY <1>2 DEF TypeOK, LockTypeOK
    <2> QED BY <1>2, <2>1 DEF QueueInv, Available, CanWrite
<1>3. CASE writers = {} /\ readers = {} /\ queued = {}
    BY <1>3 DEF Available, CanWrite, CanRead
<1> QED BY <1>1, <1>2, <1>3

\* Whoever waits, waits for a guard that somebody has, or for somebody who
\* could have the lock now: no sequence of calls, panics and failed attempts
\* loses it (KvStore!LockIsNeverLost).
THEOREM LockStaysWithSomebody == Spec => []LockIsNeverLost
<1>1. TypeOK /\ Guards /\ QueueInv => LockIsNeverLost
    BY LockIsHadOrFree DEF LockIsNeverLost, Guards, WriteSession, Reading, Is
<1> QED BY <1>1, GuardsExclude, QueueIsOfWaiters, PTL
=============================================================================
