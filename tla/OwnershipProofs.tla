--------------------------- MODULE OwnershipProofs ---------------------------
(* Theorems about the owners of tables and singletons in Storage.           *)
EXTENDS StorageProofs

\* What no call does to the owner of a table, and what no call does to the
\* rows of a table that it leaves without an owner.
OwnerStep ==
    /\ table.owner # None => table'.owner = table.owner
    /\ \A i \in Index : table.indexOwner[i] # None =>
           table'.indexOwner[i] = table.indexOwner[i]
    /\ table'.owner = None => Rows(table'.data) \subseteq Rows(table.data)

LEMMA SameTableOwnerStep ==
    ASSUME StorageTypeOK, UNCHANGED table
    PROVE  OwnerStep
BY DEF OwnerStep

LEMMA EditedRows ==
    ASSUME NEW rows \in SUBSET Rows(table.data), NEW data \in Edited(rows)
    PROVE  Rows(data) \subseteq Rows(table.data)
BY DEF Edited, Rows

LEMMA EditOwnerStep ==
    ASSUME StorageTypeOK, NEW o \in Owner, NEW rows \in SUBSET Rows(table.data),
           EditAndRebuild(o, rows) \/ EditPanics(o, rows)
    PROVE  OwnerStep
<1>1. PICK data \in Edited(rows) :
        \/ table' = [table EXCEPT !.data = data]
        \/ \E indexes \in Rebuilt(data) :
              table' = [table EXCEPT !.data = data, !.indexes = indexes]
    BY DEF EditAndRebuild, EditPanics
<1>2. /\ table'.owner = table.owner
      /\ table'.indexOwner = table.indexOwner
      /\ table'.data = data
    BY <1>1 DEF StorageTypeOK, Table
<1> QED BY <1>2, EditedRows DEF OwnerStep

LEMMA TableCallOwnerStep ==
    ASSUME StorageTypeOK, NEW o \in Owner, TableCall(o)
    PROVE  OwnerStep
<1>0. table \in Table
    BY DEF StorageTypeOK
<1>1. CASE TableInit(o) \/ TableClear(o)
             \/ \E k \in Key, v \in Value : TableInsert(o, k, v)
    <2>1. /\ table'.owner = SetOwner(table.owner, o)
          /\ table'.indexOwner = table.indexOwner
        BY <1>0, <1>1 DEF TableInit, TableClear, TableInsert, Table
    <2> QED BY <2>1, NoneAssumption DEF OwnerStep, SetOwner
<1>2. ASSUME NEW k \in Key, NEW v \in Value, TableMutate(o, k, v)
      PROVE  OwnerStep
    <2>1. /\ table'.owner = table.owner
          /\ table'.indexOwner = table.indexOwner
          /\ \/ table'.data = table.data
             \/ table.data[k] # None /\ table'.data = [table.data EXCEPT ![k] = v]
        BY <1>0, <1>2 DEF TableMutate, Table
    <2> QED BY <1>0, <2>1 DEF OwnerStep, Rows, Table
<1>3. ASSUME NEW k \in Key, TableRemove(o, k)
      PROVE  OwnerStep
    <2>1. /\ table'.owner = table.owner
          /\ table'.indexOwner = table.indexOwner
          /\ \/ table'.data = table.data
             \/ table'.data = [table.data EXCEPT ![k] = None]
        BY <1>0, <1>3 DEF TableRemove, Table
    <2> QED BY <1>0, <2>1 DEF OwnerStep, Rows, Table
<1>4. CASE TableForEachMut(o)
    BY <1>4, EditOwnerStep DEF TableForEachMut
<1> QED BY <1>1, <1>2, <1>3, <1>4 DEF TableCall

LEMMA IndexedCallOwnerStep ==
    ASSUME StorageTypeOK, NEW o \in Owner, IndexedCall(o)
    PROVE  OwnerStep
<1>0. table \in Table
    BY DEF StorageTypeOK
<1>1. CASE IndexedInit(o) \/ IndexedClear(o)
             \/ \E k \in Key, v \in Value : IndexedInsert(o, k, v)
    BY <1>1, TableCallOwnerStep
       DEF IndexedInit, IndexedClear, IndexedInsert, TableCall
<1>2. ASSUME NEW i \in Index, NEW ik \in IndexKey, NEW v \in Value,
             IndexedMutate(o, i, ik, v)
      PROVE  OwnerStep
    <2> DEFINE k == table.indexes[i][ik]
    <2>1. /\ table'.owner = table.owner
          /\ table'.indexOwner = table.indexOwner
          /\ \/ table'.data = table.data
             \/ table.data[k] # None /\ table'.data = [table.data EXCEPT ![k] = v]
        BY <1>0, <1>2 DEF IndexedMutate, Table
    <2> QED BY <1>0, <2>1 DEF OwnerStep, Rows, Table
<1>3. ASSUME NEW i \in Index, NEW ik \in IndexKey, IndexedRemove(o, i, ik)
      PROVE  OwnerStep
    <2> DEFINE k == table.indexes[i][ik]
    <2>1. /\ table'.owner = table.owner
          /\ table'.indexOwner = table.indexOwner
          /\ \/ table'.data = table.data
             \/ table'.data = [table.data EXCEPT ![k] = None]
        BY <1>0, <1>3 DEF IndexedRemove, Table
    <2> QED BY <1>0, <2>1 DEF OwnerStep, Rows, Table
<1>4. ASSUME NEW i \in Index, IndexedForEachMut(o, i)
      PROVE  OwnerStep
    BY <1>4, EditOwnerStep DEF IndexedForEachMut, Reached
<1> QED BY <1>1, <1>2, <1>3, <1>4 DEF IndexedCall

LEMMA IndexTableCallOwnerStep ==
    ASSUME StorageTypeOK, NEW o \in Owner, IndexTableCall(o)
    PROVE  OwnerStep
<1>1. PICK i \in Index :
        /\ table'.owner = table.owner
        /\ table'.data = table.data
        /\ \/ table'.indexOwner = table.indexOwner
           \/ table'.indexOwner =
                [table.indexOwner EXCEPT ![i] = SetOwner(@, o)]
    BY DEF IndexTableCall, IndexTableInit, IndexTableClear, IndexTableInsert,
           IndexTableEdit, IndexTableRemove, StorageTypeOK, Table
<1> QED BY <1>1 DEF OwnerStep, SetOwner, StorageTypeOK, Table

LEMMA PanicsOwnerStep ==
    ASSUME StorageTypeOK, NEW o \in Owner, Panics(o)
    PROVE  OwnerStep
<1>0. table \in Table
    BY DEF StorageTypeOK
<1>1. CASE OwnershipViolation(o)
    BY <1>1 DEF OwnershipViolation, OwnerStep, storageVars
<1>2. ASSUME NEW k, NEW v \in Value, TableMutatePanics(o, k, v)
      PROVE  OwnerStep
    <2>1. /\ table'.owner = table.owner
          /\ table'.indexOwner = table.indexOwner
          /\ table.data[k] # None
          /\ table'.data = [table.data EXCEPT ![k] = v]
        BY <1>0, <1>2 DEF TableMutatePanics, Table
    <2> QED BY <1>0, <2>1 DEF OwnerStep, Rows, Table
<1>3. ASSUME NEW i \in Index, NEW ik \in IndexKey, NEW v \in Value,
             IndexedMutatePanics(o, i, ik, v)
      PROVE  OwnerStep
    BY <1>2, <1>3 DEF IndexedMutatePanics
<1>4. CASE TableForEachMutPanics(o)
    BY <1>4, EditOwnerStep DEF TableForEachMutPanics
<1>5. ASSUME NEW i \in Index, IndexedForEachMutPanics(o, i)
      PROVE  OwnerStep
    BY <1>5, EditOwnerStep DEF IndexedForEachMutPanics, Reached
<1>6. ASSUME NEW s \in Singleton, NEW v \in SinVal, SingletonMutatePanics(o, s, v)
      PROVE  OwnerStep
    BY <1>6, SameTableOwnerStep
       DEF SingletonMutatePanics, SingletonMutate, SetSingleton, storageVars
<1>7. ASSUME NEW i \in Index, IndexTableEditPanics(o, i)
      PROVE  OwnerStep
    BY <1>7, IndexTableCallOwnerStep DEF IndexTableEditPanics, IndexTableCall
<1> QED BY <1>1, <1>2, <1>3, <1>4, <1>5, <1>6, <1>7 DEF Panics

LEMMA SingletonCallOwnerStep ==
    ASSUME StorageTypeOK, NEW o \in Owner, SingletonCall(o)
    PROVE  OwnerStep
BY SameTableOwnerStep
   DEF SingletonCall, SingletonInsert, SingletonMutate, SingletonRemove,
       SingletonClear, SetSingleton, storageVars

LEMMA CallOwnerStep ==
    ASSUME StorageTypeOK, NEW o \in Owner, Completes(o) \/ Panics(o)
    PROVE  OwnerStep
BY TableCallOwnerStep, IndexedCallOwnerStep, IndexTableCallOwnerStep,
   SingletonCallOwnerStep, PanicsOwnerStep DEF Completes

LEMMA AnyCallOwnerStep ==
    ASSUME StorageTypeOK, [AnyCall]_storageVars
    PROVE  OwnerStep
BY CallOwnerStep, SameTableOwnerStep DEF AnyCall, storageVars

LEMMA CallsKeepOwners == AnyCalls => OwnerIsForever
<1>1. StorageTypeOK /\ [AnyCall]_storageVars =>
        [/\ table.owner # None => table'.owner = table.owner
         /\ \A i \in Index : table.indexOwner[i] # None =>
                table'.indexOwner[i] = table.indexOwner[i]]_storageVars
    BY AnyCallOwnerStep DEF OwnerStep
<1> QED BY <1>1, CallsType, PTL DEF AnyCalls, OwnerIsForever

LEMMA CallsKeepUnownedEmpty == AnyCalls => []UnownedIsEmpty
<1>1. StorageInit => UnownedIsEmpty
    BY DEF StorageInit, UnownedIsEmpty, Rows
<1>2. StorageTypeOK /\ UnownedIsEmpty /\ [AnyCall]_storageVars => UnownedIsEmpty'
    BY AnyCallOwnerStep DEF OwnerStep, UnownedIsEmpty
<1> QED BY <1>1, <1>2, CallsType, PTL DEF AnyCalls

\* No call, completed or panicking, by whatever owner and in whatever build,
\* gives a table another owner once it has one.
THEOREM OwnersStay == StorageSpec => OwnerIsForever
BY StorageIsCalls, CallsKeepOwners, PTL

\* A table without an owner has no rows for a stranger to change.
THEOREM UnownedStaysEmpty == StorageSpec => []UnownedIsEmpty
BY StorageIsCalls, CallsKeepUnownedEmpty, PTL

----------------------------------------------------------------------------
(* In a debug build, who changes the data?                                  *)

\* What a call by o may change: rows of its table, and singletons that are
\* its own or nobody's.
OnlyOwn(o) ==
    /\ table'.data # table.data => table'.owner = o
    /\ \A s \in Singleton :
           singletons'[s] # singletons[s] /\ singletons[s].owner # None
               => singletons[s].owner = o

\* A call passes assert_owner, and finds a row if there is no owner to assert.
LEMMA AssertedOwner ==
    ASSUME UnownedIsEmpty, DebugAssertions, NEW o \in Owner,
           AssertOwner(table.owner, o), Rows(table.data) # {}
    PROVE  table.owner = o
BY DEF UnownedIsEmpty, AssertOwner

LEMMA EditOnlyOwn ==
    ASSUME StorageTypeOK, UnownedIsEmpty, DebugAssertions, NEW o \in Owner,
           NEW rows \in SUBSET Rows(table.data),
           EditAndRebuild(o, rows) \/ EditPanics(o, rows)
    PROVE  OnlyOwn(o)
<1>1. PICK data \in Edited(rows) :
        \/ table' = [table EXCEPT !.data = data]
        \/ \E indexes \in Rebuilt(data) :
              table' = [table EXCEPT !.data = data, !.indexes = indexes]
    BY DEF EditAndRebuild, EditPanics
<1>2. table'.owner = table.owner /\ table'.data = data
    BY <1>1 DEF StorageTypeOK, Table
<1>3. data # table.data => rows # {}
    BY DEF Edited, StorageTypeOK, Table
<1>4. AssertOwner(table.owner, o) /\ UNCHANGED singletons
    BY DEF EditAndRebuild, EditPanics
<1> QED BY <1>2, <1>3, <1>4, AssertedOwner DEF OnlyOwn

LEMMA TableCallOnlyOwn ==
    ASSUME StorageTypeOK, UnownedIsEmpty, DebugAssertions, NEW o \in Owner,
           TableCall(o)
    PROVE  OnlyOwn(o)
<1>0. table \in Table
    BY DEF StorageTypeOK
<1>1. CASE TableInit(o)
    BY <1>0, <1>1 DEF TableInit, Table, OnlyOwn
<1>2. CASE TableClear(o) \/ \E k \in Key, v \in Value : TableInsert(o, k, v)
    <2>1. /\ table'.owner = SetOwner(table.owner, o)
          /\ AssertOwner(table.owner, o)
          /\ UNCHANGED singletons
        BY <1>0, <1>2 DEF TableClear, TableInsert, Table
    <2> QED BY <2>1 DEF OnlyOwn, SetOwner, AssertOwner
<1>3. ASSUME NEW k \in Key, NEW v \in Option(Value),
             TableMutate(o, k, v) \/ TableRemove(o, k)
      PROVE  OnlyOwn(o)
    <2>1. /\ table'.owner = table.owner
          /\ table'.data # table.data => k \in Rows(table.data)
          /\ AssertOwner(table.owner, o)
          /\ UNCHANGED singletons
        BY <1>0, <1>3 DEF TableMutate, TableRemove, Table, Rows
    <2> QED BY <2>1, AssertedOwner DEF OnlyOwn
<1>4. CASE TableForEachMut(o)
    BY <1>4, EditOnlyOwn DEF TableForEachMut
<1> QED BY <1>1, <1>2, <1>3, <1>4 DEF TableCall, Option

LEMMA IndexedCallOnlyOwn ==
    ASSUME StorageTypeOK, UnownedIsEmpty, DebugAssertions, NEW o \in Owner,
           IndexedCall(o)
    PROVE  OnlyOwn(o)
<1>0. table \in Table
    BY DEF StorageTypeOK
<1>1. CASE IndexedInit(o) \/ IndexedClear(o)
             \/ \E k \in Key, v \in Value : IndexedInsert(o, k, v)
    BY <1>1, TableCallOnlyOwn
       DEF IndexedInit, IndexedClear, IndexedInsert, TableCall
<1>2. ASSUME NEW i \in Index, NEW ik \in IndexKey, NEW v \in Option(Value),
             IndexedMutate(o, i, ik, v) \/ IndexedRemove(o, i, ik)
      PROVE  OnlyOwn(o)
    <2>1. table.indexes[i][ik] \in Option(Key)
        BY <1>0 DEF Table, IndexTables
    <2>2. /\ table'.owner = table.owner
          /\ table'.data # table.data =>
                /\ Rows(table.data) # {}
                /\ AssertOwner(table.owner, o)
          /\ UNCHANGED singletons
        BY <1>0, <1>2, <2>1 DEF IndexedMutate, IndexedRemove, Table, Rows, Option
    <2> QED BY <2>2, AssertedOwner DEF OnlyOwn
<1>3. ASSUME NEW i \in Index, IndexedForEachMut(o, i)
      PROVE  OnlyOwn(o)
    BY <1>3, EditOnlyOwn DEF IndexedForEachMut, Reached
<1> QED BY <1>1, <1>2, <1>3 DEF IndexedCall, Option

LEMMA SingletonCallOnlyOwn ==
    ASSUME StorageTypeOK, DebugAssertions, NEW o \in Owner, SingletonCall(o)
    PROVE  OnlyOwn(o)
<1>1. PICK s \in Singleton :
        /\ AssertOwner(singletons[s].owner, o)
        /\ \A r \in Singleton \ {s} : singletons'[r] = singletons[r]
        /\ UNCHANGED table
    BY DEF SingletonCall, SingletonInsert, SingletonMutate, SingletonRemove,
           SingletonClear, SetSingleton, storageVars, StorageTypeOK
<1> QED BY <1>1 DEF OnlyOwn, AssertOwner

LEMMA IndexTableCallOnlyOwn ==
    ASSUME StorageTypeOK, NEW o \in Owner, IndexTableCall(o)
    PROVE  OnlyOwn(o)
<1>1. table'.data = table.data /\ UNCHANGED singletons
    BY DEF IndexTableCall, IndexTableInit, IndexTableClear, IndexTableInsert,
           IndexTableEdit, IndexTableRemove, StorageTypeOK, Table
<1> QED BY <1>1 DEF OnlyOwn

LEMMA PanicsOnlyOwn ==
    ASSUME StorageTypeOK, UnownedIsEmpty, DebugAssertions, NEW o \in Owner,
           Panics(o)
    PROVE  OnlyOwn(o)
<1>0. table \in Table
    BY DEF StorageTypeOK
<1>1. CASE OwnershipViolation(o)
    BY <1>1 DEF OwnershipViolation, OnlyOwn, storageVars
<1>2. ASSUME NEW k, NEW v \in Value, k \in Option(Key), TableMutatePanics(o, k, v)
      PROVE  OnlyOwn(o)
    <2>1. /\ table'.owner = table.owner
          /\ table'.data # table.data => Rows(table.data) # {}
          /\ AssertOwner(table.owner, o)
          /\ UNCHANGED singletons
        BY <1>0, <1>2 DEF TableMutatePanics, Table, Rows, Option
    <2> QED BY <2>1, AssertedOwner DEF OnlyOwn
<1>3. ASSUME NEW i \in Index, NEW ik \in IndexKey, NEW v \in Value,
             IndexedMutatePanics(o, i, ik, v)
      PROVE  OnlyOwn(o)
    <2>1. table.indexes[i][ik] \in Option(Key)
        BY <1>0 DEF Table, IndexTables
    <2> QED BY <1>2, <1>3, <2>1 DEF IndexedMutatePanics
<1>4. CASE TableForEachMutPanics(o)
    BY <1>4, EditOnlyOwn DEF TableForEachMutPanics
<1>5. ASSUME NEW i \in Index, IndexedForEachMutPanics(o, i)
      PROVE  OnlyOwn(o)
    BY <1>5, EditOnlyOwn DEF IndexedForEachMutPanics, Reached
<1>6. ASSUME NEW s \in Singleton, NEW v \in SinVal, SingletonMutatePanics(o, s, v)
      PROVE  OnlyOwn(o)
    BY <1>6, SingletonCallOnlyOwn DEF SingletonMutatePanics, SingletonCall
<1>7. ASSUME NEW i \in Index, IndexTableEditPanics(o, i)
      PROVE  OnlyOwn(o)
    BY <1>7, IndexTableCallOnlyOwn DEF IndexTableEditPanics, IndexTableCall
<1> QED BY <1>1, <1>2, <1>3, <1>4, <1>5, <1>6, <1>7 DEF Panics, Option

LEMMA CallOnlyOwn ==
    ASSUME StorageTypeOK, UnownedIsEmpty, DebugAssertions, NEW o \in Owner,
           Completes(o) \/ Panics(o)
    PROVE  OnlyOwn(o)
BY TableCallOnlyOwn, IndexedCallOnlyOwn, SingletonCallOnlyOwn,
   IndexTableCallOnlyOwn, PanicsOnlyOwn DEF Completes

----------------------------------------------------------------------------
(* How a singleton gets rid of its owner.                                   *)

LEMMA OtherCallsKeepSingletons ==
    ASSUME NEW o \in Owner, Completes(o) \/ Panics(o)
    PROVE  UNCHANGED singletons \/ SingletonCall(o)
<1>1. TableCall(o) \/ IndexedCall(o) \/ IndexTableCall(o) => UNCHANGED singletons
    BY DEF TableCall, TableInit, TableClear, TableInsert, TableMutate,
           TableRemove, TableForEachMut, EditAndRebuild, IndexedCall,
           IndexedInit, IndexedClear, IndexedInsert, IndexedMutate,
           IndexedRemove, IndexedForEachMut, IndexTableCall, IndexTableInit,
           IndexTableClear, IndexTableInsert, IndexTableEdit, IndexTableRemove
<1>2. Panics(o) => UNCHANGED singletons \/ SingletonCall(o)
    BY DEF Panics, OwnershipViolation, TableMutatePanics, IndexedMutatePanics,
           TableForEachMutPanics, IndexedForEachMutPanics, EditPanics,
           IndexTableEditPanics, IndexTableEdit, SingletonMutatePanics,
           SingletonCall, storageVars
<1> QED BY <1>1, <1>2 DEF Completes

\* The call is remove, and it comes from the owner itself.
LEMMA OwnerGoesByRemoval ==
    ASSUME StorageTypeOK, DebugAssertions, NEW o \in Owner, NEW s \in Singleton,
           Completes(o) \/ Panics(o),
           singletons[s].owner # None,
           singletons'[s].owner # singletons[s].owner
    PROVE  singletons[s].owner = o /\ SingletonRemove(o, s)
<1>1. PICK z \in Singleton :
        \/ \E v \in SinVal : SingletonInsert(o, z, v) \/ SingletonMutate(o, z, v)
        \/ SingletonRemove(o, z)
        \/ SingletonClear(o, z)
    BY OtherCallsKeepSingletons DEF SingletonCall
<1>2. /\ AssertOwner(singletons[z].owner, o)
      /\ \A y \in Singleton \ {z} : singletons'[y] = singletons[y]
    BY <1>1 DEF SingletonInsert, SingletonMutate, SingletonRemove,
          SingletonClear, SetSingleton, storageVars, StorageTypeOK
<1>3. z = s /\ singletons[s].owner = o
    BY <1>2 DEF AssertOwner
<1>4. SingletonRemove(o, s)
    BY <1>1, <1>3 DEF SingletonInsert, SingletonMutate, SingletonClear,
          SetSingleton, storageVars, StorageTypeOK, SinEntry
<1> QED BY <1>3, <1>4
=============================================================================
