---------------------------- MODULE StorageProofs ----------------------------
(* Theorems about Storage for every set of owners, keys, rows, indexes and  *)
(* singletons.                                                              *)
EXTENDS Storage, TLAPS

LEMMA OnInsertType ==
    ASSUME NEW ix \in IndexTables, NEW k \in Key, NEW v \in Value
    PROVE  OnInsert(ix, k, v) \in IndexTables
BY FieldAssumption DEF OnInsert, IndexTables, Option

LEMMA OnRemoveType ==
    ASSUME NEW ix \in IndexTables, NEW v \in Value
    PROVE  OnRemove(ix, v) \in IndexTables
BY FieldAssumption DEF OnRemove, IndexTables, Option

\* build gives an entry for exactly the fields that some row has, and the
\* entry is a row that has it.
LEMMA RebuiltEntry ==
    ASSUME NEW data, NEW ix \in Rebuilt(data), NEW i \in Index, NEW ik \in IndexKey
    PROVE  \/ ix[i][ik] = None /\ RowsWith(data, i, ik) = {}
           \/ ix[i][ik] \in RowsWith(data, i, ik)
<1>1. PICK last \in LastMet : ix = [j \in Index |-> [jk \in IndexKey |->
            IF RowsWith(data, j, jk) = {} THEN None ELSE last[RowsWith(data, j, jk)]]]
    BY DEF Rebuilt
<1>2. RowsWith(data, i, ik) \subseteq Key
    BY DEF RowsWith, Rows
<1>3. CASE RowsWith(data, i, ik) = {}
    BY <1>1, <1>3
<1>4. CASE RowsWith(data, i, ik) # {}
    <2>1. RowsWith(data, i, ik) \in DOMAIN last
        BY <1>2, <1>4 DEF LastMet
    <2>2. last[RowsWith(data, i, ik)] \in RowsWith(data, i, ik)
        BY <2>1 DEF LastMet
    <2> QED BY <1>1, <1>4, <2>2
<1> QED BY <1>3, <1>4

LEMMA RebuiltType ==
    ASSUME NEW data, NEW ix \in Rebuilt(data)
    PROVE  ix \in IndexTables
<1>1. PICK last \in LastMet : ix = [j \in Index |-> [jk \in IndexKey |->
            IF RowsWith(data, j, jk) = {} THEN None ELSE last[RowsWith(data, j, jk)]]]
    BY DEF Rebuilt
<1>2. \A j \in Index, jk \in IndexKey : ix[j][jk] \in Option(Key)
    BY RebuiltEntry DEF RowsWith, Rows, Option
<1> QED BY <1>1, <1>2 DEF IndexTables

LEMMA EditedType ==
    ASSUME StorageTypeOK, NEW rows \in SUBSET Key, NEW data \in Edited(rows)
    PROVE  data \in [Key -> Option(Value)]
BY DEF Edited, StorageTypeOK, Table, Option

LEMMA InitType == StorageInit => StorageTypeOK
BY DEF StorageInit, StorageTypeOK, Table, IndexTables, NoEntries, Option,
       NoSinEntry, SinEntry

LEMMA TableCallType ==
    ASSUME StorageTypeOK, NEW o \in Owner, TableCall(o)
    PROVE  StorageTypeOK'
<1> USE DEF StorageTypeOK, Table
<1>1. CASE TableInit(o)
    BY <1>1 DEF TableInit, SetOwner, Option
<1>2. CASE TableClear(o)
    BY <1>2 DEF TableClear, SetOwner, Option, IndexTables, NoEntries
<1>3. ASSUME NEW k \in Key, NEW v \in Value, TableInsert(o, k, v)
      PROVE  StorageTypeOK'
    <2> DEFINE old == table.data[k]
               kept == IF old = None THEN table.indexes ELSE OnRemove(table.indexes, old)
    <2>1. kept \in IndexTables
        BY OnRemoveType DEF Option
    <2>2. OnInsert(kept, k, v) \in IndexTables
        BY <2>1, OnInsertType
    <2> HIDE DEF kept
    <2>3. table' = [table EXCEPT !.owner = SetOwner(@, o), !.data[k] = v,
                                 !.indexes = OnInsert(kept, k, v)]
        BY <1>3 DEF TableInsert, kept
    <2>4. /\ [table.data EXCEPT ![k] = v] \in [Key -> Option(Value)]
          /\ SetOwner(table.owner, o) \in Option(Owner)
        BY DEF SetOwner, Option
    <2>5. singletons' = singletons
        BY <1>3 DEF TableInsert
    <2> QED BY <2>2, <2>3, <2>4, <2>5
<1>4. ASSUME NEW k \in Key, NEW v \in Value, TableMutate(o, k, v)
      PROVE  StorageTypeOK'
    <2>1. CASE table.data[k] = None
        BY <1>4, <2>1 DEF TableMutate
    <2>2. CASE table.data[k] # None
        <3>1. OnInsert(OnRemove(table.indexes, table.data[k]), k, v) \in IndexTables
            BY <2>2, OnRemoveType, OnInsertType DEF Option
        <3> QED BY <1>4, <2>2, <3>1 DEF TableMutate, Option
    <2> QED BY <2>1, <2>2
<1>5. ASSUME NEW k \in Key, TableRemove(o, k)
      PROVE  StorageTypeOK'
    <2>1. CASE table.data[k] = None
        BY <1>5, <2>1 DEF TableRemove
    <2>2. CASE table.data[k] # None
        <3>1. OnRemove(table.indexes, table.data[k]) \in IndexTables
            BY <2>2, OnRemoveType DEF Option
        <3> QED BY <1>5, <2>2, <3>1 DEF TableRemove, Option
    <2> QED BY <2>1, <2>2
<1>6. CASE TableForEachMut(o)
    BY <1>6, EditedType, RebuiltType DEF TableForEachMut, EditAndRebuild, Rows
<1> QED BY <1>1, <1>2, <1>3, <1>4, <1>5, <1>6 DEF TableCall

LEMMA IndexedMutateType ==
    ASSUME StorageTypeOK, NEW o \in Owner, NEW i \in Index,
           NEW ik \in IndexKey, NEW v \in Value, IndexedMutate(o, i, ik, v)
    PROVE  StorageTypeOK'
<1> DEFINE k == table.indexes[i][ik]
           old == table.data[k]
<1> USE DEF StorageTypeOK, Table
<1>1. CASE k = None \/ old = None
    BY <1>1 DEF IndexedMutate
<1>2. CASE k # None /\ old # None
    <2>1. k \in Key /\ old \in Value
        BY <1>2 DEF IndexTables, Option
    <2>2. PICK keys \in [Index -> ReadBack(i, ik, old)] :
            table' = [table EXCEPT
                !.data[k] = v,
                !.indexes = [j \in Index |->
                    OnInsert(OnRemove(@, old), keys[j], v)[j]]]
        BY <1>2 DEF IndexedMutate
    <2>3. \A j \in Index : keys[j] \in Key
        BY <2>1 DEF ReadBack
    <2>4. \A j \in Index :
            OnInsert(OnRemove(table.indexes, old), keys[j], v) \in IndexTables
        BY <2>1, <2>3, OnRemoveType, OnInsertType
    <2> DEFINE indexes == [j \in Index |->
                    OnInsert(OnRemove(table.indexes, old), keys[j], v)[j]]
    <2>5. indexes \in IndexTables
        BY <2>4 DEF IndexTables
    <2>6. [table.data EXCEPT ![k] = v] \in [Key -> Option(Value)]
        BY <2>1 DEF Option
    <2>7. singletons' = singletons
        BY DEF IndexedMutate
    <2>8. table' = [table EXCEPT !.data[k] = v, !.indexes = indexes]
        BY <2>2
    <2> HIDE DEF indexes, k, old
    <2> QED BY <2>5, <2>6, <2>7, <2>8
<1> QED BY <1>1, <1>2

LEMMA IndexedRemoveType ==
    ASSUME StorageTypeOK, NEW o \in Owner, NEW i \in Index,
           NEW ik \in IndexKey, IndexedRemove(o, i, ik)
    PROVE  StorageTypeOK'
<1> DEFINE k == table.indexes[i][ik]
           cut == [table.indexes EXCEPT ![i][ik] = None]
<1> USE DEF StorageTypeOK, Table
<1>1. cut \in IndexTables
    BY DEF IndexTables, Option
<1>2. CASE k = None
    BY <1>2 DEF IndexedRemove
<1>3. CASE k # None /\ table.data[k] = None
    BY <1>1, <1>3 DEF IndexedRemove
<1>4. CASE k # None /\ table.data[k] # None
    <2>1. k \in Key /\ table.data[k] \in Value
        BY <1>4 DEF IndexTables, Option
    <2>2. OnRemove(cut, table.data[k]) \in IndexTables
        BY <1>1, <2>1, OnRemoveType
    <2>3. [table.data EXCEPT ![k] = None] \in [Key -> Option(Value)]
        BY <2>1 DEF Option
    <2>4. table' = [table EXCEPT !.data[k] = None,
                                 !.indexes = OnRemove(cut, table.data[k])]
        BY <1>4 DEF IndexedRemove
    <2>5. singletons' = singletons
        BY DEF IndexedRemove
    <2> HIDE DEF k, cut
    <2> QED BY <2>2, <2>3, <2>4, <2>5
<1> QED BY <1>2, <1>3, <1>4

LEMMA IndexedCallType ==
    ASSUME StorageTypeOK, NEW o \in Owner, IndexedCall(o)
    PROVE  StorageTypeOK'
<1>1. CASE IndexedInit(o) \/ IndexedClear(o)
    BY <1>1, TableCallType DEF IndexedInit, IndexedClear, TableCall
<1>2. CASE \E k \in Key, v \in Value : IndexedInsert(o, k, v)
    BY <1>2, TableCallType DEF IndexedInsert, TableCall
<1>3. ASSUME NEW i \in Index, IndexedForEachMut(o, i)
      PROVE  StorageTypeOK'
    <2>1. Reached(i) \in SUBSET Key
        BY DEF Reached, Rows
    <2> QED BY <1>3, <2>1, EditedType, RebuiltType
            DEF IndexedForEachMut, EditAndRebuild, StorageTypeOK, Table
<1> QED BY <1>1, <1>2, <1>3, IndexedMutateType, IndexedRemoveType DEF IndexedCall

LEMMA IndexTableCallType ==
    ASSUME StorageTypeOK, NEW o \in Owner, IndexTableCall(o)
    PROVE  StorageTypeOK'
<1> PICK i \in Index :
        \/ IndexTableInit(o, i)
        \/ IndexTableClear(o, i)
        \/ \E ik \in IndexKey, k \in Key : IndexTableInsert(o, i, ik, k)
        \/ IndexTableEdit(o, i)
        \/ \E ik \in IndexKey : IndexTableRemove(o, i, ik)
    BY DEF IndexTableCall
<1> USE DEF StorageTypeOK, Table, IndexTables, Option
<1>1. CASE IndexTableInit(o, i)
    BY <1>1 DEF IndexTableInit, SetOwner
<1>2. CASE IndexTableClear(o, i)
    BY <1>2 DEF IndexTableClear, SetOwner, NoEntries
<1>3. ASSUME NEW ik \in IndexKey, NEW k \in Key, IndexTableInsert(o, i, ik, k)
      PROVE  StorageTypeOK'
    BY <1>3 DEF IndexTableInsert, SetOwner
<1>4. CASE IndexTableEdit(o, i)
    <2>1. PICK entries \in [IndexKey -> Option(Key)] :
            table' = [table EXCEPT !.indexes[i] = entries]
        BY <1>4 DEF IndexTableEdit
    <2>2. [table.indexes EXCEPT ![i] = entries] \in IndexTables
        BY <2>1
    <2>3. singletons' = singletons
        BY <1>4 DEF IndexTableEdit
    <2> QED BY <2>1, <2>2, <2>3
<1>5. ASSUME NEW ik \in IndexKey, IndexTableRemove(o, i, ik)
      PROVE  StorageTypeOK'
    BY <1>5 DEF IndexTableRemove
<1> QED BY <1>1, <1>2, <1>3, <1>4, <1>5

LEMMA SingletonCallType ==
    ASSUME StorageTypeOK, NEW o \in Owner, SingletonCall(o)
    PROVE  StorageTypeOK'
<1> USE DEF StorageTypeOK, SinEntry, SetSingleton, Option
<1>1. ASSUME NEW s \in Singleton, NEW v \in SinVal, SingletonInsert(o, s, v)
      PROVE  StorageTypeOK'
    BY <1>1 DEF SingletonInsert
<1>2. ASSUME NEW s \in Singleton, NEW v \in SinVal, SingletonMutate(o, s, v)
      PROVE  StorageTypeOK'
    BY <1>2 DEF SingletonMutate, storageVars
<1>3. ASSUME NEW s \in Singleton, SingletonRemove(o, s)
      PROVE  StorageTypeOK'
    BY <1>3 DEF SingletonRemove, NoSinEntry
<1>4. ASSUME NEW s \in Singleton, SingletonClear(o, s)
      PROVE  StorageTypeOK'
    BY <1>4 DEF SingletonClear
<1> QED BY <1>1, <1>2, <1>3, <1>4 DEF SingletonCall

LEMMA PanicsType ==
    ASSUME StorageTypeOK, NEW o \in Owner, Panics(o)
    PROVE  StorageTypeOK'
<1>1. CASE OwnershipViolation(o)
    BY <1>1 DEF OwnershipViolation, StorageTypeOK, storageVars
<1>2. ASSUME NEW k \in Key, NEW v \in Value, TableMutatePanics(o, k, v)
      PROVE  StorageTypeOK'
    <2>1. OnRemove(table.indexes, table.data[k]) \in IndexTables
        BY <1>2, OnRemoveType DEF TableMutatePanics, StorageTypeOK, Table, Option
    <2> QED BY <1>2, <2>1 DEF TableMutatePanics, StorageTypeOK, Table, Option
<1>3. ASSUME NEW i \in Index, NEW ik \in IndexKey, NEW v \in Value,
             IndexedMutatePanics(o, i, ik, v)
      PROVE  StorageTypeOK'
    <2>1. table.indexes[i][ik] \in Key
        BY <1>3 DEF IndexedMutatePanics, StorageTypeOK, Table, IndexTables, Option
    <2> QED BY <1>2, <1>3, <2>1 DEF IndexedMutatePanics
<1>4. ASSUME NEW rows \in SUBSET Key, EditPanics(o, rows)
      PROVE  StorageTypeOK'
    BY <1>4, EditedType DEF EditPanics, StorageTypeOK, Table
<1>5. CASE TableForEachMutPanics(o)
    BY <1>4, <1>5 DEF TableForEachMutPanics, Rows
<1>6. ASSUME NEW i \in Index, IndexedForEachMutPanics(o, i)
      PROVE  StorageTypeOK'
    BY <1>4, <1>6 DEF IndexedForEachMutPanics, Reached, Rows
<1>7. ASSUME NEW s \in Singleton, NEW v \in SinVal, SingletonMutatePanics(o, s, v)
      PROVE  StorageTypeOK'
    BY <1>7, SingletonCallType DEF SingletonMutatePanics, SingletonCall
<1>8. ASSUME NEW i \in Index, IndexTableEditPanics(o, i)
      PROVE  StorageTypeOK'
    BY <1>8, IndexTableCallType DEF IndexTableEditPanics, IndexTableCall
<1> QED BY <1>1, <1>2, <1>3, <1>5, <1>6, <1>7, <1>8 DEF Panics

LEMMA CompletesType ==
    ASSUME StorageTypeOK, NEW o \in Owner, Completes(o)
    PROVE  StorageTypeOK'
BY TableCallType, IndexedCallType, IndexTableCallType, SingletonCallType
   DEF Completes

----------------------------------------------------------------------------
(* Calls by any owners, in any order: some complete, others panic, and what  *)
(* comes after a panic is left open.  StorageSpec is one such sequence, and  *)
(* so is, in KvStoreProofs, what threads do to a shared store.               *)

AnyCall == \E o \in Owner : Completes(o) \/ Panics(o)
AnyCalls == StorageInit /\ [][AnyCall]_storageVars

LEMMA StorageIsCalls == StorageSpec => AnyCalls
<1>1. [StorageNext]_storageVars => [AnyCall]_storageVars
    BY DEF StorageNext, AnyCall
<1> QED BY <1>1, PTL DEF StorageSpec, AnyCalls

LEMMA CallsType == AnyCalls => []StorageTypeOK
<1>1. StorageTypeOK /\ [AnyCall]_storageVars => StorageTypeOK'
    <2> SUFFICES ASSUME StorageTypeOK, [AnyCall]_storageVars
                 PROVE  StorageTypeOK'
        OBVIOUS
    <2>1. CASE UNCHANGED storageVars
        BY <2>1 DEF storageVars, StorageTypeOK
    <2>2. ASSUME NEW o \in Owner, Completes(o) \/ Panics(o)
          PROVE  StorageTypeOK'
        BY <2>2, CompletesType, PanicsType
    <2> QED BY <2>1, <2>2 DEF AnyCall
<1> QED BY <1>1, InitType, PTL DEF AnyCalls

\* Table and singletons keep their types in every run of calls and caught
\* panics, with any mixture of owners.
THEOREM TypeCorrect == StorageSpec => []StorageTypeOK
BY StorageIsCalls, CallsType, PTL
=============================================================================
