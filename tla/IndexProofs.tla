----------------------------- MODULE IndexProofs -----------------------------
(* Theorems about the indexes of Storage: no entry is ever dangling or      *)
(* stale, and with distinct fields no row is ever missing.                  *)
EXTENDS StorageProofs

\* A store whose callers catch no panics and leave the index tables alone, in
\* a build where mutate reads the dropped base_key back intact.
Undisturbed == ~CatchUnwind /\ ~DirectIndexAccess /\ StaleKeyIntact

Unindexed(indexes, k) ==
    \A i \in Index, ik \in IndexKey : indexes[i][ik] # k

Data == [Key -> Option(Value)]

----------------------------------------------------------------------------
(* One row leaves or enters the indexes.                                    *)

\* The entries of a sound index that lead to a row are those under its own
\* fields, so on_remove takes all of them away.
LEMMA OnRemoveSound ==
    ASSUME NEW ix \in IndexTables, NEW data \in Data, NEW k \in Key,
           Sound(ix, data), data[k] # None
    PROVE  /\ Sound(OnRemove(ix, data[k]), data)
           /\ Unindexed(OnRemove(ix, data[k]), k)
<1>1. data[k] \in Value
    BY DEF Data, Option
<1>2. ASSUME NEW i \in Index, NEW ik \in IndexKey
      PROVE  OnRemove(ix, data[k])[i][ik] =
                IF ik = field[i][data[k]] THEN None ELSE ix[i][ik]
    BY <1>1, FieldAssumption DEF OnRemove, IndexTables
<1>3. Sound(OnRemove(ix, data[k]), data)
    BY <1>2 DEF Sound
<1>4. Unindexed(OnRemove(ix, data[k]), k)
    BY <1>2, NoneAssumption DEF Sound, Unindexed
<1> QED BY <1>3, <1>4

LEMMA AbsentUnindexed ==
    ASSUME NEW ix \in IndexTables, NEW data \in Data, NEW k \in Key,
           Sound(ix, data), data[k] = None
    PROVE  Unindexed(ix, k)
BY NoneAssumption DEF Sound, Unindexed

LEMMA OnInsertSound ==
    ASSUME NEW ix \in IndexTables, NEW data \in Data, NEW k \in Key,
           NEW v \in Value, Sound(ix, data), Unindexed(ix, k)
    PROVE  Sound(OnInsert(ix, k, v), [data EXCEPT ![k] = v])
<1>1. ASSUME NEW i \in Index, NEW ik \in IndexKey
      PROVE  OnInsert(ix, k, v)[i][ik] =
                IF ik = field[i][v] THEN k ELSE ix[i][ik]
    BY FieldAssumption DEF OnInsert, IndexTables
<1>2. \A i \in Index, ik \in IndexKey : ix[i][ik] \in Key \cup {None}
    BY DEF IndexTables, Option
<1> QED BY <1>1, <1>2, NoneAssumption DEF Sound, Unindexed, Data

LEMMA UnindexedGoes ==
    ASSUME NEW ix \in IndexTables, NEW data \in Data, NEW k \in Key,
           NEW v \in Option(Value), Sound(ix, data), Unindexed(ix, k)
    PROVE  Sound(ix, [data EXCEPT ![k] = v])
<1>1. \A i \in Index, ik \in IndexKey : ix[i][ik] \in Key \cup {None}
    BY DEF IndexTables, Option
<1> QED BY <1>1 DEF Sound, Unindexed, Data

LEMMA RebuiltSound ==
    ASSUME NEW data \in Data, NEW ix \in Rebuilt(data)
    PROVE  Sound(ix, data)
<1> SUFFICES ASSUME NEW i \in Index, NEW ik \in IndexKey, ix[i][ik] # None
             PROVE  ix[i][ik] \in RowsWith(data, i, ik)
    BY DEF Sound, RowsWith, Rows
<1> QED BY RebuiltEntry

\* The common core of insert and mutate: whatever stood at k is replaced.
LEMMA ReplaceSound ==
    ASSUME NEW ix \in IndexTables, NEW data \in Data, NEW k \in Key,
           NEW v \in Value, Sound(ix, data)
    PROVE  Sound(OnInsert(IF data[k] = None THEN ix ELSE OnRemove(ix, data[k]),
                          k, v),
                 [data EXCEPT ![k] = v])
<1>1. CASE data[k] = None
    BY <1>1, AbsentUnindexed, OnInsertSound
<1>2. CASE data[k] # None
    <2>1. OnRemove(ix, data[k]) \in IndexTables
        BY <1>2, OnRemoveType DEF Data, Option
    <2> QED BY <1>2, <2>1, OnRemoveSound, OnInsertSound
<1> QED BY <1>1, <1>2

LEMMA RemoveSound ==
    ASSUME NEW ix \in IndexTables, NEW data \in Data, NEW k \in Key,
           Sound(ix, data), data[k] # None
    PROVE  Sound(OnRemove(ix, data[k]), [data EXCEPT ![k] = None])
<1>1. OnRemove(ix, data[k]) \in IndexTables
    BY OnRemoveType DEF Data, Option
<1> QED BY <1>1, OnRemoveSound, UnindexedGoes DEF Option

\* What the lemmas need of the type invariant.
LEMMA Parts ==
    ASSUME StorageTypeOK
    PROVE  table.indexes \in IndexTables /\ table.data \in Data
BY DEF StorageTypeOK, Table, Data

----------------------------------------------------------------------------
(* Every call keeps the indexes sound, whatever rows share.                 *)

LEMMA EditAndRebuildSound ==
    ASSUME StorageTypeOK, NEW o \in Owner, NEW rows \in SUBSET Key,
           EditAndRebuild(o, rows)
    PROVE  IndexSound'
<1>1. PICK data \in Edited(rows) : \E indexes \in Rebuilt(data) :
        table' = [table EXCEPT !.data = data, !.indexes = indexes]
    BY DEF EditAndRebuild
<1> PICK indexes \in Rebuilt(data) :
        table' = [table EXCEPT !.data = data, !.indexes = indexes]
    BY <1>1
<1>2. data \in Data
    BY EditedType DEF Data
<1>3. table'.data = data /\ table'.indexes = indexes
    BY DEF StorageTypeOK, Table
<1> QED BY <1>2, <1>3, RebuiltSound DEF IndexSound

LEMMA TableCallSound ==
    ASSUME StorageTypeOK, IndexSound, NEW o \in Owner, TableCall(o)
    PROVE  IndexSound'
<1> USE Parts DEF IndexSound
<1>0. table \in Table
    BY DEF StorageTypeOK
<1>1. CASE TableInit(o)
    BY <1>0, <1>1 DEF TableInit, Table
<1>2. CASE TableClear(o)
    BY <1>0, <1>2 DEF TableClear, Table, Sound, NoEntries
<1>3. ASSUME NEW k \in Key, NEW v \in Value, TableInsert(o, k, v)
      PROVE  IndexSound'
    <2>1. /\ table'.data = [table.data EXCEPT ![k] = v]
          /\ table'.indexes = OnInsert(
                IF table.data[k] = None THEN table.indexes
                ELSE OnRemove(table.indexes, table.data[k]), k, v)
        BY <1>0, <1>3 DEF TableInsert, Table
    <2> QED BY <2>1, ReplaceSound
<1>4. ASSUME NEW k \in Key, NEW v \in Value, TableMutate(o, k, v)
      PROVE  IndexSound'
    <2>1. CASE table.data[k] = None
        BY <1>4, <2>1 DEF TableMutate
    <2>2. CASE table.data[k] # None
        <3>1. /\ table'.data = [table.data EXCEPT ![k] = v]
              /\ table'.indexes = OnInsert(OnRemove(table.indexes, table.data[k]), k, v)
            BY <1>0, <1>4, <2>2 DEF TableMutate, Table
        <3> QED BY <2>2, <3>1, ReplaceSound
    <2> QED BY <2>1, <2>2
<1>5. ASSUME NEW k \in Key, TableRemove(o, k)
      PROVE  IndexSound'
    <2>1. CASE table.data[k] = None
        BY <1>5, <2>1 DEF TableRemove
    <2>2. CASE table.data[k] # None
        <3>1. /\ table'.data = [table.data EXCEPT ![k] = None]
              /\ table'.indexes = OnRemove(table.indexes, table.data[k])
            BY <1>0, <1>5, <2>2 DEF TableRemove, Table
        <3> QED BY <2>2, <3>1, RemoveSound
    <2> QED BY <2>1, <2>2
<1>6. CASE TableForEachMut(o)
    BY <1>6, EditAndRebuildSound DEF TableForEachMut, Rows
<1> QED BY <1>1, <1>2, <1>3, <1>4, <1>5, <1>6 DEF TableCall

\* With the key read back intact, mutate through an index is mutate.
LEMMA IndexedMutateIsMutate ==
    ASSUME StorageTypeOK, StaleKeyIntact, NEW o \in Owner, NEW i \in Index,
           NEW ik \in IndexKey, NEW v \in Value, IndexedMutate(o, i, ik, v)
    PROVE  \/ UNCHANGED storageVars
           \/ \E k \in Key : TableMutate(o, k, v)
<1> DEFINE k == table.indexes[i][ik]
           old == table.data[k]
<1>0. table \in Table
    BY DEF StorageTypeOK
<1>1. CASE k = None \/ old = None
    BY <1>1 DEF IndexedMutate, storageVars
<1>2. CASE k # None /\ old # None
    <2>1. k \in Key
        BY <1>0, <1>2 DEF Table, IndexTables, Option
    <2>2. PICK keys \in [Index -> ReadBack(i, ik, old)] :
            table' = [table EXCEPT
                !.data[k] = v,
                !.indexes = [j \in Index |->
                    OnInsert(OnRemove(@, old), keys[j], v)[j]]]
        BY <1>2 DEF IndexedMutate
    <2>3. \A j \in Index : keys[j] = k
        BY DEF ReadBack
    <2>4. [j \in Index |-> OnInsert(OnRemove(table.indexes, old), keys[j], v)[j]]
            = OnInsert(OnRemove(table.indexes, old), k, v)
        BY <2>3 DEF OnInsert
    <2>5. table' = [table EXCEPT
                !.data[k] = v,
                !.indexes = OnInsert(OnRemove(@, old), k, v)]
        BY <2>2, <2>4
    <2>6. /\ AssertOwner(table.owner, o)
          /\ Distinct([table.data EXCEPT ![k] = v])
          /\ UNCHANGED singletons
        BY <1>2 DEF IndexedMutate
    <2> HIDE DEF k
    <2> QED BY <1>2, <2>1, <2>5, <2>6 DEF TableMutate
<1> QED BY <1>1, <1>2

\* remove through a sound index takes out the entry that on_remove would.
LEMMA IndexedRemoveIsRemove ==
    ASSUME StorageTypeOK, IndexSound, NEW o \in Owner, NEW i \in Index,
           NEW ik \in IndexKey, IndexedRemove(o, i, ik)
    PROVE  \/ UNCHANGED storageVars
           \/ /\ table.indexes[i][ik] \in Key
              /\ TableRemove(o, table.indexes[i][ik])
<1> DEFINE k == table.indexes[i][ik]
           cut == [table.indexes EXCEPT ![i][ik] = None]
<1>0. table \in Table
    BY DEF StorageTypeOK
<1>1. CASE k = None
    BY <1>1 DEF IndexedRemove, storageVars
<1>2. CASE k # None
    <2>1. /\ k \in Key
          /\ table.data[k] # None
          /\ field[i][table.data[k]] = ik
        BY <1>0, <1>2 DEF Table, IndexTables, Option, IndexSound, Sound
    <2>2. OnRemove(cut, table.data[k]) = OnRemove(table.indexes, table.data[k])
        BY <1>0, <2>1 DEF OnRemove, Table, IndexTables
    <2>3. table' = [table EXCEPT !.data[k] = None,
                                 !.indexes = OnRemove(cut, table.data[k])]
        BY <1>2, <2>1 DEF IndexedRemove
    <2>4. AssertOwner(table.owner, o) /\ UNCHANGED singletons
        BY <1>2 DEF IndexedRemove
    <2> HIDE DEF k, cut
    <2>5. table' = [table EXCEPT !.data[k] = None,
                                 !.indexes = OnRemove(@, table.data[k])]
        BY <2>2, <2>3
    <2>6. TableRemove(o, k)
        BY <2>1, <2>4, <2>5 DEF TableRemove
    <2> QED BY <2>1, <2>6 DEF k
<1> QED BY <1>1, <1>2

LEMMA IndexedCallSound ==
    ASSUME StorageTypeOK, IndexSound, StaleKeyIntact, NEW o \in Owner,
           IndexedCall(o)
    PROVE  IndexSound'
<1>1. UNCHANGED storageVars => IndexSound'
    BY DEF storageVars, IndexSound
<1>2. CASE IndexedInit(o) \/ IndexedClear(o)
             \/ \E k \in Key, v \in Value : IndexedInsert(o, k, v)
    BY <1>2, TableCallSound DEF IndexedInit, IndexedClear, IndexedInsert, TableCall
<1>3. ASSUME NEW i \in Index, NEW ik \in IndexKey, NEW v \in Value,
             IndexedMutate(o, i, ik, v)
      PROVE  IndexSound'
    BY <1>1, <1>3, IndexedMutateIsMutate, TableCallSound DEF TableCall
<1>4. ASSUME NEW i \in Index, NEW ik \in IndexKey, IndexedRemove(o, i, ik)
      PROVE  IndexSound'
    BY <1>1, <1>4, IndexedRemoveIsRemove, TableCallSound DEF TableCall
<1>5. ASSUME NEW i \in Index, IndexedForEachMut(o, i)
      PROVE  IndexSound'
    BY <1>5, EditAndRebuildSound DEF IndexedForEachMut, Reached, Rows
<1> QED BY <1>2, <1>3, <1>4, <1>5 DEF IndexedCall

LEMMA SingletonCallKeepsTable ==
    ASSUME NEW o \in Owner, SingletonCall(o)
    PROVE  UNCHANGED table
BY DEF SingletonCall, SingletonInsert, SingletonMutate, SingletonRemove,
       SingletonClear, SetSingleton, storageVars

LEMMA CompletesSound ==
    ASSUME StorageTypeOK, IndexSound, StaleKeyIntact, ~DirectIndexAccess,
           NEW o \in Owner, Completes(o)
    PROVE  IndexSound'
<1>1. UNCHANGED table => IndexSound'
    BY DEF IndexSound
<1> QED BY <1>1, TableCallSound, IndexedCallSound, SingletonCallKeepsTable
        DEF Completes, IndexTableCall

\* However rows share fields, no index of an undisturbed store ever has an
\* entry that leads nowhere or to a row with another field.
THEOREM IndexesStaySound == Undisturbed => (StorageSpec => []IndexSound)
<1> SUFFICES ASSUME Undisturbed PROVE StorageSpec => []IndexSound
    OBVIOUS
<1>1. StorageInit => IndexSound
    BY DEF StorageInit, IndexSound, Sound, NoEntries
<1>2. StorageTypeOK /\ IndexSound /\ [StorageNext]_storageVars => IndexSound'
    BY CompletesSound DEF StorageNext, storageVars, IndexSound, Undisturbed
<1> QED BY <1>1, <1>2, TypeCorrect, PTL DEF StorageSpec

----------------------------------------------------------------------------
(* With distinct fields no row is ever missing from an index.               *)

\* Exactness: what an index has is sound, it has all rows, and rows differ.
Exact(indexes, data) ==
    Sound(indexes, data) /\ Complete(indexes, data) /\ Distinct(data)

LEMMA RemoveExact ==
    ASSUME UniqueFields, NEW ix \in IndexTables, NEW data \in Data,
           NEW k \in Key, Exact(ix, data), data[k] # None
    PROVE  Exact(OnRemove(ix, data[k]), [data EXCEPT ![k] = None])
<1> DEFINE new == [data EXCEPT ![k] = None]
<1>1. data[k] \in Value
    BY DEF Data, Option
<1>2. ASSUME NEW i \in Index, NEW ik \in IndexKey
      PROVE  OnRemove(ix, data[k])[i][ik] =
                IF ik = field[i][data[k]] THEN None ELSE ix[i][ik]
    BY <1>1, FieldAssumption DEF OnRemove, IndexTables
<1>3. ASSUME NEW i \in Index, NEW j \in Rows(new)
      PROVE  /\ j # k /\ new[j] = data[j] /\ j \in Rows(data)
             /\ field[i][new[j]] \in IndexKey
             /\ field[i][new[j]] # field[i][data[k]]
    <2>1. j # k /\ new[j] = data[j] /\ j \in Rows(data)
        BY DEF Rows, Data
    <2>2. data[j] \in Value
        BY <2>1 DEF Rows, Data, Option
    <2> QED BY <2>1, <2>2, FieldAssumption DEF Exact, Distinct, Rows
<1>4. Complete(OnRemove(ix, data[k]), new)
    BY <1>2, <1>3 DEF Complete, Exact
<1>5. Distinct(new)
    BY <1>3 DEF Distinct, Exact
<1>6. Sound(OnRemove(ix, data[k]), new)
    BY RemoveSound DEF Exact
<1> QED BY <1>4, <1>5, <1>6 DEF Exact

LEMMA ReplaceExact ==
    ASSUME UniqueFields, NEW ix \in IndexTables, NEW data \in Data,
           NEW k \in Key, NEW v \in Value, Exact(ix, data),
           Distinct([data EXCEPT ![k] = v])
    PROVE  Exact(OnInsert(IF data[k] = None THEN ix ELSE OnRemove(ix, data[k]),
                          k, v),
                 [data EXCEPT ![k] = v])
<1> DEFINE new == [data EXCEPT ![k] = v]
           kept == IF data[k] = None THEN ix ELSE OnRemove(ix, data[k])
<1>1. kept \in IndexTables
    BY OnRemoveType DEF Data, Option
<1>2. ASSUME NEW i \in Index, NEW j \in Rows(new), j # k
      PROVE  kept[i][field[i][data[j]]] = j
    <2>1. j \in Rows(data)
        BY <1>2 DEF Rows, Data
    <2>2. CASE data[k] = None
        BY <2>1, <2>2 DEF Exact, Complete
    <2>3. CASE data[k] # None
        <3>1. Complete(OnRemove(ix, data[k]), [data EXCEPT ![k] = None])
            BY <2>3, RemoveExact DEF Exact
        <3>2. j \in Rows([data EXCEPT ![k] = None])
            BY <1>2, <2>1 DEF Rows, Data
        <3>3. [data EXCEPT ![k] = None][j] = data[j]
            BY <1>2, <2>1 DEF Rows, Data
        <3> QED BY <2>3, <3>1, <3>2, <3>3 DEF Complete
    <2> QED BY <2>2, <2>3
<1> HIDE DEF kept
<1>3. ASSUME NEW i \in Index, NEW ik \in IndexKey
      PROVE  OnInsert(kept, k, v)[i][ik] =
                IF ik = field[i][v] THEN k ELSE kept[i][ik]
    BY <1>1, FieldAssumption DEF OnInsert, IndexTables
<1>4. ASSUME NEW i \in Index, NEW j \in Rows(new)
      PROVE  OnInsert(kept, k, v)[i][field[i][new[j]]] = j
    <2>1. new[j] \in Value /\ field[i][new[j]] \in IndexKey
        <3>1. new \in Data
            BY DEF Data, Option
        <3> QED BY <3>1, FieldAssumption DEF Rows, Data, Option
    <2>2. CASE j = k
        BY <1>3, <2>1, <2>2 DEF Data
    <2>3. CASE j # k
        <3>1. new[j] = data[j]
            BY <2>3 DEF Rows, Data
        <3>2. k \in Rows(new) /\ new[k] = v
            BY NoneAssumption DEF Rows, Data
        <3>3. field[i][new[j]] # field[i][v]
            BY <2>3, <3>2 DEF Distinct
        <3>4. OnInsert(kept, k, v)[i][field[i][new[j]]] = kept[i][field[i][new[j]]]
            BY <1>3, <2>1, <3>3
        <3>5. kept[i][field[i][data[j]]] = j
            BY <1>2, <2>3
        <3> QED BY <3>1, <3>4, <3>5
    <2> QED BY <2>2, <2>3
<1>5. Complete(OnInsert(kept, k, v), new)
    BY <1>4 DEF Complete
<1>6. Sound(OnInsert(kept, k, v), new)
    BY ReplaceSound DEF Exact, kept
<1> QED BY <1>5, <1>6 DEF Exact, kept

LEMMA RebuiltExact ==
    ASSUME UniqueFields, NEW data \in Data, Distinct(data), NEW ix \in Rebuilt(data)
    PROVE  Exact(ix, data)
<1>1. ASSUME NEW i \in Index, NEW k \in Rows(data)
      PROVE  ix[i][field[i][data[k]]] = k
    <2> DEFINE ik == field[i][data[k]]
    <2>1. ik \in IndexKey
        BY FieldAssumption DEF Rows, Data, Option
    <2>2. k \in RowsWith(data, i, ik)
        BY DEF RowsWith
    <2>3. ix[i][ik] \in RowsWith(data, i, ik)
        BY <2>1, <2>2, RebuiltEntry
    <2>4. \A j \in RowsWith(data, i, ik) : j = k
        BY <2>2 DEF RowsWith, Distinct
    <2> QED BY <2>3, <2>4
<1> QED BY <1>1, RebuiltSound DEF Exact, Complete

ExactInv == Exact(table.indexes, table.data)

LEMMA EditAndRebuildExact ==
    ASSUME StorageTypeOK, UniqueFields, NEW o \in Owner,
           NEW rows \in SUBSET Key, EditAndRebuild(o, rows)
    PROVE  ExactInv'
<1>1. PICK data \in Edited(rows) :
        /\ Distinct(data)
        /\ \E indexes \in Rebuilt(data) :
              table' = [table EXCEPT !.data = data, !.indexes = indexes]
    BY DEF EditAndRebuild
<1> PICK indexes \in Rebuilt(data) :
        table' = [table EXCEPT !.data = data, !.indexes = indexes]
    BY <1>1
<1>2. data \in Data
    BY EditedType DEF Data
<1>3. table'.data = data /\ table'.indexes = indexes
    BY DEF StorageTypeOK, Table
<1> QED BY <1>1, <1>2, <1>3, RebuiltExact DEF ExactInv

LEMMA TableCallExact ==
    ASSUME StorageTypeOK, UniqueFields, ExactInv, NEW o \in Owner, TableCall(o)
    PROVE  ExactInv'
<1> USE Parts DEF ExactInv
<1>0. table \in Table
    BY DEF StorageTypeOK
<1>1. CASE TableInit(o)
    BY <1>0, <1>1 DEF TableInit, Table
<1>2. CASE TableClear(o)
    <2>1. /\ table'.data = [k \in Key |-> None]
          /\ table'.indexes = NoEntries
        BY <1>0, <1>2 DEF TableClear, Table
    <2> QED BY <2>1 DEF Exact, Sound, Complete, Distinct, Rows, NoEntries
<1>3. ASSUME NEW k \in Key, NEW v \in Value, TableInsert(o, k, v)
      PROVE  ExactInv'
    <2>1. /\ Distinct([table.data EXCEPT ![k] = v])
          /\ table'.data = [table.data EXCEPT ![k] = v]
          /\ table'.indexes = OnInsert(
                IF table.data[k] = None THEN table.indexes
                ELSE OnRemove(table.indexes, table.data[k]), k, v)
        BY <1>0, <1>3 DEF TableInsert, Table
    <2> QED BY <2>1, ReplaceExact
<1>4. ASSUME NEW k \in Key, NEW v \in Value, TableMutate(o, k, v)
      PROVE  ExactInv'
    <2>1. CASE table.data[k] = None
        BY <1>4, <2>1 DEF TableMutate
    <2>2. CASE table.data[k] # None
        <3>1. /\ Distinct([table.data EXCEPT ![k] = v])
              /\ table'.data = [table.data EXCEPT ![k] = v]
              /\ table'.indexes = OnInsert(OnRemove(table.indexes, table.data[k]), k, v)
            BY <1>0, <1>4, <2>2 DEF TableMutate, Table
        <3> QED BY <2>2, <3>1, ReplaceExact
    <2> QED BY <2>1, <2>2
<1>5. ASSUME NEW k \in Key, TableRemove(o, k)
      PROVE  ExactInv'
    <2>1. CASE table.data[k] = None
        BY <1>5, <2>1 DEF TableRemove
    <2>2. CASE table.data[k] # None
        <3>1. /\ table'.data = [table.data EXCEPT ![k] = None]
              /\ table'.indexes = OnRemove(table.indexes, table.data[k])
            BY <1>0, <1>5, <2>2 DEF TableRemove, Table
        <3> QED BY <2>2, <3>1, RemoveExact
    <2> QED BY <2>1, <2>2
<1>6. CASE TableForEachMut(o)
    BY <1>6, EditAndRebuildExact DEF TableForEachMut, Rows
<1> QED BY <1>1, <1>2, <1>3, <1>4, <1>5, <1>6 DEF TableCall

LEMMA IndexedCallExact ==
    ASSUME StorageTypeOK, UniqueFields, ExactInv, StaleKeyIntact,
           NEW o \in Owner, IndexedCall(o)
    PROVE  ExactInv'
<1>1. UNCHANGED storageVars => ExactInv'
    BY DEF storageVars, ExactInv
<1>2. CASE IndexedInit(o) \/ IndexedClear(o)
             \/ \E k \in Key, v \in Value : IndexedInsert(o, k, v)
    BY <1>2, TableCallExact DEF IndexedInit, IndexedClear, IndexedInsert, TableCall
<1>3. ASSUME NEW i \in Index, NEW ik \in IndexKey, NEW v \in Value,
             IndexedMutate(o, i, ik, v)
      PROVE  ExactInv'
    BY <1>1, <1>3, IndexedMutateIsMutate, TableCallExact DEF TableCall
<1>4. ASSUME NEW i \in Index, NEW ik \in IndexKey, IndexedRemove(o, i, ik)
      PROVE  ExactInv'
    <2>1. IndexSound
        BY DEF ExactInv, Exact, IndexSound
    <2> QED BY <1>1, <1>4, <2>1, IndexedRemoveIsRemove, TableCallExact DEF TableCall
<1>5. ASSUME NEW i \in Index, IndexedForEachMut(o, i)
      PROVE  ExactInv'
    BY <1>5, EditAndRebuildExact DEF IndexedForEachMut, Reached, Rows
<1> QED BY <1>2, <1>3, <1>4, <1>5 DEF IndexedCall

LEMMA CompletesExact ==
    ASSUME StorageTypeOK, UniqueFields, ExactInv, StaleKeyIntact,
           ~DirectIndexAccess, NEW o \in Owner, Completes(o)
    PROVE  ExactInv'
<1>1. UNCHANGED table => ExactInv'
    BY DEF ExactInv
<1> QED BY <1>1, TableCallExact, IndexedCallExact, SingletonCallKeepsTable
        DEF Completes, IndexTableCall

LEMMA InitExact == StorageInit => ExactInv
BY DEF StorageInit, ExactInv, Exact, Sound, Complete, Distinct, Rows, NoEntries

LEMMA ExactStays ==
    ASSUME Undisturbed, UniqueFields
    PROVE  StorageSpec => []ExactInv
<1>1. StorageTypeOK /\ ExactInv /\ [StorageNext]_storageVars => ExactInv'
    BY CompletesExact DEF StorageNext, storageVars, ExactInv, Undisturbed
<1> QED BY <1>1, InitExact, TypeCorrect, PTL DEF StorageSpec

\* While callers keep indexed fields distinct, every row of an undisturbed
\* store is found through every index under its own field.
THEOREM IndexesStayComplete ==
    Undisturbed /\ UniqueFields => (StorageSpec => []IndexComplete)
<1> SUFFICES ASSUME Undisturbed, UniqueFields
             PROVE  StorageSpec => []IndexComplete
    OBVIOUS
<1>1. ExactInv => IndexComplete
    BY DEF ExactInv, Exact, IndexComplete
<1> QED BY <1>1, ExactStays, PTL
=============================================================================
