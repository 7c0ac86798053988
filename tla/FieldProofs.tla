----------------------------- MODULE FieldProofs -----------------------------
(* Theorems that relate a table with indexes to a table that is searched by  *)
(* field (FieldTable), on top of what IndexProofs and OwnershipProofs say of *)
(* its indexes and its owner; and what else every step of Storage keeps to.  *)
EXTENDS IndexProofs, OwnershipProofs, FiniteSetTheorems

----------------------------------------------------------------------------
(* Reads.                                                                   *)

\* With exact indexes the entry for a field is the only row a search finds.
LEMMA EntryIsSearch ==
    ASSUME StorageTypeOK, ExactInv, NEW i \in Index, NEW ik \in IndexKey
    PROVE  LET k == table.indexes[i][ik]
           IN  /\ k = None => Fields!With(i, ik) = {}
               /\ k # None => /\ k \in Key
                              /\ table.data[k] # None
                              /\ Fields!With(i, ik) = {k}
<1> DEFINE k == table.indexes[i][ik]
<1>1. \A j \in Fields!With(i, ik) : j = k /\ j \in Key
    BY DEF Fields!With, Fields!Present, ExactInv, Exact, Complete, Rows
<1>2. CASE k = None
    BY <1>1, <1>2, NoneAssumption
<1>3. CASE k # None
    <2>1. /\ k \in Key
          /\ table.data[k] # None
          /\ field[i][table.data[k]] = ik
        BY <1>3, Parts DEF IndexTables, Option, ExactInv, Exact, Sound
    <2>2. k \in Fields!With(i, ik)
        BY <2>1 DEF Fields!With, Fields!Present
    <2> QED BY <1>1, <1>3, <2>1, <2>2
<1> QED BY <1>2, <1>3

LEMMA ExactGetsSearch ==
    ASSUME StorageTypeOK, ExactInv
    PROVE  IndexedGetSearchesByField
<1> SUFFICES ASSUME NEW i \in Index, NEW ik \in IndexKey
             PROVE  IndexedGet(i, ik) = Fields!GetBy(i, ik)
    BY DEF IndexedGetSearchesByField
<1> DEFINE k == table.indexes[i][ik]
<1>1. CASE k = None
    BY <1>1, EntryIsSearch DEF IndexedGet, Fields!GetBy
<1>2. CASE k # None
    <2>1. Fields!With(i, ik) = {k}
        BY <1>2, EntryIsSearch
    <2>2. (CHOOSE j \in Fields!With(i, ik) : TRUE) = k
        BY <2>1
    <2> QED BY <1>2, <2>1, <2>2 DEF IndexedGet, Fields!GetBy
<1> QED BY <1>1, <1>2

\* While callers keep indexed fields distinct, a get through an index of an
\* undisturbed store returns the row that a search of the table would.
THEOREM GetsSearchByField ==
    Undisturbed /\ UniqueFields => (StorageSpec => []IndexedGetSearchesByField)
<1> SUFFICES ASSUME Undisturbed, UniqueFields
             PROVE  StorageSpec => []IndexedGetSearchesByField
    OBVIOUS
<1> QED BY ExactGetsSearch, ExactStays, TypeCorrect, PTL

\* And for_each through an index calls its closure as often as len, which
\* counts the rows of the base table, says there are rows.
THEOREM IndexedLensAgree ==
    ASSUME IsFiniteSet(Key)
    PROVE  Undisturbed /\ UniqueFields => (StorageSpec => []IndexedLenAgrees)
<1> SUFFICES ASSUME Undisturbed, UniqueFields
             PROVE  StorageSpec => []IndexedLenAgrees
    OBVIOUS
<1>1. ASSUME StorageTypeOK, ExactInv PROVE IndexedLenAgrees
    <2> SUFFICES ASSUME NEW i \in Index
                 PROVE  Cardinality(IndexedVisits(i)) = TableLen
        BY DEF IndexedLenAgrees
    <2> DEFINE rows == Rows(table.data)
               f == [k \in rows |-> field[i][table.data[k]]]
    <2>1. ASSUME NEW k \in rows
          PROVE  /\ f[k] \in IndexedVisits(i)
                 /\ table.indexes[i][f[k]] = k
        <3>1. f[k] \in IndexKey
            BY <1>1, Parts, FieldAssumption DEF Rows, Data, Option
        <3>2. table.indexes[i][f[k]] = k
            BY <1>1 DEF ExactInv, Exact, Complete
        <3> QED BY <3>1, <3>2, NoneAssumption DEF IndexedVisits, IndexedGet, Rows
    <2>2. ASSUME NEW ik \in IndexedVisits(i)
          PROVE  \E k \in rows : f[k] = ik
        <3> DEFINE k == table.indexes[i][ik]
        <3>1. ik \in IndexKey /\ k # None
            BY <2>2 DEF IndexedVisits, IndexedGet
        <3>2. /\ k \in Key
              /\ table.data[k] # None
              /\ field[i][table.data[k]] = ik
            BY <1>1, <3>1, Parts DEF IndexTables, Option, ExactInv, Exact, Sound
        <3> QED BY <3>2 DEF Rows
    <2>3. f \in Bijection(rows, IndexedVisits(i))
        <3>1. f \in [rows -> IndexedVisits(i)]
            BY <2>1
        <3>2. \A j, k \in rows : f[j] = f[k] => j = k
            BY <2>1
        <3> HIDE DEF f, rows
        <3> QED BY <2>2, <3>1, <3>2 DEF Bijection, Injection, IsInjective, Surjection
    <2>4. IsFiniteSet(rows)
        BY FS_Subset DEF Rows
    <2> HIDE DEF f
    <2>5. Cardinality(IndexedVisits(i)) = Cardinality(rows)
        BY <2>3, <2>4, FS_Bijection DEF ExistsBijection
    <2> QED BY <2>5 DEF TableLen
<1> QED BY <1>1, ExactStays, TypeCorrect, PTL

----------------------------------------------------------------------------
(* Writes.                                                                  *)

LEMMA EditIsForEachMut ==
    ASSUME StorageTypeOK, UnownedIsEmpty, DebugAssertions, NEW o \in Owner,
           NEW rows \in SUBSET Rows(table.data), Rows(table.data) # {},
           EditAndRebuild(o, rows) \/ EditPanics(o, rows)
    PROVE  Fields!ForEachMut(o)
<1>1. PICK data \in Edited(rows) :
        \/ table' = [table EXCEPT !.data = data]
        \/ \E indexes \in Rebuilt(data) :
              table' = [table EXCEPT !.data = data, !.indexes = indexes]
    BY DEF EditAndRebuild, EditPanics
<1>2. table'.owner = table.owner /\ table'.data = data
    BY <1>1 DEF StorageTypeOK, Table
<1>3. table.owner = o
    BY AssertedOwner DEF EditAndRebuild, EditPanics
<1>4. PICK g \in [rows -> Value] :
        data = [k \in Key |-> IF k \in rows THEN g[k] ELSE table.data[k]]
    BY DEF Edited
<1> DEFINE visit == [k \in Rows(table.data) |->
                        IF k \in rows THEN g[k] ELSE table.data[k]]
<1>5. visit \in [Rows(table.data) -> Value]
    BY Parts DEF Data, Option, Rows
<1>6. data = [k \in Key |-> IF k \in Rows(table.data) THEN visit[k] ELSE None]
    BY <1>4, Parts DEF Data, Rows
<1> HIDE DEF visit
<1>7. Rows(table.data) = Fields!Present
    BY DEF Rows, Fields!Present
<1> QED BY <1>2, <1>3, <1>5, <1>6, <1>7 DEF Fields!ForEachMut

LEMMA EditIsFieldStep ==
    ASSUME StorageTypeOK, UnownedIsEmpty, DebugAssertions, NEW o \in Owner,
           NEW rows \in SUBSET Rows(table.data),
           EditAndRebuild(o, rows) \/ EditPanics(o, rows)
    PROVE  Fields!ForEachMut(o) \/ UNCHANGED <<table.owner, table.data>>
<1>1. CASE Rows(table.data) # {}
    BY <1>1, EditIsForEachMut
<1>2. CASE Rows(table.data) = {}
    <2>1. PICK data \in Edited({}) :
            \/ table' = [table EXCEPT !.data = data]
            \/ \E indexes \in Rebuilt(data) :
                  table' = [table EXCEPT !.data = data, !.indexes = indexes]
        <3>1. rows = {}
            BY <1>2
        <3> QED BY <3>1 DEF EditAndRebuild, EditPanics
    <2>2. data = table.data
        BY Parts DEF Edited, Data
    <2> QED BY <2>1, <2>2 DEF StorageTypeOK, Table
<1> QED BY <1>1, <1>2

LEMMA MutateIsFieldStep ==
    ASSUME StorageTypeOK, UnownedIsEmpty, DebugAssertions, NEW o \in Owner,
           NEW k \in Key, NEW v \in Value, AssertOwner(table.owner, o),
           table.data[k] # None,
           TableMutate(o, k, v) \/ TableMutatePanics(o, k, v)
    PROVE  Fields!Mutate(o, k, v)
<1>1. /\ table'.owner = table.owner
      /\ table'.data = [table.data EXCEPT ![k] = v]
    BY DEF StorageTypeOK, Table, TableMutate, TableMutatePanics
<1>2. k \in Rows(table.data)
    BY DEF Rows
<1> QED BY <1>1, <1>2, AssertedOwner DEF Fields!Mutate, Fields!Present, Rows

LEMMA RemoveIsFieldStep ==
    ASSUME StorageTypeOK, UnownedIsEmpty, DebugAssertions, NEW o \in Owner,
           NEW k \in Key, table.data[k] # None, TableRemove(o, k)
    PROVE  Fields!Remove(o, k)
<1>1. /\ table'.owner = table.owner
      /\ table'.data = [table.data EXCEPT ![k] = None]
      /\ AssertOwner(table.owner, o)
    BY DEF StorageTypeOK, Table, TableRemove
<1>2. k \in Rows(table.data)
    BY DEF Rows
<1> QED BY <1>1, <1>2, AssertedOwner DEF Fields!Remove, Fields!Present, Rows

LEMMA TableCallIsFieldStep ==
    ASSUME StorageTypeOK, UnownedIsEmpty, DebugAssertions, NEW o \in Owner,
           TableCall(o)
    PROVE  Fields!Next \/ UNCHANGED <<table.owner, table.data>>
<1>0. table \in Table
    BY DEF StorageTypeOK
<1>1. CASE TableInit(o)
    <2>1. Fields!Claim(o) /\ table'.data = table.data
        BY <1>0, <1>1 DEF TableInit, Table, SetOwner, Fields!Claim
    <2> QED BY <2>1 DEF Fields!Next
<1>2. CASE TableClear(o)
    <2>1. Fields!Clear(o)
        BY <1>0, <1>2 DEF TableClear, Table, SetOwner, AssertOwner,
                          Fields!Clear, Fields!Claim
    <2> QED BY <2>1 DEF Fields!Next
<1>3. ASSUME NEW k \in Key, NEW v \in Value, TableInsert(o, k, v)
      PROVE  Fields!Next
    <2>1. Fields!Insert(o, k, v)
        BY <1>0, <1>3 DEF TableInsert, Table, SetOwner, AssertOwner,
                          Fields!Insert, Fields!Claim
    <2> QED BY <2>1 DEF Fields!Next
<1>4. ASSUME NEW k \in Key, NEW v \in Value, TableMutate(o, k, v)
      PROVE  Fields!Next \/ UNCHANGED <<table.owner, table.data>>
    BY <1>4, MutateIsFieldStep DEF Fields!Next, TableMutate
<1>5. ASSUME NEW k \in Key, TableRemove(o, k)
      PROVE  Fields!Next \/ UNCHANGED <<table.owner, table.data>>
    BY <1>5, RemoveIsFieldStep DEF Fields!Next, TableRemove
<1>6. CASE TableForEachMut(o)
    BY <1>6, EditIsFieldStep DEF TableForEachMut, Fields!Next
<1> QED BY <1>1, <1>2, <1>3, <1>4, <1>5, <1>6 DEF TableCall

\* Whatever the key was read back as, the row at k is what changes.
LEMMA IndexedMutateIsFieldStep ==
    ASSUME StorageTypeOK, UnownedIsEmpty, DebugAssertions, NEW o \in Owner,
           NEW i \in Index, NEW ik \in IndexKey, NEW v \in Value,
           IndexedMutate(o, i, ik, v)
    PROVE  LET k == table.indexes[i][ik]
           IN  IF k = None THEN UNCHANGED table
               ELSE IF table.data[k] = None THEN UNCHANGED table
               ELSE Fields!Mutate(o, k, v)
<1> DEFINE k == table.indexes[i][ik]
<1>1. CASE k = None \/ table.data[k] = None
    BY <1>1 DEF IndexedMutate
<1>2. CASE k # None /\ table.data[k] # None
    <2>0. table \in Table /\ k \in Key
        BY <1>2, Parts DEF StorageTypeOK, IndexTables, Option
    <2>1. /\ table'.owner = table.owner
          /\ table'.data = [table.data EXCEPT ![k] = v]
          /\ AssertOwner(table.owner, o)
        BY <1>2, <2>0 DEF IndexedMutate, Table
    <2>2. k \in Rows(table.data)
        BY <1>2, <2>0 DEF Rows
    <2> HIDE DEF k
    <2>3. Fields!Mutate(o, k, v)
        BY <2>1, <2>2, AssertedOwner DEF Fields!Mutate, Fields!Present, Rows
    <2> QED BY <1>2, <2>3 DEF k
<1> QED BY <1>1, <1>2

LEMMA IndexedRemoveIsFieldStep ==
    ASSUME StorageTypeOK, UnownedIsEmpty, DebugAssertions, NEW o \in Owner,
           NEW i \in Index, NEW ik \in IndexKey, IndexedRemove(o, i, ik)
    PROVE  LET k == table.indexes[i][ik]
           IN  IF k = None THEN UNCHANGED table
               ELSE IF table.data[k] = None
                    THEN UNCHANGED <<table.owner, table.data>>
               ELSE Fields!Remove(o, k)
<1> DEFINE k == table.indexes[i][ik]
<1>1. CASE k = None \/ table.data[k] = None
    BY <1>1 DEF IndexedRemove, StorageTypeOK, Table
<1>2. CASE k # None /\ table.data[k] # None
    <2>0. table \in Table /\ k \in Key
        BY <1>2, Parts DEF StorageTypeOK, IndexTables, Option
    <2>1. /\ table'.owner = table.owner
          /\ table'.data = [table.data EXCEPT ![k] = None]
          /\ AssertOwner(table.owner, o)
        BY <1>2, <2>0 DEF IndexedRemove, Table
    <2>2. k \in Rows(table.data)
        BY <1>2, <2>0 DEF Rows
    <2> HIDE DEF k
    <2>3. Fields!Remove(o, k)
        BY <2>1, <2>2, AssertedOwner DEF Fields!Remove, Fields!Present, Rows
    <2> QED BY <1>2, <2>3 DEF k
<1> QED BY <1>1, <1>2

LEMMA IndexedCallIsFieldStep ==
    ASSUME StorageTypeOK, UnownedIsEmpty, DebugAssertions, NEW o \in Owner,
           IndexedCall(o)
    PROVE  Fields!Next \/ UNCHANGED <<table.owner, table.data>>
<1>1. CASE IndexedInit(o) \/ IndexedClear(o)
             \/ \E k \in Key, v \in Value : IndexedInsert(o, k, v)
    BY <1>1, TableCallIsFieldStep
       DEF IndexedInit, IndexedClear, IndexedInsert, TableCall
<1>2. ASSUME NEW i \in Index, NEW ik \in IndexKey
      PROVE  table.indexes[i][ik] \in Option(Key)
    BY Parts DEF IndexTables
<1>3. ASSUME NEW i \in Index, NEW ik \in IndexKey, NEW v \in Value,
             IndexedMutate(o, i, ik, v)
      PROVE  Fields!Next \/ UNCHANGED <<table.owner, table.data>>
    BY <1>2, <1>3, IndexedMutateIsFieldStep DEF Fields!Next, Option
<1>4. ASSUME NEW i \in Index, NEW ik \in IndexKey, IndexedRemove(o, i, ik)
      PROVE  Fields!Next \/ UNCHANGED <<table.owner, table.data>>
    BY <1>2, <1>4, IndexedRemoveIsFieldStep DEF Fields!Next, Option
<1>5. ASSUME NEW i \in Index, IndexedForEachMut(o, i)
      PROVE  Fields!Next \/ UNCHANGED <<table.owner, table.data>>
    BY <1>5, EditIsFieldStep DEF IndexedForEachMut, Reached, Fields!Next
<1> QED BY <1>1, <1>3, <1>4, <1>5 DEF IndexedCall

LEMMA IndexTableCallKeepsRows ==
    ASSUME StorageTypeOK, NEW o \in Owner, IndexTableCall(o)
    PROVE  UNCHANGED <<table.owner, table.data>>
BY DEF IndexTableCall, IndexTableInit, IndexTableClear, IndexTableInsert,
       IndexTableEdit, IndexTableRemove, StorageTypeOK, Table

\* A call that panics is, to the rows, the same call with less done.
LEMMA PanicsIsFieldStep ==
    ASSUME StorageTypeOK, UnownedIsEmpty, DebugAssertions, NEW o \in Owner,
           Panics(o)
    PROVE  Fields!Next \/ UNCHANGED <<table.owner, table.data>>
<1>0. table \in Table
    BY DEF StorageTypeOK
<1>1. CASE OwnershipViolation(o)
    BY <1>1 DEF OwnershipViolation, storageVars
<1>2. ASSUME NEW k \in Key, NEW v \in Value, TableMutatePanics(o, k, v)
      PROVE  Fields!Next
    BY <1>2, MutateIsFieldStep DEF TableMutatePanics, Fields!Next
<1>3. ASSUME NEW i \in Index, NEW ik \in IndexKey, NEW v \in Value,
             IndexedMutatePanics(o, i, ik, v)
      PROVE  Fields!Next
    <2>1. table.indexes[i][ik] \in Key
        BY <1>3, Parts DEF IndexedMutatePanics, IndexTables, Option
    <2> QED BY <1>2, <1>3, <2>1 DEF IndexedMutatePanics
<1>4. CASE TableForEachMutPanics(o)
    BY <1>4, EditIsFieldStep DEF TableForEachMutPanics, Fields!Next
<1>5. ASSUME NEW i \in Index, IndexedForEachMutPanics(o, i)
      PROVE  Fields!Next \/ UNCHANGED <<table.owner, table.data>>
    BY <1>5, EditIsFieldStep DEF IndexedForEachMutPanics, Reached, Fields!Next
<1>6. ASSUME NEW s \in Singleton, NEW v \in SinVal, SingletonMutatePanics(o, s, v)
      PROVE  UNCHANGED <<table.owner, table.data>>
    BY <1>6 DEF SingletonMutatePanics, SingletonMutate, SetSingleton, storageVars
<1>7. ASSUME NEW i \in Index, IndexTableEditPanics(o, i)
      PROVE  UNCHANGED <<table.owner, table.data>>
    BY <1>7, IndexTableCallKeepsRows DEF IndexTableEditPanics, IndexTableCall
<1> QED BY <1>1, <1>2, <1>3, <1>4, <1>5, <1>6, <1>7 DEF Panics

LEMMA AnyCallIsFieldStep ==
    ASSUME StorageTypeOK, UnownedIsEmpty, DebugAssertions, [AnyCall]_storageVars
    PROVE  [Fields!Next]_<<table.owner, table.data>>
<1>1. CASE UNCHANGED storageVars
    BY <1>1 DEF storageVars
<1>2. ASSUME NEW o \in Owner, Completes(o) \/ Panics(o)
      PROVE  Fields!Next \/ UNCHANGED <<table.owner, table.data>>
    <2>1. SingletonCall(o) => UNCHANGED <<table.owner, table.data>>
        BY SingletonCallKeepsTable
    <2> QED BY <1>2, <2>1, TableCallIsFieldStep, IndexedCallIsFieldStep,
               IndexTableCallKeepsRows, PanicsIsFieldStep DEF Completes
<1> QED BY <1>1, <1>2 DEF AnyCall

LEMMA CallsAreFieldTable ==
    ASSUME DebugAssertions
    PROVE  AnyCalls => ImplementsFieldTable
<1>1. StorageInit => Fields!Init
    BY DEF StorageInit, Fields!Init
<1>2. StorageTypeOK /\ UnownedIsEmpty /\ [AnyCall]_storageVars
        => [Fields!Next]_<<table.owner, table.data>>
    BY AnyCallIsFieldStep
<1> QED BY <1>1, <1>2, CallsType, CallsKeepUnownedEmpty, PTL
        DEF AnyCalls, ImplementsFieldTable, Fields!Spec

\* In a debug build the rows of a table with indexes, whatever becomes of its
\* indexes, change as those of a table without indexes that has one owner.
THEOREM IndexedTableIsFieldTable ==
    DebugAssertions => (StorageSpec => ImplementsFieldTable)
<1> SUFFICES ASSUME DebugAssertions PROVE StorageSpec => ImplementsFieldTable
    OBVIOUS
<1> QED BY StorageIsCalls, CallsAreFieldTable, PTL

\* When callers keep indexed fields distinct, each operation through an index
\* of an undisturbed store is, in a debug build, the operation on the row that
\* a search finds.
THEOREM OperationsSearchByField ==
    Undisturbed /\ UniqueFields /\ DebugAssertions
        => (StorageSpec => IndexedOpsSearchByField)
<1> SUFFICES ASSUME Undisturbed, UniqueFields, DebugAssertions
             PROVE  StorageSpec => IndexedOpsSearchByField
    OBVIOUS
<1> DEFINE Search ==
        \A o \in Owner, i \in Index :
          /\ IndexedForEachMut(o, i) /\ Rows(table.data) # {}
                => Fields!ForEachMut(o)
          /\ \A ik \in IndexKey :
                /\ IndexedRemove(o, i, ik) => Fields!RemoveBy(o, i, ik)
                /\ \A v \in Value :
                      IndexedMutate(o, i, ik, v) => Fields!MutateBy(o, i, ik, v)
<1>1. ASSUME StorageTypeOK, UnownedIsEmpty, ExactInv PROVE Search
    <2> SUFFICES ASSUME NEW o \in Owner, NEW i \in Index
        PROVE  /\ IndexedForEachMut(o, i) /\ Rows(table.data) # {}
                    => Fields!ForEachMut(o)
               /\ \A ik \in IndexKey :
                    /\ IndexedRemove(o, i, ik) => Fields!RemoveBy(o, i, ik)
                    /\ \A v \in Value :
                        IndexedMutate(o, i, ik, v) => Fields!MutateBy(o, i, ik, v)
        OBVIOUS
    <2>1. IndexedForEachMut(o, i) /\ Rows(table.data) # {} => Fields!ForEachMut(o)
        BY <1>1, EditIsForEachMut DEF IndexedForEachMut, Reached
    <2>2. ASSUME NEW ik \in IndexKey, IndexedRemove(o, i, ik)
          PROVE  Fields!RemoveBy(o, i, ik)
        BY <1>1, <2>2, EntryIsSearch, IndexedRemoveIsFieldStep
           DEF Fields!RemoveBy
    <2>3. ASSUME NEW ik \in IndexKey, NEW v \in Value, IndexedMutate(o, i, ik, v)
          PROVE  Fields!MutateBy(o, i, ik, v)
        BY <1>1, <2>3, EntryIsSearch, IndexedMutateIsFieldStep
           DEF Fields!MutateBy
    <2> QED BY <2>1, <2>2, <2>3
<1>2. StorageTypeOK /\ UnownedIsEmpty /\ ExactInv => [Search]_storageVars
    BY <1>1
<1> QED BY <1>2, TypeCorrect, UnownedStaysEmpty, ExactStays, PTL
        DEF StorageSpec, IndexedOpsSearchByField

----------------------------------------------------------------------------
(* Rebuilding the indexes.                                                  *)

LEMMA LeastOfNats ==
    ASSUME NEW S \in SUBSET Nat, S # {}
    PROVE  \E a \in S : \A b \in S : a <= b
<1> DEFINE R == {ss \in Nat \X Nat : ss[1] < ss[2]}
<1>1. IsWellFoundedOn(R, Nat)
    BY NatLessThanWellFounded, Zenon DEF OpToRel
<1>2. \A a, b \in Nat : b < a => <<b, a>> \in R
    OBVIOUS
<1> HIDE DEF R
<1>3. PICK a \in S : \A b \in S : ~(<<b, a>> \in R)
    BY <1>1, WFMin
<1>4. ASSUME NEW b \in S PROVE a <= b
    <2>1. a \in Nat /\ b \in Nat
        OBVIOUS
    <2>2. ~(<<b, a>> \in R)
        BY <1>3
    <2>3. ~(b < a)
        BY <1>2, <2>1, <2>2, Zenon
    <2> QED BY <2>1, <2>3
<1> QED BY <1>4

\* A pass over a finite HashMap meets its rows one after the other.
LEMMA PassMeetsInOrder ==
    ASSUME IsFiniteSet(Key)
    PROVE  LastMet # {}
<1>1. PICK n \in Nat : ExistsBijection(1..n, Key)
    BY FS_NatBijection
<1>2. PICK f : f \in Bijection(1..n, Key)
    BY <1>1 DEF ExistsBijection
<1>3. /\ f \in [1..n -> Key]
      /\ \A k \in Key : \E a \in 1..n : f[a] = k
    BY <1>2 DEF Bijection, Injection, Surjection
<1> DEFINE Sets == (SUBSET Key) \ {{}}
           At(S) == {a \in 1..n : f[a] \in S}
           First(S, a) == a \in At(S) /\ \A b \in At(S) : a <= b
           last == [S \in Sets |-> f[CHOOSE a \in 1..n : First(S, a)]]
<1>4. ASSUME NEW S \in Sets
      PROVE  \E a \in 1..n : First(S, a)
    <2>1. PICK k \in Key : k \in S
        OBVIOUS
    <2>2. At(S) \in SUBSET Nat /\ At(S) # {}
        BY <1>3, <2>1
    <2> QED BY <2>2, LeastOfNats
<1>5. ASSUME NEW S \in Sets
      PROVE  \E a \in 1..n : First(S, a) /\ last[S] = f[a]
    BY <1>4
<1> HIDE DEF last
<1>6. last \in [Sets -> Key] /\ \A S \in Sets : last[S] \in S
    <2>1. last = [S \in Sets |-> last[S]]
        BY DEF last
    <2> QED BY <1>3, <1>5, <2>1
<1>7. ASSUME NEW S \in Sets, NEW T \in Sets, T \subseteq S, last[S] \in T
      PROVE  last[T] = last[S]
    <2>1. PICK a \in 1..n : First(S, a) /\ last[S] = f[a]
        BY <1>5
    <2>2. PICK b \in 1..n : First(T, b) /\ last[T] = f[b]
        BY <1>5
    <2>3. a \in At(T) /\ b \in At(S)
        BY <1>7, <2>1, <2>2
    <2>4. a <= b /\ b <= a
        BY <2>1, <2>2, <2>3
    <2> QED BY <2>1, <2>2, <2>4
<1> QED BY <1>6, <1>7 DEF LastMet

\* clear and build, at the end of for_each_mut, has an outcome for whatever rows
\* its closure leaves: no theorem about for_each_mut speaks of nothing.
THEOREM RebuildHasAnOutcome ==
    ASSUME IsFiniteSet(Key)
    PROVE  \A data \in Data : Rebuilt(data) # {}
BY PassMeetsInOrder DEF Rebuilt

LEMMA ExactIndexesAreUnique ==
    ASSUME NEW data \in Data, NEW ix \in IndexTables, NEW jx \in IndexTables,
           Exact(ix, data), Exact(jx, data)
    PROVE  ix = jx
<1> SUFFICES ASSUME NEW i \in Index, NEW ik \in IndexKey
             PROVE  ix[i][ik] = jx[i][ik]
    BY DEF IndexTables
<1>1. ASSUME NEW hx \in IndexTables, Exact(hx, data), hx[i][ik] # None
      PROVE  /\ hx[i][ik] \in Rows(data)
             /\ field[i][data[hx[i][ik]]] = ik
    BY <1>1 DEF Exact, Sound, Rows, IndexTables, Option
<1>2. CASE ix[i][ik] # None
    BY <1>1, <1>2 DEF Exact, Complete
<1>3. CASE jx[i][ik] # None
    BY <1>1, <1>3 DEF Exact, Complete
<1> QED BY <1>2, <1>3

\* What on_insert and on_remove make of the indexes of an undisturbed store, call
\* by call, is what clear and build would make of its rows, in whatever order.
THEOREM IndexesAreAsRebuilt ==
    Undisturbed /\ UniqueFields =>
        (StorageSpec => [](\A ix \in Rebuilt(table.data) : ix = table.indexes))
<1> SUFFICES ASSUME Undisturbed, UniqueFields
             PROVE  StorageSpec => [](\A ix \in Rebuilt(table.data) : ix = table.indexes)
    OBVIOUS
<1>1. StorageTypeOK /\ ExactInv =>
        (\A ix \in Rebuilt(table.data) : ix = table.indexes)
    <2> SUFFICES ASSUME StorageTypeOK, ExactInv, NEW ix \in Rebuilt(table.data)
                 PROVE  ix = table.indexes
        OBVIOUS
    <2>1. Exact(ix, table.data) /\ ix \in IndexTables
        BY Parts, RebuiltExact, RebuiltType DEF ExactInv, Exact
    <2> QED BY <2>1, Parts, ExactIndexesAreUnique DEF ExactInv
<1> QED BY <1>1, ExactStays, TypeCorrect, PTL

----------------------------------------------------------------------------
(* What else every step keeps to.                                           *)

\* for_each_mut leaves sound indexes with an entry for every row's field,
\* whatever they held before and however rows share fields.
THEOREM ForEachMutMends == StorageSpec => ForEachMutRepairs
<1> DEFINE Repairs ==
        \A o \in Owner :
          TableForEachMut(o) \/ (\E i \in Index : IndexedForEachMut(o, i))
          => /\ IndexSound'
             /\ \A i \in Index : \A k \in Rows(table'.data) :
                   table'.indexes[i][field[i][table'.data[k]]] # None
<1>1. ASSUME StorageTypeOK, NEW o \in Owner, NEW rows \in SUBSET Key,
             EditAndRebuild(o, rows)
      PROVE  /\ IndexSound'
             /\ \A i \in Index : \A k \in Rows(table'.data) :
                   table'.indexes[i][field[i][table'.data[k]]] # None
    <2>0. PICK data \in Edited(rows) : \E indexes \in Rebuilt(data) :
            table' = [table EXCEPT !.data = data, !.indexes = indexes]
        BY <1>1 DEF EditAndRebuild
    <2>1. PICK indexes \in Rebuilt(data) :
            table' = [table EXCEPT !.data = data, !.indexes = indexes]
        BY <2>0
    <2>2. data \in Data
        BY <1>1, EditedType DEF Data
    <2>3. table'.data = data /\ table'.indexes = indexes
        BY <1>1, <2>1 DEF StorageTypeOK, Table
    <2>4. ASSUME NEW i \in Index, NEW k \in Rows(data)
          PROVE  indexes[i][field[i][data[k]]] # None
        <3>1. field[i][data[k]] \in IndexKey
            BY <2>2, FieldAssumption DEF Rows, Data, Option
        <3>2. k \in RowsWith(data, i, field[i][data[k]])
            BY DEF RowsWith
        <3>3. indexes[i][field[i][data[k]]]
                \in RowsWith(data, i, field[i][data[k]])
            BY <2>2, <3>1, <3>2, RebuiltEntry
        <3> QED BY <3>3, NoneAssumption DEF RowsWith, Rows
    <2>5. IndexSound'
        BY <1>1, EditAndRebuildSound
    <2> QED BY <2>3, <2>4, <2>5
<1>2. StorageTypeOK => [Repairs]_storageVars
    BY <1>1 DEF TableForEachMut, IndexedForEachMut, Reached, Rows
<1> QED BY <1>2, TypeCorrect, PTL DEF StorageSpec, ForEachMutRepairs
=============================================================================
