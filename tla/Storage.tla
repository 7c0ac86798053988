------------------------------ MODULE Storage ------------------------------
(***************************************************************************)
(* The data behind the lock of a KvStore: one base table with its indexes  *)
(* (storage.rs, the code generated by tables!) and the singletons, and one *)
(* action per mutating operation of operations.rs.                         *)
(*                                                                         *)
(* A HashMap is a total function whose absent entries are None, as in      *)
(* Rust's Option.  Every action is one call made under the write lock, by  *)
(* the owner o that the call carries; it either completes or panics, and   *)
(* what a panic does to the lock is in module KvStore.                     *)
(***************************************************************************)
EXTENDS FiniteSets

CONSTANTS
    Owner,          \* tokens that identify an owner
    Key, Value,     \* keys and rows of the base table
    Index,          \* the indexes of the base table
    IndexKey,       \* values of the indexed fields
    field,          \* field[i][v]: the field of row v that index i uses
    Singleton, SinVal,
    None,           \* Option::None: no owner, no row, no entry, no value
    DebugAssertions,   \* TRUE in a build with cfg(debug_assertions)
    UniqueFields,   \* callers never let two rows share an indexed field
    DirectIndexAccess, \* callers also write to the index tables directly
    CatchUnwind,    \* callers catch a panic and go on using the guard
    StaleKeyIntact  \* a key read after its index entry was dropped is intact

ASSUME FieldAssumption == field \in [Index -> [Value -> IndexKey]]
ASSUME NoneAssumption ==
    /\ None \notin Owner
    /\ None \notin Key
    /\ None \notin Value
    /\ None \notin SinVal

VARIABLES
    table,          \* Table<D, Indexes>: owner, data and the index tables
    singletons      \* owner and value of every singleton

storageVars == <<table, singletons>>

Option(S) == S \cup {None}
IndexTables == [Index -> [IndexKey -> Option(Key)]]
Rows(data) == {k \in Key : data[k] # None}

\* An (owner, SinValue) pair; the value None with an owner is SinValue::None.
SinEntry == [owner : Option(Owner), value : Option(SinVal)]
NoSinEntry == [owner |-> None, value |-> None]

Table == [owner : Option(Owner),
          data : [Key -> Option(Value)],
          indexes : IndexTables,
          indexOwner : [Index -> Option(Owner)]]

StorageTypeOK ==
    /\ table \in Table
    /\ singletons \in [Singleton -> SinEntry]

NoEntries == [i \in Index |-> [ik \in IndexKey |-> None]]

StorageInit ==
    /\ table = [owner |-> None,
                data |-> [k \in Key |-> None],
                indexes |-> NoEntries,
                indexOwner |-> [i \in Index |-> None]]
    /\ singletons = [s \in Singleton |-> NoSinEntry]

----------------------------------------------------------------------------
(* Index maintenance, generated for every table by tables!.                *)

(* Definitions with a name in Slip are not the code: each is the definition *)
(* after it with a plausible mistake, for mutation checks of the properties.*)

\* The entry gets the row in place of its key.
OnInsertSlip(indexes, k, v) ==
    [i \in Index |-> [indexes[i] EXCEPT ![field[i][v]] = v]]

\* The entry under the row's field now points to k, whatever it was before.
OnInsert(indexes, k, v) ==
    [i \in Index |-> [indexes[i] EXCEPT ![field[i][v]] = k]]

\* The entry under the row's field goes, whichever row it points to.
OnRemove(indexes, v) ==
    [i \in Index |-> [indexes[i] EXCEPT ![field[i][v]] = None]]

\* Which of a set of rows a pass over the HashMap meets last: a HashMap
\* iterates in an arbitrary order, the same one for all indexes of a pass.
LastMet ==
    {last \in [(SUBSET Key) \ {{}} -> Key] :
        /\ \A S \in DOMAIN last : last[S] \in S
        /\ \A S, T \in DOMAIN last :
               T \subseteq S /\ last[S] \in T => last[T] = last[S]}

RowsWith(data, i, ik) == {k \in Rows(data) : field[i][data[k]] = ik}

\* build without clear.
RebuildSlip(data) ==
    {[i \in Index |-> [ik \in IndexKey |->
        IF RowsWith(data, i, ik) = {} THEN table.indexes[i][ik]
        ELSE last[RowsWith(data, i, ik)]]] : last \in LastMet}

\* clear followed by build: of the rows that share a field the last one wins.
Rebuilt(data) ==
    {[i \in Index |-> [ik \in IndexKey |->
        IF RowsWith(data, i, ik) = {} THEN None
        ELSE last[RowsWith(data, i, ik)]]] : last \in LastMet}

----------------------------------------------------------------------------
(* Ownership.                                                              *)

\* assert_owner: an unowned table lets everyone through, and so does a
\* release build.
AssertOwner(owner, o) == owner \in {None, o} \/ ~DebugAssertions

\* The last caller becomes the owner.
SetOwnerSlip(owner, o) == o

\* assert_or_set_owner, once its assertion has passed.
SetOwner(owner, o) == IF owner = None THEN o ELSE owner

\* The restriction on callers that the crate documents, when they keep it.
Distinct(data) ==
    UniqueFields => \A j, k \in Rows(data) : \A i \in Index :
                        field[i][data[j]] = field[i][data[k]] => j = k

----------------------------------------------------------------------------
(* Operations on the base table (TabularOpsMut).                           *)

TableInit(o) ==
    /\ table' = [table EXCEPT !.owner = SetOwner(@, o)]
    /\ UNCHANGED singletons

\* The index tables are not cleared with the table.
TableClearSlip(o) ==
    /\ AssertOwner(table.owner, o)
    /\ table' = [table EXCEPT !.owner = SetOwner(@, o),
                              !.data = [k \in Key |-> None]]
    /\ UNCHANGED singletons

TableClear(o) ==
    /\ AssertOwner(table.owner, o)
    /\ table' = [table EXCEPT !.owner = SetOwner(@, o),
                              !.data = [k \in Key |-> None],
                              !.indexes = NoEntries]
    /\ UNCHANGED singletons

\* on_insert for the new row comes before on_remove for the old one.
InsertOrderSlip(o, k, v) ==
    LET old == table.data[k]
        added == OnInsert(table.indexes, k, v)
    IN  /\ AssertOwner(table.owner, o)
        /\ Distinct([table.data EXCEPT ![k] = v])
        /\ table' = [table EXCEPT
              !.owner = SetOwner(@, o),
              !.data[k] = v,
              !.indexes = IF old = None THEN added ELSE OnRemove(added, old)]
        /\ UNCHANGED singletons

\* assert_owner in place of assert_or_set_owner.
InsertOwnerSlip(o, k, v) ==
    LET old == table.data[k]
        kept == IF old = None THEN table.indexes
                ELSE OnRemove(table.indexes, old)
    IN  /\ AssertOwner(table.owner, o)
        /\ Distinct([table.data EXCEPT ![k] = v])
        /\ table' = [table EXCEPT !.data[k] = v,
                                  !.indexes = OnInsert(kept, k, v)]
        /\ UNCHANGED singletons

TableInsert(o, k, v) ==
    LET old == table.data[k]
        kept == IF old = None THEN table.indexes
                ELSE OnRemove(table.indexes, old)
    IN  /\ AssertOwner(table.owner, o)
        /\ Distinct([table.data EXCEPT ![k] = v])
        /\ table' = [table EXCEPT !.owner = SetOwner(@, o),
                                  !.data[k] = v,
                                  !.indexes = OnInsert(kept, k, v)]
        /\ UNCHANGED singletons

\* The row is not taken out of the indexes first.
TableMutateSlip(o, k, v) ==
    /\ AssertOwner(table.owner, o)
    /\ \/ /\ table.data[k] = None
          /\ UNCHANGED table
       \/ /\ table.data[k] # None
          /\ Distinct([table.data EXCEPT ![k] = v])
          /\ table' = [table EXCEPT !.data[k] = v,
                                    !.indexes = OnInsert(@, k, v)]
    /\ UNCHANGED singletons

\* The closure of mutate turns the row into v.
TableMutate(o, k, v) ==
    /\ AssertOwner(table.owner, o)
    /\ \/ /\ table.data[k] = None
          /\ UNCHANGED table
       \/ /\ table.data[k] # None
          /\ Distinct([table.data EXCEPT ![k] = v])
          /\ table' = [table EXCEPT
                !.data[k] = v,
                !.indexes = OnInsert(OnRemove(@, table.data[k]), k, v)]
    /\ UNCHANGED singletons

\* The owner is not asserted.
TableRemoveSlip(o, k) ==
    /\ \/ /\ table.data[k] = None
          /\ UNCHANGED table
       \/ /\ table.data[k] # None
          /\ table' = [table EXCEPT !.data[k] = None,
                                    !.indexes = OnRemove(@, table.data[k])]
    /\ UNCHANGED singletons

TableRemove(o, k) ==
    /\ AssertOwner(table.owner, o)
    /\ \/ /\ table.data[k] = None
          /\ UNCHANGED table
       \/ /\ table.data[k] # None
          /\ table' = [table EXCEPT !.data[k] = None,
                                    !.indexes = OnRemove(@, table.data[k])]
    /\ UNCHANGED singletons

\* What closures that visit these rows can make of the data.
Edited(rows) ==
    {[k \in Key |-> IF k \in rows THEN g[k] ELSE table.data[k]] :
        g \in [rows -> Value]}

EditAndRebuild(o, rows) ==
    /\ AssertOwner(table.owner, o)
    /\ \E data \in Edited(rows) :
          /\ Distinct(data)
          /\ \E indexes \in Rebuilt(data) :
                table' = [table EXCEPT !.data = data, !.indexes = indexes]
    /\ UNCHANGED singletons

TableForEachMut(o) == EditAndRebuild(o, Rows(table.data))

----------------------------------------------------------------------------
(* Operations on the base table through index i (IndexedOpsMut).           *)

\* init, clear and insert do not look at the index.
IndexedInit(o) == TableInit(o)
IndexedClear(o) == TableClear(o)
IndexedInsert(o, k, v) == TableInsert(o, k, v)

\* mutate keeps base_key as a pointer into the index, then on_remove drops
\* the entry it points into: what on_insert reads back for each index is the
\* key again or, when the key owned memory or its slot moved, anything.
ReadBack(i, ik, v) ==
    LET k == table.indexes[i][ik]
    IN  IF StaleKeyIntact \/ field[i][v] # ik THEN {k} ELSE Key

\* The index is read before the owner is checked.
IndexedMutate(o, i, ik, v) ==
    LET k == table.indexes[i][ik]
        old == table.data[k]
    IN  /\ \/ /\ k = None
              /\ UNCHANGED table
           \/ /\ k # None
              /\ AssertOwner(table.owner, o)
              /\ old = None
              /\ UNCHANGED table
           \/ /\ k # None
              /\ AssertOwner(table.owner, o)
              /\ old # None
              /\ Distinct([table.data EXCEPT ![k] = v])
              /\ \E keys \in [Index -> ReadBack(i, ik, old)] :
                    table' = [table EXCEPT
                        !.data[k] = v,
                        !.indexes = [j \in Index |->
                            OnInsert(OnRemove(@, old), keys[j], v)[j]]]
        /\ UNCHANGED singletons

\* Only the index the call goes through loses its entry.
IndexedRemoveSlip(o, i, ik) ==
    LET k == table.indexes[i][ik]
    IN  /\ AssertOwner(table.owner, o)
        /\ \/ /\ k = None
              /\ UNCHANGED table
           \/ /\ k # None
              /\ table' = [table EXCEPT !.data[k] = None,
                                        !.indexes[i][ik] = None]
        /\ UNCHANGED singletons

\* The entry goes first, even when it leads to no row.
IndexedRemove(o, i, ik) ==
    LET k == table.indexes[i][ik]
        cut == [table.indexes EXCEPT ![i][ik] = None]
    IN  /\ AssertOwner(table.owner, o)
        /\ \/ /\ k = None
              /\ UNCHANGED table
           \/ /\ k # None
              /\ table.data[k] = None
              /\ table' = [table EXCEPT !.indexes = cut]
           \/ /\ k # None
              /\ table.data[k] # None
              /\ table' = [table EXCEPT !.data[k] = None,
                                        !.indexes = OnRemove(cut, table.data[k])]
        /\ UNCHANGED singletons

\* The rows that the entries of index i lead to; a dangling entry is skipped.
Reached(i) == {table.indexes[i][ik] : ik \in IndexKey} \cap Rows(table.data)

IndexedForEachMut(o, i) == EditAndRebuild(o, Reached(i))

----------------------------------------------------------------------------
(* An index is itself a table, with an owner and no indexes of its own,    *)
(* and table::<index::T::f>(o) gives the operations of TabularOpsMut on it.*)

IndexTableInit(o, i) ==
    /\ table' = [table EXCEPT !.indexOwner[i] = SetOwner(@, o)]
    /\ UNCHANGED singletons

IndexTableClear(o, i) ==
    /\ AssertOwner(table.indexOwner[i], o)
    /\ table' = [table EXCEPT !.indexOwner[i] = SetOwner(@, o),
                              !.indexes[i] = NoEntries[i]]
    /\ UNCHANGED singletons

IndexTableInsert(o, i, ik, k) ==
    /\ AssertOwner(table.indexOwner[i], o)
    /\ table' = [table EXCEPT !.indexOwner[i] = SetOwner(@, o),
                              !.indexes[i][ik] = k]
    /\ UNCHANGED singletons

\* mutate and for_each_mut, whose closures redirect entries to other rows.
IndexTableEdit(o, i) ==
    /\ AssertOwner(table.indexOwner[i], o)
    /\ \E entries \in [IndexKey -> Option(Key)] :
          /\ \A ik \in IndexKey :
                entries[ik] = None <=> table.indexes[i][ik] = None
          /\ table' = [table EXCEPT !.indexes[i] = entries]
    /\ UNCHANGED singletons

IndexTableRemove(o, i, ik) ==
    /\ AssertOwner(table.indexOwner[i], o)
    /\ table' = [table EXCEPT !.indexes[i][ik] = None]
    /\ UNCHANGED singletons

----------------------------------------------------------------------------
(* Operations on the singletons (SingletonOpsMut).                         *)

SetSingleton(s, entry) ==
    /\ singletons' = [singletons EXCEPT ![s] = entry]
    /\ UNCHANGED table

SingletonInsert(o, s, v) ==
    /\ AssertOwner(singletons[s].owner, o)
    /\ SetSingleton(s, [owner |-> o, value |-> v])

\* Neither an absent entry nor a tombstone reaches the closure.
SingletonMutate(o, s, v) ==
    /\ AssertOwner(singletons[s].owner, o)
    /\ IF singletons[s].value = None THEN UNCHANGED storageVars
       ELSE SetSingleton(s, [singletons[s] EXCEPT !.value = v])

\* The owner goes with the value.
SingletonRemove(o, s) ==
    /\ AssertOwner(singletons[s].owner, o)
    /\ SetSingleton(s, NoSinEntry)

\* A tombstone stays behind and keeps the owner.
SingletonClear(o, s) ==
    /\ AssertOwner(singletons[s].owner, o)
    /\ SetSingleton(s, [owner |-> o, value |-> None])

----------------------------------------------------------------------------
(* Calls that panic, and what they leave behind.                           *)

\* An ownership assertion fails before anything is written.
OwnershipViolation(o) ==
    /\ \/ ~AssertOwner(table.owner, o)
       \/ \E s \in Singleton : ~AssertOwner(singletons[s].owner, o)
       \/ /\ DirectIndexAccess
          /\ \E i \in Index : ~AssertOwner(table.indexOwner[i], o)
    /\ UNCHANGED storageVars

\* The closure of mutate panics: the row has left the indexes, may or may not
\* have changed, and is not put back into them.
TableMutatePanics(o, k, v) ==
    /\ AssertOwner(table.owner, o)
    /\ table.data[k] # None
    /\ table' = [table EXCEPT !.data[k] = v,
                              !.indexes = OnRemove(@, table.data[k])]
    /\ UNCHANGED singletons

IndexedMutatePanics(o, i, ik, v) ==
    /\ table.indexes[i][ik] # None
    /\ TableMutatePanics(o, table.indexes[i][ik], v)

\* The closure of for_each_mut panics: some rows have changed, no index has.
EditPanics(o, rows) ==
    /\ AssertOwner(table.owner, o)
    /\ rows # {}
    /\ \E data \in Edited(rows) : table' = [table EXCEPT !.data = data]
    /\ UNCHANGED singletons

TableForEachMutPanics(o) == EditPanics(o, Rows(table.data))
IndexedForEachMutPanics(o, i) == EditPanics(o, Reached(i))

\* The closure of mutate or for_each_mut on an index table panics: some
\* entries have changed, and there is nothing to keep up with them.
IndexTableEditPanics(o, i) ==
    /\ DirectIndexAccess
    /\ table.indexes[i] # NoEntries[i]
    /\ IndexTableEdit(o, i)

SingletonMutatePanics(o, s, v) ==
    /\ singletons[s].value # None
    /\ SingletonMutate(o, s, v)

----------------------------------------------------------------------------
(* Read operations.  They take no owner into account.                      *)

TableGet(k) == table.data[k]
TableLen == Cardinality(Rows(table.data))

IndexedGet(i, ik) ==
    IF table.indexes[i][ik] = None THEN None
    ELSE table.data[table.indexes[i][ik]]

\* The entries of index i for which for_each calls its closure.
IndexedVisits(i) == {ik \in IndexKey : IndexedGet(i, ik) # None}

SingletonGet(s) == singletons[s].value

----------------------------------------------------------------------------
TableCall(o) ==
    \/ TableInit(o)
    \/ TableClear(o)
    \/ \E k \in Key, v \in Value : TableInsert(o, k, v)
    \/ \E k \in Key, v \in Value : TableMutate(o, k, v)
    \/ \E k \in Key : TableRemove(o, k)
    \/ TableForEachMut(o)

IndexedCall(o) ==
    \/ IndexedInit(o)
    \/ IndexedClear(o)
    \/ \E k \in Key, v \in Value : IndexedInsert(o, k, v)
    \/ \E i \in Index, ik \in IndexKey, v \in Value : IndexedMutate(o, i, ik, v)
    \/ \E i \in Index, ik \in IndexKey : IndexedRemove(o, i, ik)
    \/ \E i \in Index : IndexedForEachMut(o, i)

IndexTableCall(o) ==
    /\ DirectIndexAccess
    /\ \E i \in Index :
          \/ IndexTableInit(o, i)
          \/ IndexTableClear(o, i)
          \/ \E ik \in IndexKey, k \in Key : IndexTableInsert(o, i, ik, k)
          \/ IndexTableEdit(o, i)
          \/ \E ik \in IndexKey : IndexTableRemove(o, i, ik)

SingletonCall(o) ==
    \E s \in Singleton :
        \/ \E v \in SinVal : SingletonInsert(o, s, v)
        \/ \E v \in SinVal : SingletonMutate(o, s, v)
        \/ SingletonRemove(o, s)
        \/ SingletonClear(o, s)

Completes(o) ==
    TableCall(o) \/ IndexedCall(o) \/ IndexTableCall(o) \/ SingletonCall(o)

Panics(o) ==
    \/ OwnershipViolation(o)
    \/ \E k \in Key, v \in Value : TableMutatePanics(o, k, v)
    \/ \E i \in Index, ik \in IndexKey, v \in Value :
          IndexedMutatePanics(o, i, ik, v)
    \/ TableForEachMutPanics(o)
    \/ \E i \in Index : IndexedForEachMutPanics(o, i)
    \/ \E i \in Index : IndexTableEditPanics(o, i)
    \/ \E s \in Singleton, v \in SinVal : SingletonMutatePanics(o, s, v)

\* One transaction that goes on for ever: calls by any owners, in any order.
\* It outlives a panicking call only when its code catches the panic.
StorageNext == \E o \in Owner : Completes(o) \/ (CatchUnwind /\ Panics(o))

StorageSpec == StorageInit /\ [][StorageNext]_storageVars

----------------------------------------------------------------------------
(* Properties.                                                             *)

Sound(indexes, data) ==
    \A i \in Index, ik \in IndexKey :
        indexes[i][ik] # None =>
            /\ data[indexes[i][ik]] # None
            /\ field[i][data[indexes[i][ik]]] = ik

Complete(indexes, data) ==
    \A i \in Index : \A k \in Rows(data) : indexes[i][field[i][data[k]]] = k

\* Every index entry leads to a row that has the entry's key in its indexed
\* field: OnInsert, OnRemove and build never leave a dangling or stale entry,
\* even when rows share indexed fields.
IndexSound == Sound(table.indexes, table.data)

\* When callers keep indexed fields distinct after every call, every row is
\* found through every index, under its own key (lib.rs, "Indexes are
\* maintained by the store").
IndexComplete == Complete(table.indexes, table.data)

\* The table seen through an index has as many rows as the table itself: len
\* of an indexed view counts the base table while for_each walks the index.
IndexedLenAgrees ==
    \A i \in Index : Cardinality(IndexedVisits(i)) = TableLen

\* Rows appear only in a table that somebody owns: mutate, remove and
\* for_each_mut, which let anyone into an unowned table, find nothing there.
UnownedIsEmpty == table.owner = None => Rows(table.data) = {}

\* Nothing takes a table from its owner, whatever clears, panics and calls by
\* other owners come in between: assert_or_set_owner only ever sets.
OwnerIsForever ==
    [][/\ table.owner # None => table'.owner = table.owner
       /\ \A i \in Index : table.indexOwner[i] # None =>
              table'.indexOwner[i] = table.indexOwner[i]]_storageVars

\* Whatever happened to the indexes before - caught panics, writes to the
\* index tables, rows that shared fields - for_each_mut leaves them sound and
\* with an entry for every row's field.
ForEachMutRepairs ==
    [][\A o \in Owner :
          TableForEachMut(o) \/ (\E i \in Index : IndexedForEachMut(o, i))
          => /\ IndexSound'
             /\ \A i \in Index : \A k \in Rows(table'.data) :
                   table'.indexes[i][field[i][table'.data[k]]] # None
      ]_storageVars

\* In a debug build the owner and the rows of a table change as those of a
\* table that has no indexes and can be searched by field.  (It is about the
\* rows only; the next two properties tie the indexes to them.)
Fields == INSTANCE FieldTable WITH owner <- table.owner, rows <- table.data

ImplementsFieldTable == Fields!Spec

\* And each operation through an index is the operation that searches by
\* field: it finds the row a search would find, and touches that row only.
IndexedOpsSearchByField ==
    [][\A o \in Owner, i \in Index :
          /\ IndexedForEachMut(o, i) /\ Rows(table.data) # {}
                => Fields!ForEachMut(o)
          /\ \A ik \in IndexKey :
                /\ IndexedRemove(o, i, ik) => Fields!RemoveBy(o, i, ik)
                /\ \A v \in Value :
                      IndexedMutate(o, i, ik, v) => Fields!MutateBy(o, i, ik, v)
      ]_storageVars

\* A get through an index returns what a search by field would.
IndexedGetSearchesByField ==
    \A i \in Index, ik \in IndexKey : IndexedGet(i, ik) = Fields!GetBy(i, ik)
=============================================================================
