# ts-kvstore in TLA+

Specifications, model-checking runs and proofs for
[`ts-kvstore`](../src/src/lib.rs), an in-memory key-value store whose schema of
tables, indexes and singletons is generated by macros and whose data sits behind
one `std::sync::RwLock`.

The questions asked here are those that its unit tests, which make a few calls on
one thread, do not reach: do the indexes agree with the table after *any*
sequence of calls, panicking ones included; does ownership hold up; are calls and
transactions of several threads atomic; what do readers see while others write;
may a caller go on using a value it shares with the store; does everybody get the
lock in the end, async tasks included.

## The system

| Component | State | Operations | What makes it correct |
|---|---|---|---|
| tables (`storage.rs`, `operations.rs`) | owner, `HashMap` of rows, index tables | `init`, `clear`, `insert`, `mutate`, `remove`, `for_each_mut`, reads | types; an unowned table is empty; nobody but the owner changes rows; an owner is never displaced |
| indexes (`schema.rs`, `operations.rs`, `index.rs`) | one `HashMap` field -> key per index, with an owner of its own | `on_insert`, `on_remove`, `build`, `clear`; the table's operations by field; the index used directly as a table | no entry dangles or leads to a row with another field; no row is missing; an operation by field acts as a search would |
| singletons (`singleton.rs`, `operations.rs`) | (owner, value) per type, with tombstones; a value is inline, boxed, an `Arc` or a static reference | `insert`, `mutate`, `remove`, `clear`, `get_arc`, reads | only the owner changes one, and only a `remove` of its own gives it up, not a `clear`; conversions find the variant they expect; what `mutate` changes is nobody else's |
| store and lock (`lib.rs`, `raw.rs`) | `RwLock<Storage>`, its poisoning | every raw call: guard, operation, drop | calls are atomic; after a panic under a write guard nobody gets in; no guard outlives its call |
| transactions (`transactions.rs`) | a guard and an owner | `begin`, `try_begin`, both also read-only; calls; `commit`, drop, panic | a transaction is atomic and isolated; a read-only one sees one state |
| iterators (`iter.rs`) and `for_each` | a guard and a `HashMap` iterator | `next`, early drop, end | the table does not change under it; a loop that ends has seen every row its table or index leads to, but for an iterator over the values of a dangling index, which stops short |
| async tasks (`lib.rs`, "Async access") | which task each worker of the executor runs, which guards are alive over an `await` | schedule, `await`, calls, reads under a guard | every call ends, but for two traps that are known |
| macros (`schema.rs`) | none of their own | the code they generate for indexes and for singletons | see those rows |
| guard wrappers, errors, example | none | | the compiler's business; the example is one caller |

**How they interact.** Raw calls and transactions both reduce to a guard on
`Storage` (the traits `Ops` and `OpsMut`); the operations of `operations.rs` run
under whichever guard it is. Operations on the base table call the code generated
for its indexes, which are fields of the same `Table`. Closures of callers run
inside operations and may panic there; a write guard that is dropped by a panic
poisons the lock, and every later `unwrap` of it panics. An iterator takes its
guard along, and so does an async task that awaits with one: the lock blocks its
thread, not only the task. `Arc`s and static references that callers put into
singletons or get out of them outlive every guard.

**What is hard.** An operation updates a table and its indexes one after the
other, with a caller's closure in between. `IndexedOpsMut::mutate` keeps a pointer
into an index that it then changes. `inner_iter` extends the lifetime of a
reference beyond what the compiler can check. Ownership is checked in debug builds
only. Locks are held across arbitrary code of callers, which may read while it
iterates or await. `mutate` gives out a mutable reference to a value behind a
pointer. The hazards in `PROJECT.json` list these, with the line and the
properties that cover each.

## The modules

| Module | What it is |
|---|---|
| `Storage` | `Table` with its indexes, and the singletons; one action per mutating operation, and one per operation that a panic can interrupt |
| `FieldTable` | abstract: a table that is searched by field and has no index |
| `RwLock` | external: `std::sync::RwLock` with waiting writers and poisoning |
| `KvStore` | threads, raw calls and transactions: composes `Storage` and `RwLock` |
| `AtomicStore` | abstract: serializable transactions over a database that may go down |
| `Iterators` | extends `KvStore` with iterations of many steps |
| `Tasks` | extends `KvStore`: its threads are async tasks on the workers of an executor |
| `Singletons` | the storage classes of singletons, the heap, and the handles of callers; implements the singletons of `Storage` |
| `Claims` | `Singletons` with a history variable: whose each singleton should be, going by the calls made |
| `MCStorage`, `MCKvStore`, `MCIterators`, `MCTasks`, `MCSingletons` | instances for TLC: rows as records of one field per index and a body, tasks tied to a worker, singletons of each class |
| `StorageProofs`, `IndexProofs`, `OwnershipProofs`, `FieldProofs` | theorems about `Storage` |
| `KvStoreProofs`, `IteratorProofs`, `TaskProofs`, `SingletonProofs` | theorems about the module they are named after |

### State and code

* `table` is `Table<D, Indexes>` (`storage.rs`): `owner`, `data`, and under
  `indexes` and `indexOwner` the generated index tables. A `HashMap` is a function
  whose absent entries are `None`. One base table stands for all of them: no
  operation touches two, and `HashMap`s of different tables share nothing but the
  lock. `field[i][v]` is the field that index `i` reads from row `v`.
* `singletons` maps a type to `(Owner, SinValue)`. A `None` value with an owner is
  the tombstone `SinValue::None`. To `Storage` a value is a value.
* `Singletons` opens it up: `entries[s]` is the `(Owner, SinValue)` of a singleton,
  its variant and its payload, which is a value or a cell; `heap[c]` is what is in
  cell `c`; `held` are the cells that some caller has an `Arc` or a reference to.
  A cell is freed when nothing holds or points to it and may be used again.
  `ToValue`, `FromValueRef` and `Handed` are the conversions that `singleton!`
  generates, `MutSingleton` and the guard of `GetArc` the traits it implements for
  a class and not for others. `claim[s]`, in `Claims`, is history: the first owner
  to insert or clear `s` since its claimant last removed it.
* An operation by a closure (`mutate`, `for_each_mut`) chooses what the closure
  makes of its rows. `Rebuilt` gives every outcome of `build`, since a `HashMap`
  is walked in an arbitrary order and the last of the rows that share a field wins;
  the order is the same for all indexes of one pass.
* `writers`, `readers`, `queued`, `poisoned` are the lock. `session[t]` says what
  thread `t` is doing: `waiting` for the lock in a call, `holding` a guard, or, for
  a raw write, `returning`, with the write done and its guard still alive.
  `committed` is history: the contents when the current write guard was taken.
* `iter[t]` is the iterator of a thread, over the table (`None`) or over an index:
  entries ahead and entries given.
* `running[w]` is the task that worker `w` runs. A task that waits for the lock stays
  there; `AwaitIdle` and `AwaitWithGuard` free the worker. Guards of std cannot
  change threads, so only a task with a `home` awaits with one. `nested[t]` is a
  second read, under a guard of the same task, that has not returned: in the loop
  over an iterator, in a closure, or on the store beside a transaction on it. A
  second call that writes blocks under any guard and is a special case of no
  interest; std may panic instead of blocking when a thread holds the write lock
  already, which the model takes for blocking.

Definitions whose name ends in `Slip` are not the code. Each is the definition
that follows it with one plausible mistake, and is there so that every property is
seen to fail on a wrong program.

### Parameters that stand for circumstances

| Constant | TRUE when |
|---|---|
| `DebugAssertions` | the build has `cfg(debug_assertions)`, so owners are checked |
| `UniqueFields` | callers keep the documented rule that a field identifies a row; the rule is a guard on the calls that could break it |
| `DirectIndexAccess` | callers also write to `index::T::f` directly ("I don't recommend it") |
| `CatchUnwind` | callers catch a panic while they hold the guard, and go on |
| `StaleKeyIntact` | a key reads back the same after its index entry is gone (true of `Copy` keys in an undisturbed slot); FALSE lets it read as any key |
| `WritersFirst` | a queued writer keeps new readers out, as in std's futex lock |

Three more are sets and functions: `AwaitOver` and `NestUnder` are the calls over
whose guards tasks await and under whose guards they read again, `home` ties
tasks to workers, and `class` is the storage class each singleton is declared with.

## What the runs show

All parameters not named are at their ordinary values: debug build, no caught
panics, no direct index access, keys intact.

| Run | Question and instance | Properties |
|---|---|---|
| `storage_refines` | 2 keys, 2 indexes of 3 values, distinct fields, 2 owners: is the indexed table a table searched by field? | `IndexComplete`, `IndexedLenAgrees`, `IndexedGetSearchesByField`, `ImplementsFieldTable`, `IndexedOpsSearchByField` |
| `storage_shared` | 3 keys, 2 indexes of 2 values, so rows must share fields | `StorageTypeOK`, `IndexSound`, `UnownedIsEmpty` |
| `storage_damaged` | caught panics, direct index access, shared fields | `OwnerIsForever`, `ForEachMutRepairs` |
| `kv_atomic` | 2 threads of 2 calls each, 2 owners, 2 keys, rows that share a field and differ in a body, a singleton, panics that are caught or unwind | `TypeOK`, `ImplementsAtomicStore`, `SnapshotIsStable`, `OnlyOwnersMutate` |
| `tasks` | 3 tasks of 1 call each on 2 workers, 2 tasks tied to one of them; awaits and second reads under every kind of guard that allows them; a key, an index and 2 fields; panics that unwind | `LockIsNeverLost`, `LockMovesOn`, `HoldersSeeExactIndexes`, `CallsEndOrStuck`, `StuckForGood` |
| `iter_loops` | 3 threads of 1 call each, iterations over table and index, direct index access so that entries dangle | `IterationSeesTable`, `LoopsVisitAll` |
| `singletons` | a singleton of each class and a second `Arc` one, 2 owners, 2 values, 2 heap cells and a static | `SinTypeOK`, `VariantsMatch`, `MutableIsUnique`, `OwnerIsClaimant`, `SharedValuesStay`, `ImplementsPairs` |
| `tasks_nested` | 2 tasks, second reads under raw read guards only, no awaits | `SecondReadsReturn` is violated |
| `tasks_iterator` | 2 tasks on 1 worker, awaits over raw read guards only | `SafeWithoutAwaitInTransactions` is violated |
| `storage_stale_key` | `StaleKeyIntact` FALSE | `IndexSound` is violated |
| `storage_caught_panic` | `CatchUnwind` TRUE | `IndexSound` is violated |
| `kv_release` | `DebugAssertions` FALSE | `OnlyOwnersMutate` is violated |

**Bounds.** `MaxCalls` bounds the calls and transactions of a thread and is the
only bound; a transaction makes any number of calls, so one is enough to reach any
contents. Two keys and two values of a field are the least in which a row can be
redirected to another's entry; with three rows a field can be shared and unshared
again. Two indexes are what it takes for an operation through one of them to be
wrong about another. Two threads show every conflict on a lock with one writer;
the third, in `tasks` and `iter_loops`, is a reader next to a waiting writer, and
in `tasks` it may also be the innocent task whose worker is taken. Two `Arc`
singletons can hold the same cell, and two heap cells let one be freed and used
again while the other is kept. Symmetry permutes threads, keys, owners, bodies,
values, cells and indexed fields where no definition tells them apart, and is not used
where a liveness property, or the `CHOOSE` of `FieldTable`, is evaluated.

**Fairness.** Only liveness under `FairTaskSpec` assumes any. The executor runs
every ready task again and again (strong fairness of `Schedule`, since workers come
and go) and a task yields between its calls. A call that is blocked takes the lock if it
stays free (weak fairness of `Acquire` and `UnwrapPanics`); strong fairness here
would promise more than std's lock does. A raw write does its work and a guard is
dropped in the end however often its task awaits or reads again meanwhile (strong
fairness), which is what the crate asks of transactions ("kept short"). Nobody has
to begin anything. Calls are finitely many, so `CallsEndOrStuck` means freedom
from deadlock outside the two traps; that an endless stream of readers may starve a
writer, or the reverse, is up to std.

**The two traps.** `CallsEndOrStuck` names the only ways to lose the lock for good:
a task awaited with a guard and its worker is now blocked (`StuckBehindAwait`), or
a task reads again, behind a queued writer or under its own write guard
(`BlocksItself`). `StuckForGood` says that no step gets anyone out, and `LockMovesOn`,
a state property, that there is no third trap: while a task waits and nobody is in
one of the two, a task that is in the way of the lock can go on. The instance leaves
both traps open, so the promises are checked next to them and not by leaving them
out.

## Findings

1. **A key is used after its entry is dropped** (`storage_stale_key`).
   `IndexedOpsMut::mutate` (operations.rs:415) holds a pointer to the key inside an
   index entry, `on_remove` removes that entry, and `on_insert` clones the key from
   it. For keys such as `String` this reads freed memory. The tests use `u32`.
   Cloning the key first, as `remove` does in effect, would mend it.
2. **A caught panic leaves indexes wrong** (`storage_caught_panic`). The comments
   in `operations.rs` know of it; the crate's documentation says that indexes are
   updated atomically. Without a catch inside the transaction the poisoned lock
   hides the damage: that is `HoldersSeeExactIndexes`.
3. **Release builds have no owners** (`kv_release`), where the documentation says
   that a pair "can only be mutated by" its owner.
4. **Reading inside a loop can deadlock** (`tasks_nested`), as the example
   `smoke.rs` would next to a second thread that writes.
5. **An iterator is a guard, too** (`tasks_iterator`). The crate says that async use
   is safe as long as no transaction awaits. The iterator of a raw table
   (`raw.rs:263`) holds a read guard for its whole life; a local task that awaits
   in such a loop deadlocks with a writer on its thread. "No `await` while a guard
   is alive, an iterator's included" would be right.

## What is proved

The theorems hold for every set of threads, keys, rows, indexes and owners and for
any `MaxCalls`. The assumptions on constants are that `field`, `home` and `class`
are functions of the right type, that closures do not await, that statics are
cells, and that `None` is none of the values it stands beside. Everything else that
a theorem needs is in its statement.

* `StorageProofs!TypeCorrect`: types, one lemma per operation. `AnyCalls` is the
  specification that the other theorems about `Storage` are proved of where they do
  not need an undisturbed store: a sequence of calls that complete or panic, by any
  owners. `StorageSpec` implements it, and so does a shared store (below), so each
  argument is made once for both.
* `IndexProofs!IndexesStaySound` and `IndexesStayComplete`, for an `Undisturbed`
  store (no caught panics, no direct index access, keys intact). Soundness is
  kept by every whole call, given the types, but not by the two halves of one: between
  `OnRemove` and `OnInsert` the argument goes through `Unindexed`. Once a row has
  left sound indexes no entry leads to its key, even if its own entry had been
  taken over by a row that shares the field; so its data may change, and new
  entries for that key alone are sound. Completeness needs soundness beside it,
  and distinct fields, so that the entry that is taken out was the row's own.
* `OwnershipProofs!OwnersStay` (in any build) and `UnownedStaysEmpty`.
* `FieldProofs` relates `Storage` to `FieldTable`. `IndexedTableIsFieldTable` needs
  no indexes at all: rows and owner change as those of a `FieldTable` in any debug
  build, with panics and damaged indexes, since `UnownedIsEmpty` puts a row only
  where there is an owner to assert. The indexes come in with
  `GetsSearchByField`, `OperationsSearchByField` and `IndexedLensAgree`, which rest
  on `ExactInv` (sound, complete and distinct): the entry for a field is then the
  one row that a search finds, and rows and visited entries are in bijection
  (whence `IsFiniteSet(Key)`). `ForEachMutMends`
  holds of single steps, given the types. `IndexesAreAsRebuilt` compares the two ways
  the code has of keeping indexes: exact indexes of given rows are unique, so what
  `on_insert` and `on_remove` arrive at is what `clear` and `build` would.
  `RebuildHasAnOutcome` guards the theorems about `for_each_mut` against being
  about nothing: the order of a finite set of keys is a pass, whose outcome is found
  by the least number of each set.
* `KvStoreProofs!GuardsExclude` is the invariant behind the rest: sessions and
  guards agree, a writer is alone, and nobody holds a guard on a poisoned lock.
  Mutual exclusion is not inductive without the first and third part. From it come
  `ReadersKeepTheirSnapshot`, `PoisonIsFinal`, and `HoldersFindSoundIndexes` and
  `HoldersFindExactIndexes`, whose invariants are "poisoned, or sound" and "poisoned,
  or exact". `HoldersSearchByField` says what the latter is for: a get by field under
  any guard is a search.
* `KvStoreProofs!StoreIsOneSequence`: whatever threads, guards and panics do, the
  storage goes through one sequence of `AnyCalls`, since only the writer changes it
  and does so by a call or a panic of its owner. Hence the theorems that a table
  keeps its owner (`SharedOwnersStay`), that an unowned one is empty
  (`SharedUnownedStaysEmpty`), that rows change as those of a `FieldTable`
  (`SharedTableIsFieldTable`, debug builds) hold for any number of threads.
  `OwnersMutateAlone` (debug builds) adds under whose guard, and
  `SharedSingletonsAreReleased` that an owned singleton gets rid of its owner only by
  a `remove` under a write guard of that owner.
* `KvStoreProofs!CallsAreAtomic`: `Spec` implements `AtomicStore`. The
  refinement takes the contents, or while a writer is open the contents at its
  beginning, for the database, and each guard for a transaction; the panic of a
  writer fails the transaction and takes the database down. Beside the guards it
  needs that `committed` is set exactly while a writer is open or has died.
  The same invariant gives two consequences in the terms of the code:
  `ReadersSeeCommitted`, and `CommitsPublish`, by which nothing but the drop of a
  write guard changes what later transactions build on.
* `KvStoreProofs!LockStaysWithSomebody`: nobody waits for a guard that is not
  there. Beside `Guards` it takes that the queue holds waiting writers only.
* `TaskProofs!TasksUseStore`: tasks take steps of `KvStore`. `TasksKeepLock` follows.
  `TrapsAreForGood` needs an invariant of where tasks are (`TasksInPlace`): a
  task off its workers is idle or is tied to one and awaits with a guard, a tied task
  runs on no other worker than its own, and one that reads again holds a guard.
  `LockAlwaysMovesOn` (the property `LockMovesOn`) goes from a task that waits to
  one that has the lock or can have it, and from a holder that is off its worker to
  the task that is on it. `TasksMakeTheirTraps` adds to the invariant that tasks
  await and read again only over the calls they are said to (`HabitsInv`): a task
  in a trap has awaited over its own guard, or read again under its own write guard or
  behind a queued writer. So `CarefulTasksAreSafe`: tasks that await with no guard
  alive, and read again at most under read guards where the lock does not put writers
  first, are never in either trap, and the lock moves on among them. This is the rule
  that finding 5 asks the documentation to state.
* `SingletonProofs`: `SinInvariant` is that variants match classes, that what an
  entry points to is there, that a box has one entry and no handle, and that handles and
  statics point to live cells. Uniqueness of boxes is not inductive without the
  last part, since a cell is used again once it is free. From it
  come `SingletonsTyped`, `ConversionsSucceed`, `MutableStaysUnique`,
  `SharedValuesAreStable` and the
  refinement `SingletonsArePairs`, which says of each call that it is the call of the
  same name in `Storage`. `ClaimantsOwn` (debug builds) has an invariant of its own:
  the owner in an entry, tombstone or not, is the claimant, so that the assertion of
  every call is an assertion about the claimant. `ClaimsAreHistory` says that `Claims`
  adds no behaviour to `Singletons`.
* `IteratorProofs!IteratorsUseStore`: iterating takes steps of `KvStore`, so all
  of the above holds with iterators. `IteratorsSeeTable` and `LoopsSeeAll`
  follow from an invariant that every live iterator has its guard and that given
  and remaining entries make up the table. An iterator's guard means that the lock is
  not poisoned, so in an undisturbed store its index is sound:
  `IteratorsNeverDangle` (the values of an index never stop short), and with distinct
  fields `LoopsGiveEachRowOnce`, which says of every loop over the table or an index
  that runs to its end what a caller expects of it.

**Model-checked only.** `CallsEndOrStuck`, and the two refuted properties
`SecondReadsReturn` and `SafeWithoutAwaitInTransactions`, are liveness under
fairness, beyond the prover; `LockMovesOn` and `TrapsAreForGood` prove of it what
is about single states and steps. Every other property of a passing run has its
theorem.

## What is not modelled

* Hashing, allocation, capacity and cloning; types of keys and values beyond what
  is said above; downcasts of `dyn Any`, which `VariantsMatch` comes before and
  the declaration of a singleton settles.
* Return values, except where a property compares what a read returns. That
  includes `Error::AlreadyInit`, and whether a caller that is not the owner gets a
  panic or, from `mutate` through an index without the entry, `None`
  (operations.rs:415): neither changes anything.
* Lookups that miss a row because rows share a field: the documentation rules such
  rows out. What is shown without that rule is `IndexSound`.
* Code of callers other than closures that runs under the lock (`Clone`, `Drop`,
  `Hash` of keys and values): if it panics or calls the store it does what a
  closure does.
* The guard wrappers `RefWriteGuard`, `RefWriteGuardMut` and `RefReadGuard`, which
  forward `Deref`.
* Rust's borrow rules are built in where they rule something out: a transaction
  with a live iterator is neither written to nor committed.

## Plan

Done, in this order: `Storage` with its indexes and ownership, as everything
else rests on them; `KvStore` over `RwLock`; the abstract specifications; the
proofs up to `CallsAreAtomic`; `Iterators`; `Tasks`; `Singletons`; `FieldProofs`; what
single calls keep to, of shared stores, iterators and careful tasks.

Left: return values of the mutating calls (the old row, `None` for a tombstone,
`AlreadyInit`) in an abstract specification of one owner's session, and two base
tables under one lock, for transactions that span them.
