--------------------------- MODULE IteratorProofs ---------------------------
(***************************************************************************)
(* Proofs about Iterators.  A thread with an iterator is a thread of       *)
(* KvStore that is under its guard, so what KvStoreProofs shows carries    *)
(* over; and the guard keeps the table as the iterator found it.           *)
(***************************************************************************)
EXTENDS Iterators, KvStoreProofs

\* A thread iterates under a guard.
IteratorsHaveGuards ==
    \A t \in Thread : Live(t) => Reading(t) \/ Is(t, "holding", "txn")

IterInv == IterTypeOK /\ IteratorsHaveGuards /\ IterationSeesTable

LEMMA EntriesType ==
    ASSUME NEW over \in Option(Index)
    PROVE  Entries(over) \subseteq Key \cup IndexKey
BY DEF Entries, Rows

LEMMA LiveTyped ==
    ASSUME IterTypeOK, NEW t \in Thread, Live(t)
    PROVE  iter[t] \in Iterator
BY DEF IterTypeOK, Live

----------------------------------------------------------------------------
(* The steps of KvStore.                                                    *)

LEMMA ReleaseIsStep ==
    ASSUME NEW t \in Thread, Release(t)
    PROVE  /\ Step(t) \/ UNCHANGED vars
           /\ UNCHANGED storageVars
BY DEF Release, Step, DropGuard, vars

\* Iterating takes the steps of KvStore, or none of them.
THEOREM IteratorsUseStore == IterSpec => Spec
<1>1. IterInit => Init
    BY DEF IterInit
<1>2. [IterNext]_allVars => [Next]_vars
    <2>1. ASSUME NEW t \in Thread, IterStep(t)
          PROVE  Step(t) \/ UNCHANGED vars
        <3>1. LoopUnwinds(t) => Step(t)
            BY DEF LoopUnwinds, Step
        <3> QED BY <2>1, <3>1, ReleaseIsStep
            DEF IterStep, StartIteration, Yield, Skip, IterationEnds,
                IterationAbandoned, CallStep
    <2> QED BY <2>1 DEF IterNext, Next, allVars
<1> QED BY <1>1, <1>2, PTL DEF IterSpec, Spec

LEMMA OthersKeepSession ==
    ASSUME TypeOK, NEW t \in Thread, Step(t), NEW u \in Thread \ {t}
    PROVE  session'[u] = session[u]
BY DEF Step, Begin, Acquire, UnwrapPanics, TryBegin, TryBeginFails, RawWrite,
       TransactionCall, TransactionCatches, Unwind, DropGuard, Enter, Leave, TypeOK

\* A call changes nothing while another thread iterates.
LEMMA IteratorsKeepTable ==
    ASSUME Guards, IteratorsHaveGuards,
           NEW t \in Thread, Step(t), ~Live(t), NEW u \in Thread, Live(u)
    PROVE  UNCHANGED storageVars
<1>1. ASSUME ~UNCHANGED storageVars
      PROVE  t \in writers
    BY <1>1, StepStorage DEF Guards, WriteSession
<1>2. u \in readers \/ u \in writers
    BY DEF IteratorsHaveGuards, Guards, WriteSession
<1> QED BY <1>1, <1>2 DEF Guards

----------------------------------------------------------------------------
(* The invariant.                                                           *)

\* The thread of an iteration leaves that of others alone.
LEMMA OthersSeeTable ==
    ASSUME IterInv, UNCHANGED storageVars, NEW u \in Thread,
           iter'[u] = iter[u], session'[u] = session[u]
    PROVE  /\ (Live(u) => Reading(u) \/ Is(u, "holding", "txn"))'
           /\ (Live(u) => SeesTable(iter[u]))'
<1>1. (Live(u) => Reading(u) \/ Is(u, "holding", "txn"))'
    BY DEF IterInv, IteratorsHaveGuards, Live, Reading, Is
<1>2. (Live(u) => SeesTable(iter[u]))'
    BY DEF IterInv, IterationSeesTable, Live, SeesTable, Entries, Dangles,
           RowOf, Rows, storageVars
<1> QED BY <1>1, <1>2

LEMMA IterStepInv ==
    ASSUME TypeOK, Guards, IterInv, NEW t \in Thread, IterStep(t)
    PROVE  IterInv'
<1>1. CASE StartIteration(t)
    <2>1. PICK kind \in Kind, over \in Option(Index) :
            iter' = [iter EXCEPT ![t] = [kind |-> kind, over |-> over,
                                         ahead |-> Entries(over), given |-> {}]]
        BY <1>1 DEF StartIteration
    <2>2. UNCHANGED <<vars, storageVars, session>>
        BY <1>1 DEF StartIteration, vars
    <2>3. IterTypeOK'
        BY <1>1, <2>1, EntriesType DEF StartIteration, IterInv, IterTypeOK, Iterator
    <2>4. /\ iter'[t] = [kind |-> kind, over |-> over,
                         ahead |-> Entries(over), given |-> {}]
          /\ \A u \in Thread \ {t} : iter'[u] = iter[u]
        BY <2>1 DEF IterInv, IterTypeOK
    <2>5. SeesTable(iter[t])'
        BY <2>2, <2>4 DEF SeesTable, Entries, Dangles, RowOf, Rows, storageVars
    <2>6. (Reading(t) \/ Is(t, "holding", "txn"))'
        BY <1>1, <2>2 DEF StartIteration, Reading, Is
    <2> QED BY <2>2, <2>3, <2>4, <2>5, <2>6, OthersSeeTable
            DEF IterInv, IteratorsHaveGuards, IterationSeesTable
<1>2. CASE Yield(t)
    <2>1. PICK e \in iter[t].ahead :
            /\ iter[t].kind = "keys" \/ ~Dangles(iter[t].over, e)
            /\ iter' = [iter EXCEPT ![t].ahead = @ \ {e}, ![t].given = @ \cup {e}]
        BY <1>2 DEF Yield
    <2>2. UNCHANGED <<vars, storageVars, session>> /\ Live(t)
        BY <1>2 DEF Yield, vars
    <2>3. iter[t] \in Iterator
        BY <2>2, LiveTyped DEF IterInv
    <2>4. /\ iter'[t] = [iter[t] EXCEPT !.ahead = @ \ {e}, !.given = @ \cup {e}]
          /\ \A u \in Thread \ {t} : iter'[u] = iter[u]
        BY <2>1 DEF IterInv, IterTypeOK
    <2>5. IterTypeOK'
        <3>1. [iter[t] EXCEPT !.ahead = @ \ {e}, !.given = @ \cup {e}] \in Iterator
            BY <2>3 DEF Iterator
        <3> QED BY <3>1, <2>1 DEF IterInv, IterTypeOK
    <2>6. SeesTable(iter[t])'
        <3> DEFINE it == iter[t]
        <3>1. /\ iter'[t].kind = it.kind /\ iter'[t].over = it.over
              /\ iter'[t].ahead = it.ahead \ {e}
              /\ iter'[t].given = it.given \cup {e}
            BY <2>3, <2>4 DEF Iterator
        <3>2. SeesTable(it)
            BY <2>2 DEF IterInv, IterationSeesTable
        <3>3. /\ Entries(it.over)' = Entries(it.over)
              /\ \A x : Dangles(it.over, x) <=> Dangles(it.over, x)'
            BY <2>2, <3>1 DEF storageVars, Entries, Dangles, RowOf, Rows
        <3> HIDE DEF it
        <3>4. /\ (it.given \cup it.ahead)' = it.given \cup it.ahead
              /\ it'.kind = it.kind
            BY <2>1, <3>1 DEF it
        <3>5. it.kind # "keys" => ~Dangles(it.over, e)
            BY <2>1 DEF it
        <3>6. SeesTable(it)'
            BY <3>1, <3>2, <3>3, <3>4, <3>5 DEF SeesTable, it
        <3> QED BY <3>6 DEF it
    <2>7. (Reading(t) \/ Is(t, "holding", "txn"))'
        BY <2>2 DEF IterInv, IteratorsHaveGuards, Reading, Is
    <2> QED BY <2>2, <2>4, <2>5, <2>6, <2>7, OthersSeeTable
            DEF IterInv, IteratorsHaveGuards, IterationSeesTable
<1>3. CASE Skip(t)
    <2>1. PICK e \in iter[t].ahead :
            /\ Dangles(iter[t].over, e)
            /\ iter' = [iter EXCEPT ![t].ahead = @ \ {e}]
        BY <1>3 DEF Skip
    <2>2. /\ UNCHANGED <<vars, storageVars, session>>
          /\ Live(t) /\ iter[t].kind = "for_each"
        BY <1>3 DEF Skip, vars
    <2>3. iter[t] \in Iterator
        BY <2>2, LiveTyped DEF IterInv
    <2>4. /\ iter'[t] = [iter[t] EXCEPT !.ahead = @ \ {e}]
          /\ \A u \in Thread \ {t} : iter'[u] = iter[u]
        BY <2>1 DEF IterInv, IterTypeOK
    <2>5. IterTypeOK'
        BY <1>3, <2>1, <2>3, <2>4 DEF Skip, IterInv, IterTypeOK, Iterator
    <2>6. SeesTable(iter[t])'
        BY <2>1, <2>2, <2>3, <2>4
           DEF IterInv, IterationSeesTable, SeesTable, Entries, Dangles, RowOf,
               Rows, storageVars, Iterator
    <2>7. (Reading(t) \/ Is(t, "holding", "txn"))'
        BY <2>2 DEF IterInv, IteratorsHaveGuards, Reading, Is
    <2> QED BY <2>2, <2>4, <2>5, <2>6, <2>7, OthersSeeTable
            DEF IterInv, IteratorsHaveGuards, IterationSeesTable
<1>4. CASE IterationEnds(t) \/ IterationAbandoned(t) \/ LoopUnwinds(t)
    <2>1. /\ iter' = [iter EXCEPT ![t] = NoIterator]
          /\ UNCHANGED storageVars
          /\ Step(t) \/ UNCHANGED vars
        BY <1>4, ReleaseIsStep
           DEF IterationEnds, IterationAbandoned, LoopUnwinds, Release, Step
    <2>2. IterTypeOK'
        BY <2>1 DEF IterInv, IterTypeOK
    <2>3. ~Live(t)' /\ \A u \in Thread \ {t} : iter'[u] = iter[u]
        BY <2>1 DEF IterInv, IterTypeOK, Live
    <2>4. \A u \in Thread \ {t} : session'[u] = session[u]
        BY <2>1, OthersKeepSession DEF vars
    <2> QED BY <2>1, <2>2, <2>3, <2>4, OthersSeeTable
            DEF IterInv, IteratorsHaveGuards, IterationSeesTable
<1>5. CASE CallStep(t)
    <2>1. Step(t) /\ ~Live(t) /\ UNCHANGED iter /\ IterTypeOK'
        BY <1>5 DEF CallStep, IterInv, IterTypeOK
    <2>2. ASSUME NEW u \in Thread, Live(u)
          PROVE  UNCHANGED storageVars /\ session'[u] = session[u]
        BY <2>1, <2>2, IteratorsKeepTable, OthersKeepSession DEF IterInv
    <2> QED BY <2>1, <2>2, OthersSeeTable
            DEF IterInv, IteratorsHaveGuards, IterationSeesTable, Live
<1> QED BY <1>1, <1>2, <1>3, <1>4, <1>5 DEF IterStep

\* Threads that iterate keep the invariants of KvStore and their own: every
\* iterator of iter.rs is under a guard, and its table is as it was.
THEOREM IteratorsHoldInvariant == IterSpec => [](TypeOK /\ Guards /\ IterInv)
<1>1. IterInit => IterInv
    BY DEF IterInit, IterInv, IterTypeOK, IteratorsHaveGuards,
           IterationSeesTable, Live
<1>2. TypeOK /\ Guards /\ IterInv /\ [IterNext]_allVars => IterInv'
    <2> SUFFICES ASSUME TypeOK, Guards, IterInv, [IterNext]_allVars
                 PROVE  IterInv'
        OBVIOUS
    <2>1. CASE UNCHANGED allVars
        <3>1. UNCHANGED <<storageVars, session, iter>>
            BY <2>1 DEF allVars, vars
        <3> QED BY <3>1, OthersSeeTable
                DEF IterInv, IterTypeOK, IteratorsHaveGuards, IterationSeesTable
    <2>2. CASE Finished /\ UNCHANGED iter
        BY <2>1, <2>2 DEF Finished, allVars
    <2> QED BY <2>1, <2>2, IterStepInv DEF IterNext
<1> QED BY <1>1, <1>2, IteratorsUseStore, GuardsExclude, PTL DEF IterSpec

\* A guard that lives as long as its iterator keeps the table as it is
\* (iter.rs): in every state an iteration has given, or has ahead of it, just
\* the entries of the table or index.
THEOREM IteratorsSeeTable == IterSpec => []IterationSeesTable
<1>1. IterInv => IterationSeesTable
    BY DEF IterInv
<1> QED BY <1>1, IteratorsHoldInvariant, PTL

\* A loop that ends has seen what there is to see: operations.rs's for_each
\* every row that the index leads to, an iterator of iter.rs as much unless
\* it comes upon an entry that dangles.
THEOREM LoopsSeeAll == IterSpec => LoopsVisitAll
<1>1. ASSUME IterInv, NEW t \in Thread, IterationEnds(t)
      PROVE  LoopVisitsAll(t)
    <2>1. iter[t] \in Iterator /\ SeesTable(iter[t])
        BY <1>1, LiveTyped DEF IterationEnds, IterInv, IterationSeesTable
    <2>2. CASE iter[t].ahead = {}
        BY <2>1, <2>2 DEF SeesTable, LoopVisitsAll, Visits, Iterator, Kind
    <2>3. CASE /\ iter[t].kind = "values"
               /\ \E e \in iter[t].ahead : Dangles(iter[t].over, e)
        BY <2>1, <2>3 DEF SeesTable, LoopVisitsAll, Visits, Iterator
    <2> QED BY <1>1, <2>2, <2>3 DEF IterationEnds, ReturnsNone
<1>2. IterInv => [\A t \in Thread : IterationEnds(t) => LoopVisitsAll(t)]_allVars
    BY <1>1
<1> QED BY <1>2, IteratorsHoldInvariant, PTL DEF IterSpec, LoopsVisitAll

----------------------------------------------------------------------------
(* Over sound indexes.                                                      *)

\* Two entries of a sound index never lead to the same row, and every entry
\* leads to one.
LEMMA SoundEntries ==
    ASSUME IndexSound, NEW over \in Option(Index),
           NEW d \in Entries(over), NEW e \in Entries(over)
    PROVE  /\ ~Dangles(over, e)
           /\ RowOf(over, d) = RowOf(over, e) => d = e
BY IndexAssumption
   DEF IndexSound, Sound, Option, Entries, Dangles, RowOf, Rows

LEMMA IteratorsAreNotPoisoned ==
    ASSUME TypeOK, Guards, IterInv, NEW t \in Thread, Live(t)
    PROVE  ~poisoned
BY HoldersAreNotPoisoned DEF IterInv, IteratorsHaveGuards, Reading, Is

\* While nobody catches a panic or writes to an index table, an iterator never
\* comes upon an entry that leads to no row, however rows share fields: the
\* values of an index never stop short, and for_each skips nothing.
THEOREM IteratorsNeverDangle ==
    Undisturbed =>
        (IterSpec => [](\A t \in Thread : Live(t) =>
                            Visits(iter[t].over) = Entries(iter[t].over)))
<1> SUFFICES ASSUME Undisturbed
             PROVE  IterSpec => [](\A t \in Thread : Live(t) =>
                                    Visits(iter[t].over) = Entries(iter[t].over))
    OBVIOUS
<1>1. TypeOK /\ Guards /\ IterInv /\ (poisoned \/ IndexSound) =>
        (\A t \in Thread : Live(t) =>
            Visits(iter[t].over) = Entries(iter[t].over))
    <2> SUFFICES ASSUME TypeOK, Guards, IterInv, poisoned \/ IndexSound,
                        NEW t \in Thread, Live(t)
                 PROVE  Visits(iter[t].over) = Entries(iter[t].over)
        OBVIOUS
    <2>1. IndexSound /\ iter[t].over \in Option(Index)
        BY IteratorsAreNotPoisoned, LiveTyped DEF IterInv, Iterator
    <2> QED BY <2>1, SoundEntries DEF Visits
<1> QED BY <1>1, IteratorsHoldInvariant, IteratorsUseStore, SoundUnlessPoisoned, PTL

\* The rows that an iteration has been given.
GivenRows(t) == {RowOf(iter[t].over, e) : e \in iter[t].given}

\* And when callers keep indexed fields distinct, a loop over the table or over
\* any of its indexes that runs to its end has been given every row of the
\* table, and each of them once.
THEOREM LoopsGiveEachRowOnce ==
    Undisturbed /\ UniqueFields =>
        (IterSpec =>
            [][\A t \in Thread : IterationEnds(t) =>
                  /\ GivenRows(t) = Rows(table.data)
                  /\ \A d, e \in iter[t].given :
                        RowOf(iter[t].over, d) = RowOf(iter[t].over, e) => d = e
              ]_allVars)
<1> DEFINE EachOnce ==
        \A t \in Thread : IterationEnds(t) =>
            /\ GivenRows(t) = Rows(table.data)
            /\ \A d, e \in iter[t].given :
                  RowOf(iter[t].over, d) = RowOf(iter[t].over, e) => d = e
<1> SUFFICES ASSUME Undisturbed, UniqueFields
             PROVE  IterSpec => [][EachOnce]_allVars
    OBVIOUS
<1>1. ASSUME TypeOK, Guards, IterInv, poisoned \/ ExactInv,
             NEW t \in Thread, IterationEnds(t)
      PROVE  /\ GivenRows(t) = Rows(table.data)
             /\ \A d, e \in iter[t].given :
                   RowOf(iter[t].over, d) = RowOf(iter[t].over, e) => d = e
    <2> DEFINE over == iter[t].over
    <2>1. Live(t) /\ iter[t] \in Iterator /\ SeesTable(iter[t])
        BY <1>1, LiveTyped DEF IterationEnds, IterInv, IterationSeesTable
    <2>2. ExactInv /\ IndexSound /\ table.data \in Data /\ over \in Option(Index)
        BY <1>1, <2>1, IteratorsAreNotPoisoned, Parts
           DEF ExactInv, Exact, IndexSound, Iterator, TypeOK
    <2>3. \A e \in Entries(over) : ~Dangles(over, e)
        BY <2>2, SoundEntries
    <2>4. iter[t].ahead = {} /\ iter[t].given = Entries(over)
        BY <1>1, <2>1, <2>3 DEF IterationEnds, ReturnsNone, SeesTable
    <2> HIDE DEF over
    <2>5. \A e \in Entries(over) : RowOf(over, e) \in Rows(table.data)
        <3>1. \A i \in Index, ik \in IndexKey : table.indexes[i][ik] \in Option(Key)
            BY <1>1, Parts DEF TypeOK, IndexTables
        <3> QED BY <2>2, <2>3, <3>1 DEF Entries, RowOf, Dangles, Rows, Option
    <2>6. ASSUME NEW k \in Rows(table.data)
          PROVE  \E e \in Entries(over) : RowOf(over, e) = k
        <3>1. CASE over = None
            BY <3>1 DEF Entries, RowOf
        <3>2. CASE over # None
            <4>1. over \in Index /\ k \in Key /\ k # None
                BY <2>2, <3>2, NoneAssumption DEF Option, Rows
            <4>2. field[over][table.data[k]] \in IndexKey
                BY <2>2, <4>1, FieldAssumption DEF Rows, Data, Option
            <4>3. table.indexes[over][field[over][table.data[k]]] = k
                BY <2>2, <4>1 DEF ExactInv, Exact, Complete
            <4> QED BY <3>2, <4>1, <4>2, <4>3 DEF Entries, RowOf
        <3> QED BY <3>1, <3>2
    <2>7. GivenRows(t) = Rows(table.data)
        BY <2>4, <2>5, <2>6 DEF GivenRows, over
    <2>8. \A d, e \in Entries(over) : RowOf(over, d) = RowOf(over, e) => d = e
        BY <2>2, SoundEntries
    <2> QED BY <2>4, <2>7, <2>8 DEF over
<1>2. TypeOK /\ Guards /\ IterInv /\ (poisoned \/ ExactInv) => [EachOnce]_allVars
    BY <1>1
<1> QED BY <1>2, IteratorsHoldInvariant, IteratorsUseStore, ExactUnlessPoisoned, PTL
=============================================================================
