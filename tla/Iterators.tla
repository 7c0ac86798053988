------------------------------ MODULE Iterators ------------------------------
(***************************************************************************)
(* Reads that take many steps: the iterators of iter.rs and the loops of   *)
(* for_each.  An iterator on a raw table owns a read guard that lives as   *)
(* long as the iterator; one in a transaction borrows the transaction's    *)
(* guard.  Between two steps other threads run.  (What becomes of a caller *)
(* that reads the store again in its loop is in module Tasks.)             *)
(*                                                                         *)
(* What the borrow checker enforces is built in: a transaction with a live *)
(* iterator neither mutates nor commits.  A thread has one iterator at a   *)
(* time.                                                                   *)
(***************************************************************************)
EXTENDS KvStore

ASSUME IndexAssumption == None \notin Index

VARIABLE iter       \* the iterator that a thread has

\* keys: iter_keys_cloned on an index; values: iter_cloned, iter_values_cloned,
\* and every iterator on a base table.
Kind == {"keys", "values", "for_each"}

\* Over the base table (None) an iteration goes through keys, over an index
\* through indexed fields.
Iterator == [kind : Kind, over : Option(Index),
             ahead : SUBSET (Key \cup IndexKey),
             given : SUBSET (Key \cup IndexKey)]

NoIterator == [kind |-> None, over |-> None, ahead |-> {}, given |-> {}]

IterTypeOK == iter \in [Thread -> Iterator \cup {NoIterator}]

IterInit ==
    /\ Init
    /\ iter = [t \in Thread |-> NoIterator]

----------------------------------------------------------------------------
Live(t) == iter[t] # NoIterator

\* The entries of the HashMap that an iteration walks through.
Entries(over) ==
    IF over = None THEN Rows(table.data)
    ELSE {ik \in IndexKey : table.indexes[over][ik] # None}

RowOf(over, e) == IF over = None THEN e ELSE table.indexes[over][e]
Dangles(over, e) == table.data[RowOf(over, e)] = None

\* The inner iterator and then the guard: a raw iterator ends its call.
Release(t) ==
    /\ iter' = [iter EXCEPT ![t] = NoIterator]
    /\ IF Is(t, "holding", "read") THEN DropGuard(t) ELSE UNCHANGED vars

----------------------------------------------------------------------------
\* A mistake, for mutation checks: the iterator borrows from the guard of a
\* function that returns, and does not own it.
StartIterationSlip(t) ==
    /\ ~Live(t)
    /\ Is(t, "holding", "read")
    /\ \E kind \in Kind, over \in Option(Index) :
          iter' = [iter EXCEPT ![t] = [kind |-> kind, over |-> over,
                                       ahead |-> Entries(over), given |-> {}]]
    /\ DropGuard(t)

StartIteration(t) ==
    /\ ~Live(t)
    /\ \E call \in {"read", "ro", "txn"} : Is(t, "holding", call)
    /\ \E kind \in Kind, over \in Option(Index) :
          iter' = [iter EXCEPT ![t] = [kind |-> kind, over |-> over,
                                       ahead |-> Entries(over), given |-> {}]]
    /\ UNCHANGED vars

\* next clones an entry, in any order.
Yield(t) ==
    /\ Live(t)
    /\ \E e \in iter[t].ahead :
          /\ iter[t].kind = "keys" \/ ~Dangles(iter[t].over, e)
          /\ iter' = [iter EXCEPT ![t].ahead = @ \ {e}, ![t].given = @ \cup {e}]
    /\ UNCHANGED vars

\* A mistake, for mutation checks: for_each breaks off where next does.
SkipSlip(t) ==
    /\ Live(t)
    /\ iter[t].kind = "for_each"
    /\ \E e \in iter[t].ahead : Dangles(iter[t].over, e)
    /\ iter' = [iter EXCEPT ![t].ahead = {}]
    /\ UNCHANGED vars

\* for_each goes on after an entry that leads to no row.
Skip(t) ==
    /\ Live(t)
    /\ iter[t].kind = "for_each"
    /\ \E e \in iter[t].ahead :
          /\ Dangles(iter[t].over, e)
          /\ iter' = [iter EXCEPT ![t].ahead = @ \ {e}]
    /\ UNCHANGED vars

\* next returns None: at the end, or at an entry that leads to no row.
ReturnsNone(t) ==
    \/ iter[t].ahead = {}
    \/ /\ iter[t].kind = "values"
       /\ \E e \in iter[t].ahead : Dangles(iter[t].over, e)

\* The loop over the iterator ends with it.
IterationEnds(t) == Live(t) /\ ReturnsNone(t) /\ Release(t)

\* The caller drops the iterator early, or panics over it as a reader.
IterationAbandoned(t) == Live(t) /\ Release(t)

\* A panic in the closure of for_each, or in a loop over an iterator, inside a
\* read/write transaction takes the guard along.
LoopUnwinds(t) ==
    /\ Live(t)
    /\ Is(t, "holding", "txn")
    /\ UNCHANGED storageVars
    /\ Unwind(t)
    /\ iter' = [iter EXCEPT ![t] = NoIterator]

\* A thread without an iterator goes on as in KvStore.
CallStep(t) == ~Live(t) /\ Step(t) /\ UNCHANGED iter

IterStep(t) ==
    \/ StartIteration(t)
    \/ Yield(t)
    \/ Skip(t)
    \/ IterationEnds(t)
    \/ IterationAbandoned(t)
    \/ LoopUnwinds(t)
    \/ CallStep(t)

IterNext ==
    \/ \E t \in Thread : IterStep(t)
    \/ Finished /\ UNCHANGED iter

allVars == <<vars, iter>>

IterSpec == IterInit /\ [][IterNext]_allVars

----------------------------------------------------------------------------
(* Properties.                                                             *)

\* What an iteration has given and what is ahead of it are entries that are
\* there, nothing is left out but what for_each skips, and a value that it has
\* given is that of a row.
SeesTable(it) ==
    LET seen == it.given \cup it.ahead
    IN  /\ seen \subseteq Entries(it.over)
        /\ \A e \in Entries(it.over) \ seen :
              it.kind = "for_each" /\ Dangles(it.over, e)
        /\ it.kind # "keys" => \A e \in it.given : ~Dangles(it.over, e)

\* An iterator walks through the table as it is now, however long its caller
\* takes and whatever other threads do meanwhile: inner_iter of iter.rs extends
\* the lifetime of a reference to the table on the strength of this.
IterationSeesTable == \A t \in Thread : Live(t) => SeesTable(iter[t])

\* The entries of an iteration that lead to a row.
Visits(over) == {e \in Entries(over) : ~Dangles(over, e)}

LoopVisitsAll(t) ==
    LET over == iter[t].over
        given == iter[t].given
        kind == iter[t].kind
    IN  /\ kind = "keys" => given = Entries(over)
        /\ kind = "for_each" => given = Visits(over)
        /\ kind = "values" =>
              /\ given \subseteq Visits(over)
              /\ Visits(over) = Entries(over) => given = Visits(over)

\* A loop that runs to its end has been given every row that the table or the
\* index leads to when it ends; an iterator over the values of an index that
\* dangles may stop short, for_each does not.
LoopsVisitAll ==
    [][\A t \in Thread : IterationEnds(t) => LoopVisitsAll(t)]_allVars
=============================================================================
