----------------------------- MODULE AtomicStore -----------------------------
(***************************************************************************)
(* What the crate promises of calls and transactions, whatever they        *)
(* compute: each works on its own view of the store, and one that ends     *)
(* finds the store as it was when it began, so it might as well have run   *)
(* alone at that moment.  A writer that panics publishes nothing and takes *)
(* the store down.  (lib.rs, raw and transactional APIs.)                  *)
(***************************************************************************)
CONSTANTS Thread, None

VARIABLES
    db,     \* the contents of the store
    txn,    \* txn[t]: what t began from, what it sees, whether it can write
    down    \* TRUE once a writer has panicked

Closed == [writes |-> FALSE, base |-> None, view |-> None]

Init ==
    /\ txn = [t \in Thread |-> Closed]
    /\ down = FALSE

Begin(t, writes) ==
    /\ ~down
    /\ txn[t] = Closed
    /\ txn' = [txn EXCEPT ![t] = [writes |-> writes, base |-> db, view |-> db]]
    /\ UNCHANGED <<db, down>>

Write(t) ==
    /\ txn[t].writes
    /\ txn' = [txn EXCEPT ![t] = [writes |-> TRUE, base |-> txn[t].base,
                                   view |-> txn'[t].view]]
    /\ UNCHANGED <<db, down>>

Commit(t) ==
    /\ txn[t] # Closed
    /\ txn[t].base = db
    /\ db' = txn[t].view
    /\ txn' = [txn EXCEPT ![t] = Closed]
    /\ UNCHANGED down

Fail(t) ==
    /\ txn[t].writes
    /\ txn' = [txn EXCEPT ![t] = Closed]
    /\ down' = TRUE
    /\ UNCHANGED db

Next ==
    \E t \in Thread :
        \/ \E writes \in BOOLEAN : Begin(t, writes)
        \/ Write(t)
        \/ Commit(t)
        \/ Fail(t)

Spec == Init /\ [][Next]_<<db, txn, down>>
=============================================================================
