----------------------------- MODULE FieldTable -----------------------------
(***************************************************************************)
(* What a table with indexes promises, without an index: a table whose     *)
(* rows can be looked up by key or by the value of a field, where no two   *)
(* rows have the same value in the same field ("as if it were a table      *)
(* mapping Urls to Foos", lib.rs).  It belongs to the first owner who      *)
(* claims it, and only that owner changes it.                              *)
(***************************************************************************)
CONSTANTS Owner, Key, Value, Index, IndexKey, field, None

VARIABLES
    owner,
    rows    \* rows[k]: the row with key k, or None

Present == {k \in Key : rows[k] # None}
With(i, ik) == {k \in Present : field[i][rows[k]] = ik}

GetBy(i, ik) ==
    IF With(i, ik) = {} THEN None ELSE rows[CHOOSE k \in With(i, ik) : TRUE]

Init == owner = None /\ rows = [k \in Key |-> None]

Claim(o) == owner' = IF owner = None THEN o ELSE owner

\* An owner may claim a table, or write to its own.
Insert(o, k, v) ==
    /\ owner \in {None, o}
    /\ Claim(o)
    /\ rows' = [rows EXCEPT ![k] = v]

Clear(o) ==
    /\ owner \in {None, o}
    /\ Claim(o)
    /\ rows' = [k \in Key |-> None]

Mutate(o, k, v) ==
    /\ k \in Present
    /\ owner = o
    /\ rows' = [rows EXCEPT ![k] = v]
    /\ UNCHANGED owner

Remove(o, k) ==
    /\ k \in Present
    /\ owner = o
    /\ rows' = [rows EXCEPT ![k] = None]
    /\ UNCHANGED owner

ForEachMut(o) ==
    /\ owner = o
    /\ \E visit \in [Present -> Value] :
          rows' = [k \in Key |-> IF k \in Present THEN visit[k] ELSE None]
    /\ UNCHANGED owner

\* The same calls on the row that has ik in field i; without one, nothing.
MutateBy(o, i, ik, v) ==
    IF With(i, ik) = {} THEN UNCHANGED <<owner, rows>>
    ELSE \E k \in With(i, ik) : Mutate(o, k, v)

RemoveBy(o, i, ik) ==
    IF With(i, ik) = {} THEN UNCHANGED <<owner, rows>>
    ELSE \E k \in With(i, ik) : Remove(o, k)

Next ==
    \E o \in Owner :
        \/ Claim(o) /\ UNCHANGED rows
        \/ Clear(o)
        \/ ForEachMut(o)
        \/ \E k \in Key :
              \/ \E v \in Value : Insert(o, k, v)
              \/ \E v \in Value : Mutate(o, k, v)
              \/ Remove(o, k)

Spec == Init /\ [][Next]_<<owner, rows>>
=============================================================================
