------------------------------ MODULE MCKvStore ------------------------------
(* KvStore on small instances, with the rows of MCStorage.                  *)
EXTENDS KvStore, TLC

CONSTANT Body

MCRow == [fields : [Index -> IndexKey], body : Body]
MCField == [i \in Index |-> [row \in MCRow |-> row.fields[i]]]

\* No definition tells two threads, keys, owners or bodies apart.
Symmetry ==
    Permutations(Thread) \cup Permutations(Key) \cup Permutations(Owner)
        \cup Permutations(Body)
=============================================================================
