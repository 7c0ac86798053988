------------------------------ MODULE MCIterators ------------------------------
(* Iterators on small instances, with the rows of MCStorage.                *)
EXTENDS Iterators, TLC

CONSTANT Body

MCRow == [fields : [Index -> IndexKey], body : Body]
MCField == [i \in Index |-> [row \in MCRow |-> row.fields[i]]]

\* No definition tells two threads, keys or indexed fields apart.
Symmetry ==
    Permutations(Thread) \cup Permutations(Key) \cup Permutations(IndexKey)
=============================================================================
