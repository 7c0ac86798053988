------------------------------ MODULE MCStorage ------------------------------
(* Storage on small instances.  A row is a record with one field per index  *)
(* and a body that no index looks at, so rows can share any of their fields.*)
EXTENDS Storage, TLC

CONSTANT Body

MCRow == [fields : [Index -> IndexKey], body : Body]
MCField == [i \in Index |-> [row \in MCRow |-> row.fields[i]]]

\* No definition tells two keys or two owners apart.
Symmetry == Permutations(Key) \cup Permutations(Owner)
=============================================================================
