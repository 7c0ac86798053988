----------------------------- MODULE MCSingletons -----------------------------
(* Singletons on small instances: sets of singletons of each class.         *)
EXTENDS Claims, TLC

CONSTANTS Inline, Boxed, Shared, Referred

MCSingleton == Inline \cup Boxed \cup Shared \cup Referred

MCClass ==
    [s \in MCSingleton |->
        CASE s \in Inline -> "U64"
          [] s \in Boxed -> "Box"
          [] s \in Shared -> "Arc"
          [] s \in Referred -> "Ref"]

\* No definition tells two owners, values, or cells that are not static apart.
Symmetry ==
    Permutations(Owner) \cup Permutations(SinVal)
        \cup Permutations(Cell \ Static) \cup Permutations(Shared)
=============================================================================
