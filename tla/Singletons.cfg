SPECIFICATION ClaimSpec
CONSTANTS
    None = None
    Owner = {o1, o2}
    Inline = {n}
    Boxed = {b}
    Shared = {a1, a2}
    Referred = {r}
    Singleton <- MCSingleton
    class <- MCClass
    SinVal = {v1, v2}
    Cell = {c1, c2, s1}
    Static = {s1}
    DebugAssertions = TRUE
SYMMETRY Symmetry
INVARIANTS
    SinTypeOK
    VariantsMatch
    MutableIsUnique
    OwnerIsClaimant
PROPERTIES
    SharedValuesStay
    ImplementsPairs
