SPECIFICATION Spec
CONSTANTS
    None = None
    Owner = {o1, o2}
    Key = {k1, k2}
    Index = {email}
    IndexKey = {a}
    Body = {p, q}
    Value <- MCRow
    field <- MCField
    Singleton = {s1}
    SinVal = {n1}
    DebugAssertions = TRUE
    UniqueFields = FALSE
    DirectIndexAccess = FALSE
    CatchUnwind = TRUE
    StaleKeyIntact = TRUE
    Thread = {t1, t2}
    WritersFirst = TRUE
    MaxCalls = 2
SYMMETRY Symmetry
INVARIANTS
    TypeOK
PROPERTIES
    ImplementsAtomicStore
    SnapshotIsStable
    OnlyOwnersMutate
