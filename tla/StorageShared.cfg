SPECIFICATION StorageSpec
CONSTANTS
    None = None
    Owner = {o1, o2}
    Key = {k1, k2, k3}
    Index = {email, name}
    IndexKey = {a, b}
    Body = {p}
    Value <- MCRow
    field <- MCField
    Singleton = {s1}
    SinVal = {n1}
    DebugAssertions = TRUE
    UniqueFields = FALSE
    DirectIndexAccess = FALSE
    CatchUnwind = FALSE
    StaleKeyIntact = TRUE
SYMMETRY Symmetry
INVARIANTS
    StorageTypeOK
    IndexSound
    UnownedIsEmpty
