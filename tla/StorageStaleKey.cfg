SPECIFICATION StorageSpec
CONSTANTS
    None = None
    Owner = {o1, o2}
    Key = {k1, k2}
    Index = {email, name}
    IndexKey = {a, b}
    Body = {p}
    Value <- MCRow
    field <- MCField
    Singleton = {s1}
    SinVal = {n1}
    DebugAssertions = TRUE
    UniqueFields = TRUE
    DirectIndexAccess = FALSE
    CatchUnwind = FALSE
    StaleKeyIntact = FALSE
SYMMETRY Symmetry
INVARIANTS
    IndexSound
