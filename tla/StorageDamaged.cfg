SPECIFICATION StorageSpec
CONSTANTS
    None = None
    Owner = {o1, o2}
    Key = {k1, k2}
    Index = {email}
    IndexKey = {a, b}
    Body = {p}
    Value <- MCRow
    field <- MCField
    Singleton = {s1}
    SinVal = {n1}
    DebugAssertions = TRUE
    UniqueFields = FALSE
    DirectIndexAccess = TRUE
    CatchUnwind = TRUE
    StaleKeyIntact = TRUE
SYMMETRY Symmetry
PROPERTIES
    OwnerIsForever
    ForEachMutRepairs
