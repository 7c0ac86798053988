SPECIFICATION IterSpec
CONSTANTS
    None = None
    Owner = {o1}
    Key = {k1, k2}
    Index = {f}
    IndexKey = {a, b}
    Body = {p}
    Value <- MCRow
    field <- MCField
    Singleton = {}
    SinVal = {}
    DebugAssertions = TRUE
    UniqueFields = FALSE
    DirectIndexAccess = TRUE
    CatchUnwind = FALSE
    StaleKeyIntact = TRUE
    Thread = {t1, t2, t3}
    WritersFirst = FALSE
    MaxCalls = 1
SYMMETRY Symmetry
INVARIANTS
    IterationSeesTable
PROPERTIES
    LoopsVisitAll
