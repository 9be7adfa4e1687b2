SPECIFICATION ServiceSpec
CONSTANTS
    Parts = {"submission", "listings"}
    t1 = t1
    t2 = t2
    r1 = r1
    r2 = r2
    p1 = p1
    p2 = p2
    Trade = {t1, t2}
    Amount <- AmountOf
    Wishes <- WishSet
    Request = {r1, r2}
    Payment = {p1, p2}
    Delegations <- Limits
    MaxDelegations = 2
    MaxDay = 1
    ArmedDays = 1
    Scenes <- SceneSet
    None = None
    RowId = {1, 2, 3}
    Queries <- MCQueries
    NoQuery = NoQuery
    NoCursor = NoCursor
    Milli = 2
    PageSize = 1
    RowLimit = 2
    MaxNow = 2
SYMMETRY Symmetry
CHECK_DEADLOCK FALSE
INVARIANTS
    RecordsAreReal
    SpentCoversActivations
    ListedOnce
PROPERTIES
    LifecycleIsFinal
