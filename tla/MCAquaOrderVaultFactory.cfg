SPECIFICATION Spec
CONSTANTS
    v1 = v1
    v2 = v2
    alice = alice
    bob = bob
    market = market
    S = S
    B = B
    o1 = o1
    o2 = o2
    n1 = n1
    n2 = n2
    Vaults = {v1, v2}
    Owners = {alice}
    Delegates = {bob}
    Market = market
    Tokens = {S, B}
    OwnerOf <- MCOwnerOf
    DelegateOf <- MCDelegateOf
    SellTokenOf <- MCSellTokenOf
    Orders = {o1, o2}
    MakerOf <- MCMakerOf
    NoOrder = NoOrder
    Amounts = {0, 1, 2}
    Recipients = {alice}
    Holdings <- MCHoldings
    Nonces = {n1, n2}
    Deadlines = {3, 4}
    Offers <- MCOffers
    DayLength = 2
    StartTime = 2
    MaxTime = 4
    MaxDelegations = 2
SYMMETRY NonceSymmetry
INVARIANTS
    PlacedWithinMandates
PROPERTIES
    BudgetKept
    ReachNeedsMandate
    SalesAreCharged
