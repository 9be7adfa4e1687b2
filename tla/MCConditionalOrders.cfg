SPECIFICATION Spec
CONSTANTS
    trade = trade
    Legs = {l1, l2}
    Trades = {trade}
    TradeOf <- MCTradeOf
    Proofs = {p1}
    NoProof = NoProof
    Keeper = Keeper
    Matcher = Matcher
    NoMatcher = NoMatcher
    NoJob = NoJob
    MayCrash = TRUE
    Confirmations = 1
    MinimumBlocks = 1
    MinimumDelay = 1
    MaxBlock = 2
    MaxJobs = 5
    MaxReports = 1
SYMMETRY Symmetry
INVARIANTS
    RecordedExecutionIsReal
    OneLegExecutes
    CompletionIsRecorded
CHECK_DEADLOCK FALSE
PROPERTIES
    SettledLegsStay
    BatchIsPersistent
