SPECIFICATION Spec
CONSTANTS
    trade = trade
    Legs = {l1}
    Trades = {trade}
    TradeOf <- MCTradeOf
    Proofs = {p1}
    NoProof = NoProof
    Keeper = Keeper
    Matcher = Matcher
    NoMatcher = NoMatcher
    NoJob = NoJob
    MayCrash = FALSE
    Confirmations = 1
    MinimumBlocks = 1
    MinimumDelay = 1
    MaxBlock = 3
    MaxJobs = 4
    MaxReports = 1
INVARIANT FiringIsReported
CHECK_DEADLOCK FALSE
