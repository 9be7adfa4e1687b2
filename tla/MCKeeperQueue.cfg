SPECIFICATION FairSpec
CONSTANTS
    w1 = w1
    w2 = w2
    Jobs = {1, 2}
    Workers = {w1, w2}
    NoWorker = NoWorker
    NoTx = NoTx
    Refused = {2}
    Repeatable = {}
    RetryLimit = 2
    Quotes = {2, 4}
    MaxFeePerGas = 3
    MaxMishaps = 1
CHECK_DEADLOCK FALSE
INVARIANTS
    CompleteMeansExecuted
PROPERTIES
    EventuallySettled
