SPECIFICATION FairSpec
CONSTANTS
 o1 = o1
 a = a
 b = b
 base = base
 quote = quote
 other = other
 Wallet = wallet
 Zero = zero
 None = None
 Readers = {"indexer", "activity"}
 Event <- MCEvent
 Order = {o1}
 Original = 2
 Amount <- MCAmount
 Transfers <- MCTransfers
 Confirmations = 0
 ChunkSize = 2
 BlockChunk = 2
 Worker = {"w1", "w2"}
 MaxInterrupts = 1
 MaxHeight = 4
 FeedHeight = 3
 MaxForks = 1
 MaxDepth = 2
 MaxReplayed = 2
INVARIANTS IndexIsExact FeedIsExact
PROPERTIES IndexerCatchesUp
CHECK_DEADLOCK FALSE
