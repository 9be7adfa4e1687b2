SPECIFICATION Spec
CONSTANTS
 o1 = o1
 a = a
 b = b
 base = base
 quote = quote
 other = other
 Wallet = wallet
 Zero = zero
 None = None
 Readers = {"indexer"}
 Event <- MCEvent
 Order = {o1}
 Original = 2
 Amount <- MCAmount
 Transfers <- MCTransfers
 Confirmations = 1
 ChunkSize = 2
 BlockChunk = 2
 Worker = {"w1", "w2"}
 MaxInterrupts = 1
 MaxHeight = 4
 FeedHeight = 3
 MaxForks = 0
 MaxDepth = 2
 MaxReplayed = 2
INVARIANT FillsCountOnce
CHECK_DEADLOCK FALSE
