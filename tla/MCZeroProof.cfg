SPECIFICATION AllSpec
CONSTANTS
 Parts = {"controller"}
 v1 = v1
 v2 = v2
 alice = alice
 bob = bob
 market = market
 S = S
 B = B
 o1 = o1
 o2 = o2
 o3 = o3
 Vaults = {v1, v2}
 Owners = {alice}
 Market = market
 Tokens = {S, B}
 OwnerOf <- MCOwnerOf
 SellTokenOf <- MCSellTokenOf
 Orders = {o1, o2, o3}
 MakerOf <- MCMakerOf
 NoOrder = NoOrder
 Amounts = {0, 1, 2, 3}
 Recipients = {alice, v1, v2}
 Holdings <- MCHoldings
 keeper = keeper
 matchmaker = matchmaker
 stranger = stranger
 place = place
 amend = amend
 Senders = {keeper, matchmaker, stranger}
 Operator = keeper
 Deployer = keeper
 NoMatcher = NoMatcher
 IntentHashes = {i1, i2}
 Groups = {g1, g2}
 Proofs = {p1, NoProof}
 NoProof = NoProof
 SignedIntents <- MCSignedIntents
 MinimumBlocks = 1
 MinimumDelay = 2
 MaxBlock = 3
 MaxTime = 4
 MaxReports = 3
 aliceLedger = aliceLedger
 bobLedger = bobLedger
 None = None
 Owner = {alice, bob}
 Device = {aliceLedger, bobLedger}
 HolderOf <- MCHolderOf
 Counting = {aliceLedger}
 MaxChallenges = 5
 MaxTokens = 3
 MaxCalls = 2
PROPERTIES
 ActivationIsPersistent
