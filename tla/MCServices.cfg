SPECIFICATION FairSpec
CONSTANTS
 Parts = {"deployment", "book", "protocol", "intents", "bridge"}
 Keeper = {"k1", "k2"}
 PinnedKeeper = "k1"
 Pinnings <- MCPinnings
 Rounds = 3
 MaxCreated = 9
 MaxCuts = 1
 MaxLags = 1
 Price <- MCPrice
 Left = {1, 3}
 Amount = {1, 4}
 MaxOrders = 3
 MaxRoute = 2
 Units = 2
 Precision = 100
 NoLimit = NoLimit
 SellAmount = {3}
 BuyAmount = {1}
 Requested = {1, 2}
 Rate <- MCRate
 Slippage = {0, 4}
 FullBps = 10
 Lifetime = {1}
 Funds = {0, 3}
 ShortLife = 1
 Forever = 100
 MaxClock = 3
 NoOrder = NoOrder
 NoPlan = NoPlan
Commands <- MCCommands
 BestPrices = {1, 3}
 NoPrice = NoPrice
 OrderSets = {orders1}
 NoHash = NoHash
 Validity = 2
 Confirmations = 0
 WaitBlocks = 1
 WaitTime = 1
 LastBlock = 3
 MostJobs = 3
 MostReports = 2
 MostRequests = 2
 b1 = b1
 b2 = b2
 preview1 = preview1
 Bridge <- MCBridge
 AgentOf <- MCAgentOf
 Preview = {preview1}
 Prerequisites <- MCPrerequisites
 Absent = Absent
 MaxRefreshTokens = 2
 MaxBindings = 2
INVARIANTS DeploymentAgrees AnswerFollowsBook ProgramMeansTheOrder FilledAsAsked StandingIsAuthorized OneExit CachedTokenIsLive PaidWhenPrepared
PROPERTIES ScriptFinishes
CHECK_DEADLOCK FALSE
