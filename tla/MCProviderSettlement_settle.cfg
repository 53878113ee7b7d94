SPECIFICATION FairSpec
CONSTANTS
  r1 = r1
  r2 = r2
  X = X
  Y = Y
  Requests = {r1, r2}
  Coins = {X, Y}
  Pairs <- MCPairs
  Providers = {"kucoin", "binance"}
  Flex = {TRUE, FALSE}
  Sent <- MCSent
  Requested <- MCRequested
  Float <- MCFloat
  GasCosts = {1}
  Quotes = {1, 2}
  ConvertAttempts = 2
  MoveAttempts = 2
  Faults = {"refused", "lost", "short", "locked"}
INVARIANTS
  NoStepTwice
  OwnFundsOnly
  FloatUntouched
  TradeCovers
PROPERTIES
  PromiseKept
  SettlementEnds
CHECK_DEADLOCK FALSE
