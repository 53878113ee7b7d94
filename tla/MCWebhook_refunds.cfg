SPECIFICATION FairSpec
CONSTANTS
  r1 = r1
  r2 = r2
  d1 = d1
  d2 = d2
  w = w
  NoReq = NoReq
  Requests = {r1}
  Deliveries = {d1}
  Watcher = w
  Expected = 6
  Amounts = {1, 9}
  Sorts = {"deposit", "senderless"}
  Fee = 1
  SendsByKey = TRUE
  GasWallet = 4
  Preloaded = {0}
  MaxTrouble = 1
  Faulty = FALSE
PROPERTIES
  DepositIsSettled
CHECK_DEADLOCK FALSE
