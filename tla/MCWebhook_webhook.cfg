SPECIFICATION Spec
CONSTANTS
  r1 = r1
  r2 = r2
  d1 = d1
  d2 = d2
  w = w
  NoReq = NoReq
  Requests = {r1}
  Deliveries = {d1, d2}
  Watcher = w
  Expected = 6
  Amounts = {1, 9}
  Sorts = {"deposit"}
  Fee = 1
  SendsByKey = TRUE
  GasWallet = 2
  Preloaded = {0}
  MaxTrouble = 1
  Faulty = TRUE
SYMMETRY AlikeDeliveries
INVARIANTS
  TypeOK
  OneDepositPerRequest
  SweptAgainOnlyAfterLoss
  UnderpaidStaysOut
  RefundedMeansPaidBack
  SettledIsBacked
CHECK_DEADLOCK FALSE
