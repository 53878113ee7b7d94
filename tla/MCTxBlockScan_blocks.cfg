SPECIFICATION FairSpec
CONSTANTS
  a1 = a1
  a2 = a2
  p1 = p1
  p2 = p2
  p3 = p3
  Addresses = {a1, a2}
  TokenAddrs = {a2}
  Payments = {p1, p3}
  PayTo <- MCPayTo
  TokenPays = {p3}
  Families = {"evm", "utxo", "tron", "vechain"}
  MaxBlocks = 1
  NoCursor = NoCursor
  NotANumber = NotANumber
  Faults = {"rpc", "absent", "blank", "throw"}
  MaxTip = 3
  MaxCrashes = 1
INVARIANTS
  HandedOnce
  NothingPassedOver
PROPERTY KnownPaymentIsHanded
CHECK_DEADLOCK FALSE
