SPECIFICATION FairSpec
CONSTANTS
  a1 = a1
  a2 = a2
  Addresses = {a1, a2}
  Families = {"solana", "xrp", "stellar", "cosmos", "sui"}
  Limit = 1
  NoCursor = NoCursor
  Faults = {"rpc", "throw", "stuck"}
  MaxEntries = 2
  MaxAll = 2
  MaxLedger = 2
  MaxStuck = 1
  MaxCrashes = 1
INVARIANTS
  HandedOncePerStart
  NothingPassedOver
PROPERTY DepositIsHanded
CHECK_DEADLOCK FALSE
