SPECIFICATION FairSpec
CONSTANTS
  r1 = r1
  r2 = r2
  Requests = {r1}
  NoBalance = NoBalance
  Expected = 3
  Amounts = {1, 3}
  Float = 2
  OtherAmount = 2
  POLL_CONCURRENCY = 2
  MaxPayments = 2
  MaxOthers = 0
  MaxFaults = 0
PROPERTY ManagedDepositGoesOn
CHECK_DEADLOCK FALSE
