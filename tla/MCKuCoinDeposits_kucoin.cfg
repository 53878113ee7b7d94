SPECIFICATION FairSpec
CONSTANTS
  r1 = r1
  r2 = r2
  Requests = {r1, r2}
  NoBalance = NoBalance
  Expected = 3
  Amounts = {1, 3}
  Float = 2
  OtherAmount = 2
  POLL_CONCURRENCY = 2
  MaxPayments = 2
  MaxOthers = 1
  MaxFaults = 1
INVARIANT ClaimIsBacked
PROPERTY PaidIsNoticed
CHECK_DEADLOCK FALSE
