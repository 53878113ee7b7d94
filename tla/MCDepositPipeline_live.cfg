SPECIFICATION FairSpec
CONSTANTS
  r1 = r1
  r2 = r2
  d1 = d1
  d2 = d2
  d3 = d3
  Requests = {r1, r2}
  Deposits = {d1, d2}
  DepositOf <- TwoRequestsDepositOf
  AmountOf <- TwoRequestsAmountOf
  Expected <- MCExpected
  ToAmount <- MCToAmount
  FeeAmount <- MCFeeAmount
  TxPolled = {}
  PollConcurrency = 1
  NoHash = NoHash
  NoRow = NoRow
  Faults = {}
  MaxCrashes = 0
PROPERTIES
  BroadcastTransferSettles
  AcceptedDepositIsSwept
  BalanceIsNoticed
CHECK_DEADLOCK FALSE
