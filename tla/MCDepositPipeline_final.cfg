SPECIFICATION Spec
CONSTANTS
  r1 = r1
  r2 = r2
  d1 = d1
  d2 = d2
  d3 = d3
  Requests = {r1}
  Deposits = {d1, d2}
  DepositOf <- OneRequestDepositOf
  AmountOf <- OneRequestAmountOf
  Expected <- MCExpected
  ToAmount <- MCToAmount
  FeeAmount <- MCFeeAmount
  TxPolled = {r1}
  PollConcurrency = 1
  NoHash = NoHash
  NoRow = NoRow
  Faults = {}
  MaxCrashes = 0
PROPERTY FinalStatusIsFinal
CHECK_DEADLOCK FALSE
