SPECIFICATION Spec
CONSTANTS
  r1 = r1
  r2 = r2
  d1 = d1
  d2 = d2
  d3 = d3
  Requests = {r1, r2}
  Deposits = {d1, d2, d3}
  DepositOf <- TwoSortsDepositOf
  AmountOf <- TwoSortsAmountOf
  Expected <- MCExpected
  ToAmount <- MCToAmount
  FeeAmount <- MCFeeAmount
  TxPolled = {r1}
  PollConcurrency = 1
  NoHash = NoHash
  NoRow = NoRow
  Faults = {"throw", "rpc", "revert", "aging"}
  MaxCrashes = 1
INVARIANTS
  TypeOK
  SweptAtMostOnce
  PaidAtMostOnce
  PayoutIsBacked
  UnderpaidStaysPut
  CompletionIsTrue
PROPERTIES
  PromiseKept
  BalancePolledMovesForward
CHECK_DEADLOCK FALSE
