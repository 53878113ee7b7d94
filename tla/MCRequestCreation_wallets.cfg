SPECIFICATION Spec
CONSTANTS
  c1 = c1
  c2 = c2
  p1 = p1
  p2 = p2
  n1 = n1
  n2 = n2
  NoPair = NoPair
  Callers = {c1, c2}
  Pairs = {p1, p2}
  Networks = {n1, n2}
  NetworkOf <- MCNetworkOf
  PublicKeyNetworks = {n2}
  FromAmounts = {2, 100}
  OrderIds = {1, 2}
  MaxCalls = 3
  MaxChanges = 1
  Rate = 1
  FeePercent = 1
  GasEstimate = 0
  MinimumFee = 2
  MinDeposit = 1
  MaxDeposit = 1000
SYMMETRY AlikeCallers
INVARIANTS
  TypeOK
  HdAddressesAreOwn
  HdWalletGoesOn
  SignersAreRight
PROPERTY GasWalletStays
CHECK_DEADLOCK FALSE
