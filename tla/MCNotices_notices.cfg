SPECIFICATION FairSpec
CONSTANTS
  m = m
  e1 = e1
  c1 = c1
  c2 = c2
  Monitor = m
  Others = {e1}
  NoCursor = NoCursor
  Chats = {c1}
  TelegramMaxRetries = 1
  RedisTtl = 2
  MaxDeposits = 2
  MaxEvents = 1
  MaxClock = 2
  MaxTrouble = 1
INVARIANTS
  NotifiedOnce
  ListedWhileStored
PROPERTY DepositIsTold
CHECK_DEADLOCK FALSE
