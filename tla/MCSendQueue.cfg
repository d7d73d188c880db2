SPECIFICATION FairSpec
CONSTANTS
  m1 = m1
  m2 = m2
  w1 = w1
  w2 = w2
  Messages <- MCMessages
  Workers <- MCWorkers
  BatchLimit = 2
  Charge <- MCCharge
  OpeningBalances <- MCBalances
  Receipts <- MCReceipts
  MaxFaults = 1
  NoMsg = NoMsg
INVARIANTS
  ExclusiveClaim
  SettledOnce
  ResendNeedsFault
PROPERTIES
  ImplementsPrepaid
  QueueDrains
\* The queue rests once every message is settled.
CHECK_DEADLOCK FALSE
