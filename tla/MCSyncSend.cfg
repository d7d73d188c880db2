SPECIFICATION Spec
CONSTANTS
  m1 = m1
  m2 = m2
  m3 = m3
  Messages <- MCMessages
  MaySmpp <- MCMaySmpp
  Charge <- MCCharge
  OpeningBalances = {3}
  Receipts <- MCReceipts
  RefundSettings = {TRUE, FALSE}
  MaxFaults = 2
SYMMETRY Symmetry
INVARIANTS
  SettledOnce
  RecoverySettles
PROPERTIES
  ImplementsPrepaid
\* The system rests once every request is done and no fault is left.
CHECK_DEADLOCK FALSE
