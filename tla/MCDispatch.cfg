SPECIFICATION Spec
CONSTANTS
  m1 = m1
  m2 = m2
  Msgs <- MCTwo
  SlotCount = 3
  Modes = {"single", "failover", "overflow", "loadbalance"}
  Weight <- MCShares
  Transport <- MCMixed
SYMMETRY Symmetry
INVARIANTS
  WinnerOwnsOutcome
  OrderKept
\* Nothing happens after the last message but sessions binding.
CHECK_DEADLOCK FALSE
