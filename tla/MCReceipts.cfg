SPECIFICATION FairSpec
CONSTANTS
  h1 = h1
  h2 = h2
  Handlers <- MCTwo
  Ager = Ager
  Operator = Operator
  MaxReceipts = 3
  MaxResends = 1
  MaxFaults = 1
INVARIANTS
  FinalsAgree
  FinalForwardedOnce
PROPERTIES
  FinalKept
  FinalReachesClient
\* Nothing happens once the receipts are in and forwarded.
CHECK_DEADLOCK FALSE
