SPECIFICATION MCSpec
CONSTANTS
  d1 = d1
  d2 = d2
  d3 = d3
  c1 = c1
  c2 = c2
  x1 = x1
  t1 = t1
  t2 = t2
  b1 = b1
  b2 = b2
  p1 = p1
  p2 = p2
  Debits <- MCDebits
  Credits <- MCCredits
  Amount <- MCAmount
  InitialBalance = 3
  NoTx = NoTx
  Conversions <- MCConversions
  Factor <- MCFactor
  Texts <- MCTexts
  Price <- MCPrice
  Fee <- MCFee
  Bills <- MCBills
  Payments <- MCPayments
  Paid <- MCPaid
  MaxNumber = 2
  Other = Other
INVARIANTS
  LedgerInv
  InvoicesInv
PROPERTIES
  PostsAsBook
  DebitsAnswered
\* Nothing happens after the last transaction.
CHECK_DEADLOCK FALSE
