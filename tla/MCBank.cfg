SPECIFICATION Spec
CONSTANTS
  x1 = x1
  x2 = x2
  Listings <- MCListings
  Charges = {"c1"}
  OwedOn <- MCOwed
  PaidBy <- MCPaid
  Syncs = {x1, x2}
  MaxSyncs = 2
  MaxConnects = 2
  ConnectDay = 2
  LastDay = 3
  BackfillDays = 2
  WindowDays = 1
  IncrementalDays = 2
  Purchases <- MCPurchases
  Credits <- MCCredits
  CardUsers = {x1, x2}
  ClosingDays = {1, 2}
  MonthDays = 2
  MaxInstallments = 3
  LastMonth = 1
  MaxVersion = 3
  Txs <- MCTxs
  Files <- MCFiles
  CardFiles = {"i3"}
  OpenBills = {"b1"}
  PaidBills = {"b2"}
  Purchased = {"p1"}
  Importers = {x1, x2}
  Chunk = 1
  LineTTL = 1
  LastDate = 2
CHECK_DEADLOCK FALSE
SYMMETRY MCSymmetry
INVARIANT PaymentInBooksOnce
INVARIANT BackfillLeavesNoHole
INVARIANT EveryCentBilled
INVARIANT StatementsFollowLedger
INVARIANT BookedOnce
INVARIANT NoneDropped
