SPECIFICATION Spec
CONSTANTS
  x1 = x1
  x2 = x2
  a1 = a1
  b1 = b1
  s1 = s1
  key1 = key1
  Cash = {a1, b1, s1}
  SyncedCash = {s1}
  LedgerClients = {x1, x2}
  Transfers <- MCTransfers
  Openings <- MCOpenings
  LedgerMonths = {1, 2}
  MaxTransactions = 4
  Archivable = {b1}
  SystemIds = {"s1"}
  DefaultIds = {"d1", "d2"}
  KeyedIds = {"d2"}
  BankIds = {"b1"}
  ByokIds = {"y1"}
  NameOf <- MCNameOf
  NewNames = {"rent"}
  ChartUsers = {x1, x2}
  OldSeed = {0, 1, 2}
  ManualAccts = {"a1"}
  SyncedAccts = {"s1"}
  Categories = {"food", "rent"}
  BillClients = {x1, x2}
  NewBills <- MCNewBills
  BillEdits <- MCBillEdits
  SettleRequests <- MCSettleRequests
  CreditNotes <- MCCreditNotes
  BillOrigins = {"manual", "billing_invoice", "card_statement"}
  BillToday = 1
  MaxBillTxs = 3
  Rules <- MCRules
  RulePatches <- MCRulePatches
  RecUsers = {u1}
  RecJobs = {j1}
  LastRecMonth = 2
CHECK_DEADLOCK FALSE
SYMMETRY MCSymmetry
INVARIANT CachesAreDerived
INVARIANT OneOpening
INVARIANT ReadyIsComplete
INVARIANT BooksFollowBills
INVARIANT EachOccurrenceOnce
