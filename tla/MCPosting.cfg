SPECIFICATION LiveSpec
CONSTANTS
  Invoices = {"i1"}
  Policy <- MCPolicy
  Dunners = {"d1"}
  Settlers = {"s1"}
  Replayers = {"r1"}
  Failing = {"d1", "s1", "r1"}
  Exclusive = TRUE
  NoInvoice = "no invoice"
CHECK_DEADLOCK FALSE
INVARIANT QueuedUntilPosted
PROPERTY PostingConcludes
