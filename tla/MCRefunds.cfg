SPECIFICATION MCSpec
CONSTANTS
  Procs = {"p1", "j"}
  Jobs = {"j"}
  Concurrent = FALSE
  BankFails = TRUE
  MaxRefunds = 4
CHECK_DEADLOCK FALSE
INVARIANT RefundsOnce
INVARIANT OverlapOnceUntilFailure
PROPERTY OverlapRefundConcludes
