SPECIFICATION Spec
CONSTANTS
  Procs = {"p1", "j"}
  Jobs = {"j"}
  Concurrent = TRUE
  BankFails = TRUE
  MaxRefunds = 3
CHECK_DEADLOCK FALSE
INVARIANT RefundsOnce
