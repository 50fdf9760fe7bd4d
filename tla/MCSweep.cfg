SPECIFICATION SweepSpec
CONSTANTS
  Procs = {"p", "j"}
  Jobs = {"j"}
  Ops = {"pay", "new", "void", "sweep", "credit", "confirm", "abandon"}
  Total = 2
  Notes = {1}
  Surcharges <- MCExact
  MaxAttempts = 1
  MaxPayments = 1
CHECK_DEADLOCK FALSE
PROPERTY PaidChargeConcludes
