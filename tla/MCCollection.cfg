SPECIFICATION MCSpec
CONSTANTS
  Procs = {p1, p2}
  Jobs = {}
  Ops = {"pay", "new", "void", "credit", "confirm", "abandon"}
  Total = 2
  Notes = {1}
  Surcharges <- MCExact
  MaxAttempts = 2
  MaxPayments = 1
CHECK_DEADLOCK FALSE
SYMMETRY MCSymmetry
INVARIANT OneLiveAttempt
INVARIANT CountedOnce
INVARIANT NeverUndercharged
INVARIANT AmountsAddUp
