SPECIFICATION MCSpec
CONSTANTS
  x1 = x1
  x2 = x2
  basic = basic
  usage = usage
  Workers = {x1, x2}
  Plans = {basic, usage}
  NoPlan = NoPlan
  Timing <- MCTiming
  Cost <- MCCost
  PeriodDays = 1
  CatchUpDays = 1
  MaxPeriod = 2
  MaxItems = 2
  MaxCrashes = 1
  MaxRequests = 2
  References = 1
  Prorations = 1
  Invoices = {"i1"}
  Policy <- MCPolicy
  Dunners = {x1, x2}
  Settlers = {"s1"}
  Replayers = {"r1"}
  Failing = {x1, x2, "s1", "r1"}
  Exclusive = FALSE
  NoInvoice = NoInvoice
CHECK_DEADLOCK FALSE
SYMMETRY MCSymmetry
INVARIANT NumbersHaveNoGap
INVARIANT RenewedIsInvoiced
INVARIANT NoStepSkipped
