SPECIFICATION Spec
CONSTANTS
  x1 = x1
  x2 = x2
  Applicants = {"u1", "u2"}
  Reviewers = {x1, x2}
  Slow = FALSE
  MaxApplications = 3
  MaxTries = 3
  MaxMishaps = 1
  Tenants = {"t1", "t2"}
  Clients = {"c"}
  Consoles = {x1, x2}
  Plans = {"pl"}
  MaxAdmissions = 3
  Requests = {"c1", "c2"}
  Clickers = {"k1", "k2"}
  Workers = {"w1"}
  MaxCrashes = 1
  MaxChanges = 1
  Names <- MCNames
  Rank <- MCRank
  BankHooks <- MCHooks
  Banks = {"inter"}
  Customers = {"p", "o"}
  Erasers = {"w1", "w2"}
  MaxErasureCrashes = 2
  Providers = {x1, x2}
  Quota = 1
  Callers = {"a", "b"}
  JobRuns = {"b"}
  Life = 1
  MaxClock = 1
  MaxMade = 2
  MaxRevision = 3
  Keys = {"k1", "k2"}
  KnownKeys = {"k1", "k2"}
  Asks = {"a"}
  MaxLives = 1
  MaxHooks = 2
  MaxSecrets = 2
  MaxSaves = 3
  MaxForeign = 1
CHECK_DEADLOCK FALSE
SYMMETRY MCSymmetry
INVARIANT PendingIsCurrent
INVARIANT SubscribedOnce
INVARIANT AdmittedOnce
INVARIANT PurgeIsPastCancelling
INVARIANT ErasureIsResumable
PROPERTY ProvisionedStays
INVARIANT WithinQuota
INVARIANT WarnedWasTold
INVARIANT RegisteredIsOurs
