SPECIFICATION Spec
CONSTANTS
  v1 = v1
  v2 = v2
  Events = {v1, v2}
  Pings = {"g"}
  Endpoints = {"p", "c", "d"}
  Provisioned = {"p"}
  Filters = {{}, {"v0"}}
  Adders = {"a", "b"}
  Job = "job"
  KickPass = "kick"
  MaxDeliveryAttempts = 2
  MaxFailureRun = 2
  MaxWebhookEndpoints = 2
  KickBatch = 1
  KickRetries = 1
  Budget = 1
  MaxTime = 3
  MaxChanges = 2
  ChangeOverlap = 1
  ChangeTTL = 2
  QueueSize = 2
  ReplayMax = 1
  PageMax = 2
  EntityOf <- MCEntityOf
  Scopes = {"s1"}
  Mine = {"s1"}
  MaxFaults = 1
  Calls = {"r1", "r2", "r3", "r4"}
  Hash <- MCHash
  None = "none"
  Refused = "refused"
  SlowCalls = FALSE
CHECK_DEADLOCK FALSE
SYMMETRY MCSymmetry
INVARIANT NothingQueuedIsLost
INVARIANT KicksAreServed
INVARIANT CaughtUp
PROPERTY KeepsThePromise
