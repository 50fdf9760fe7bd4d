SPECIFICATION PayoutLiveSpec
CONSTANTS
  PayoutProcs = {"p1", "p2", "j"}
  PayoutJobs = {"j"}
  Hashes = {"h1", "h2"}
  Refs = {"u1", "u2", "u3"}
  NoRef = "no uuid"
  NoHash = "no request"
  Changes = {"refuses"}
CHECK_DEADLOCK FALSE
INVARIANT PaidAsReserved
INVARIANT OnlyTheBanksWord
PROPERTY PayoutConcludes
