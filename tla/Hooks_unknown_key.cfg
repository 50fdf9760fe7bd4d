SPECIFICATION HooksSpec
CONSTANTS
  Keys = {"k1", "k2"}
  KnownKeys = {"k1"}
  Asks = {"a"}
  MaxLives = 1
  MaxHooks = 2
  MaxSecrets = 2
  MaxSaves = 4
  MaxForeign = 1
CHECK_DEADLOCK FALSE
INVARIANT RegisteredIsHeard
