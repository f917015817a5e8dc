\* Two calls in each of the four modes, all faults, one loss of the sessions.
CONSTANTS
  Modes <- AllModes
  MaxCalls = 2
  MaxExpiry = 1
  MaxFailed = 2
  Faults = {"timeout", "lost", "send"}
SPECIFICATION NetFairSpec
INVARIANT KeptAliveIsExact
INVARIANT ExecutedAtMostOnce
PROPERTY CallReturns
CHECK_DEADLOCK FALSE
