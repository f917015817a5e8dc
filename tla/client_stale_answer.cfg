\* Three calls over a network without faults, one connection for each request.
CONSTANTS
  Modes <- OneShot
  MaxCalls = 3
  MaxExpiry = 0
  MaxFailed = 2
  Faults = {}
SPECIFICATION NetSpec
INVARIANT AnswersMatch
CHECK_DEADLOCK FALSE
