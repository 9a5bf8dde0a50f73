SPECIFICATION FairSpec
CONSTANTS
  Calls = {c1}
  StopFails = FALSE
  MaxAttempts = 5
  None = None
INVARIANTS TypeOK PollsWhileUp
PROPERTIES LostIsRetried StatusSettles
