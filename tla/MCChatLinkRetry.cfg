SPECIFICATION Spec
CONSTANTS
  Calls = {c1}
  StopFails = FALSE
  MaxAttempts = 2
  None = None
PROPERTIES RetrySpares
