CONSTANTS
  N = 1
  Chunks = 1
  Timeout = TRUE
  HasDefault = TRUE
  MaxCalls = 1
  MaxSignals = 1
SPECIFICATION Spec
INVARIANT StopIsHonoured
CHECK_DEADLOCK FALSE
