CONSTANTS
  N = 2
  Chunks = 1
  Timeout = FALSE
  HasDefault = TRUE
  MaxCalls = 1
  MaxSignals = 0
SPECIFICATION Spec
INVARIANT NoSelectionDropped
CHECK_DEADLOCK FALSE
