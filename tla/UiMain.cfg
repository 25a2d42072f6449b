CONSTANTS
  N = 2
  Chunks = 2
  Timeout = TRUE
  HasDefault = TRUE
  MaxCalls = 2
  MaxSignals = 1
SPECIFICATION Spec
INVARIANTS TypeOK SelectionIsComplete NoSurvivors DefaultNeedsTimeout
PROPERTY ImplementsSelection
CHECK_DEADLOCK FALSE
