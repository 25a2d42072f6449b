CONSTANTS
  N = 2
  Chunks = 1
  Timeout = TRUE
  HasDefault = FALSE
  MaxCalls = 1
  MaxSignals = 1
SPECIFICATION FairSpec
PROPERTIES TimeoutEndsWait CleanupEnds DeliveryEndsWait
CHECK_DEADLOCK FALSE
