CONSTANTS
  Procs = {"primary"}
  BootEntries <- AllEntries
  MaxAttempts = 3
  MaxLines = 4
SPECIFICATION LoaderSpec
INVARIANTS BootsWhatWasSelected InsfileBootsItsComponents NothingLeftBehind
CHECK_DEADLOCK FALSE
