CONSTANTS
  Callers = {"shell", "comp_load"}
  Meanings <- MCMeanings
  BlockSize = 2
  MaxRemote = 3
SPECIFICATION ScpSpec
INVARIANT FetchesTheFile
CHECK_DEADLOCK FALSE
