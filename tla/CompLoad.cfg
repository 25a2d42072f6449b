CONSTANTS
  Uris <- MCUris
  Cap = 3
  Chunk = 2
  MaxOutput = 4
SPECIFICATION CompLoadSpec
CHECK_DEADLOCK FALSE
INVARIANTS ResultIsTheModules ReadsWhatIsReady
PROPERTY LoadEnds
