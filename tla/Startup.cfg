CONSTANTS
  MaxSystemDepth = 4
  MaxNesting = 4
  Identifiers = {}
  Uuids = {}
  Matching = {}
  Content <- MCContent
  Unreliable = {"a", "c", "m1"}
  MaxInclDepth = 2
  MaxRetries = 1
  FirstTimeout = 1
  NetConfs <- MCNetConfs
  Cmdlines <- MCCmdlines
  Mains = {"m1", "m2", "m3", "m4"}
  Entries <- MCEntries
  Whole <- MCWhole
  MaxEntries = 3
SPECIFICATION StartupSpec
CHECK_DEADLOCK FALSE
INVARIANTS StartupTypeOK OpenFilesAreIntact ConfigIsExpanded OnlyCutTextsSpoil LeaseIsOfThisStatement WaitIsBounded
PROPERTY Settles
