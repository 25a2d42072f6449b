CONSTANTS
  MaxSystemDepth = 2
  MaxNesting = 3
  Identifiers = {"here", "uuid"}
  Uuids = {"uuid"}
  Matching = {"here", "uuid"}
  UiModes = {"", "linemode"}
  Names = {"", "0", "linux"}
  NumberOf <- MCNumberOf
  Timeouts = {1}
  Passwords = {"secret"}
  Commands = {"exec"}
  ModParams = {"name"}
  NetParams = {"address"}
  Modules = {"linemode", "other"}
  Options = {"kernel"}
  MaxUis = 1
  MaxEntries = 1
SPECIFICATION ParserSpec
INVARIANTS ActiveMeansAllTrue TimeoutHasDefault NoResidue SecondaryIsPassive
PROPERTY IgnoredTextLeavesNoTrace
CHECK_DEADLOCK FALSE
