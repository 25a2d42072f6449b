CONSTANTS
  Menus <- MCMenus
  Defaults = {0}
  Lines <- AllLines
  Answers <- MCAnswers
  MaxTyped = 2
SPECIFICATION LinemodeSpec
INVARIANTS LockNeedsPassword BootsWhatWasTyped PrintedEntrySurvives TerminalRestored
CHECK_DEADLOCK FALSE
