CONSTANTS
  Procs = {"primary", "secondary"}
  MaxJobs = 2
SPECIFICATION DevicesSpec
INVARIANTS RetryWorks LoadersLeaveNoFailed LoadersRestoreDasd MountPointGone
PROPERTY UseIsUndone
CHECK_DEADLOCK FALSE
