CONSTANTS
  PhyBlocks = 6
  PerBlock = 2
  TableSize = 2
  Disks <- MCDisks
  Programs = {0, 2}
  Garbage <- MCGarbage
  DisabledWait = 7
  MaxLoad = 6
SPECIFICATION BootmapFairSpec
INVARIANTS EntryInTable DroppedErrorIsCaught CopiedIsTheComponent KexecGetsNamedObjects
PROPERTY CopyEnds
CHECK_DEADLOCK FALSE
