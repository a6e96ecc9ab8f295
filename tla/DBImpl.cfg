SPECIFICATION Spec
CONSTANTS
  c1 = c1
  c2 = c2
  Clients <- TwoClients
  Kinds <- All
  MaxCalls = 4
  MaxFaults = 1
  MaxSuspends = 1
  WriteBufferSize = 0
  MaxGroup = 2
  Free = Free
  Bg = Bg
  NULL = NULL
  kL0_CompactionTrigger = 1
  kL0_SlowdownWritesTrigger = 1
  kL0_StopWritesTrigger = 2
SYMMETRY ClientSymmetry
INVARIANTS AppliedOnce
PROPERTIES WritesDurable SnapshotsStable
CHECK_DEADLOCK FALSE
