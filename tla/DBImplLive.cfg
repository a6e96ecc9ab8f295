SPECIFICATION FairSpec
CONSTANTS
  c1 = c1
  c2 = c2
  Clients <- TwoClients
  Kinds <- Compact
  MaxCalls = 3
  MaxFaults = 1
  MaxSuspends = 0
  WriteBufferSize = 0
  MaxGroup = 2
  Free = Free
  Bg = Bg
  NULL = NULL
  kL0_CompactionTrigger = 1
  kL0_SlowdownWritesTrigger = 1
  kL0_StopWritesTrigger = 2
PROPERTIES CallsReturn
CHECK_DEADLOCK FALSE
