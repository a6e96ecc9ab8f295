SPECIFICATION Spec
CONSTANTS
  kNumLevels = 4
  kMaxMemCompactLevel = 2
  kMaxSequenceNumber = 1000
  kL0_CompactionTrigger = 2
  TargetFileSize = 2
  GrandParentFactor = 2
  ExpandFactor = 5
  BaseLevelBytes = 2
  Keys = {1, 3}
  Missing = {2}
  MaxSequence = 4
  AllowedSeeks = 1
  MaxCalls = 2
  ManualRanges <- NoRange
CHECK_DEADLOCK FALSE
INVARIANT ReadsCorrect
