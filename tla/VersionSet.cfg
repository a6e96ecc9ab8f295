SPECIFICATION Spec
CONSTANTS
  kNumLevels = 3
  kMaxMemCompactLevel = 1
  kMaxSequenceNumber = 1000
  kL0_CompactionTrigger = 2
  TargetFileSize = 2
  GrandParentFactor = 2
  ExpandFactor = 5
  BaseLevelBytes = 2
  Keys = {1, 3}
  Missing = {2}
  MaxSequence = 4
  AllowedSeeks = 1
  MaxCalls = 1
  ManualRanges <- Range0
INVARIANTS InputsLive ReadsCorrectIfSound
PROPERTY CompactionsSink
CHECK_DEADLOCK FALSE
