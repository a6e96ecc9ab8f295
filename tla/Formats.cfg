CONSTANTS
  ByteBase = 16
  BlockSize = 100
  Runs <- SomeRuns
  MaxRuns = 2
  Tags <- SomeTags
  MaxTags = 2
  LengthBytes <- SomeLengthBytes
  VarintBase = 4
  Groups32 = 3
  Groups64 = 4
  NumLevels = 7
  MaxOps = 4
  Edits <- SomeEdits
  kBlockSize = 7
  Lengths = {0, 2, 9}
  MaxRecords = 2
  MaxStops = 1
  UserKeys <- SomeUserKeys
  MaxByte = 3
  MaxSequence = 3
  MaxEntries = 4
  OptionSets <- SomeOptionSets
  Rooms = {5, 30}
  kFilterBase = 5
  BitsPerKey = 2
  MinBits = 4
  Probes = 2
  HashOf <- SomeHashOf
  ScanKeys = {1, 2, 3}
  ScanSequences = 6
  Sources <- SomeSources
SPECIFICATION Spec
INVARIANTS NoOverrun DecodersAgree RoundTrip RecordsExact OnlyGenuineRecords LogReadable TablesReadBack ScanExact
CHECK_DEADLOCK FALSE
