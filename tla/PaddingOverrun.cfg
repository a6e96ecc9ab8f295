SPECIFICATION LoadSpec
CONSTANTS
  Edge = 4
  SubChunks = 2
  Databases <- MCDatabases
  OffsetBits = 7
  NBTInputs <- SomeEntries
INVARIANT
  GetBlockExact
