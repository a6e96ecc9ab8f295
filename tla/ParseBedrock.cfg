SPECIFICATION LoadSpec
CONSTANTS
  Edge = 4
  SubChunks = 2
  Databases <- MCDatabases
  OffsetBits = 7
  NBTInputs <- SomeEntries
INVARIANTS
  TypeOK
  PaletteIndexInBounds
  WordsReadable
  UndefinedOnlyOutsideColumn
  WorldMatchesRecords
  GetBlockFaithful
  EntryFaithful
  TagsFreedOnce
PROPERTIES
  SubChunkIsolation
  LoadEnds
