SPECIFICATION FairSpec
CONSTANTS
  Edge = 2
  SubChunks = 2
  MaxLines = 3
  Worlds <- MCWorlds
  Lines <- MCLines
  CoordsOf <- MCCoordsOf
  IntOf <- MCIntOf
  IntMax <- MCIntMax
  Textures <- MCTextures
  Directories <- MCDirectories
INVARIANTS
  UndefinedCauses
  ExitFreesAll
  SliceFaithful
  AnswersMatchLine
PROPERTIES
  FilesGuarded
  Answered
