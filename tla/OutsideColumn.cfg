SPECIFICATION Spec
CONSTANTS
  Edge = 2
  SubChunks = 2
  MaxLines = 1
  Worlds <- MCWorlds
  Lines <- MCLines
  CoordsOf <- MCCoordsOf
  IntOf <- MCIntOf
  IntMax <- MCIntMax
  Textures <- MCTextures
  Directories <- MCDirectories
INVARIANT
  OutsideIsFailure
