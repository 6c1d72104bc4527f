SPECIFICATION FileSpec
CONSTANTS
  Byte = {0, 1}
  Zero = 0
  CP = 3
  Window = 1
  Pool = 3
  MaxU = 13
  MaxIndex = 4
  MaxLen = 4
INVARIANTS
  ChunkLengths
  WindowsAgree
  WritesAreOverlays
PROPERTIES
  ImplementsText
  GrowEnds
