SPECIFICATION Spec
CONSTANTS
  A = a
  B = b
  Comp = {a, b}
  Empty = empty
  Control = control
  Bodies = {x, y, t}
  FileNames <- MCFileNames
  FolderPaths <- MCFolderPaths
  MaxName = 3
  MaxFolder = 3
  Capacity = 12
  MaxCounter = 7
SYMMETRY BodySymmetry
CHECK_DEADLOCK FALSE
INVARIANTS
  UniqueNames
  FolderRenameUndone
PROPERTIES
  CounterCoversTree
