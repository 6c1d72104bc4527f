SPECIFICATION Spec
CONSTANTS
  A = a
  B = b
  Comp = {a, b}
  Empty = empty
  Control = control
  Bodies = {x, y}
  FileNames <- MCFileNames
  FolderPaths <- MCFolderPaths
  MaxName = 3
  MaxFolder = 3
  Capacity = 10
  MaxCounter = 6
SYMMETRY BodySymmetry
CHECK_DEADLOCK FALSE
PROPERTY
  RenameSparesFileNames
