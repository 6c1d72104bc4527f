SPECIFICATION Spec
CONSTANTS
  x = x
  y = y
  p = p
  q = q
  Leaves <- SomeLeaves
  Folders <- SomeFolders
  Sources <- SomeSources
  Chunks = 4
  MaxSize = 3
  MaxStamp = 4
  MaxOps = 2
SYMMETRY FolderSymmetry
INVARIANTS
  ErasedIsStored
  PreflightSuffices
  ViewMatches
PROPERTIES
  NothingOverwritten
CHECK_DEADLOCK FALSE
