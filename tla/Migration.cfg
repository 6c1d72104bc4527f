SPECIFICATION Spec
CONSTANTS
  Files = {f, g}
  Folders = {d}
  Owner = Owner
  Anonymous = Anonymous
  SrcChunks = 4
  SrcCount = 6
  Margin = 1
  Exacts = {2}
  MaxVaults = 5
  MaxEdits = 3
  MaxBegun = 2
SYMMETRY FileSymmetry
VIEW Reachable
INVARIANTS
  TypeOK
  OkMeansCopied
  CopyAlwaysFits
  OneCopySurvives
  NameNeverStale
CHECK_DEADLOCK FALSE
