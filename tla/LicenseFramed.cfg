SPECIFICATION Spec
CONSTANTS
  Licenses <- SomeLicenses
  Here = "here"
  Current = 1
  Inodes = {i, j, k, l}
  NoFile = NoFile
  MaxSaves = 3
  MaxPending = 1
SYMMETRY InodeSymmetry
VIEW Relevant
INVARIANTS
  ActivationSticks
