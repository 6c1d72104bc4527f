SPECIFICATION Spec
CONSTANTS
  NameA = a
  Names = {a}
  Data = {x, z}
  Zero = z
  Chunks = {m, c1, c2}
  MC = m
  Junk = Junk
  Header = Header
  NoChunk = NoChunk
  Gone = Gone
  Keep = Keep
  Folders = {dir}
  Under <- MCUnder
  ManifestCap = 5
  Ops = {"add"}
  Faults = {"io"}
  MaxLen = 2
  MaxCounter = 3
  MaxFaults = 1
SYMMETRY ChunkSymmetry
CHECK_DEADLOCK FALSE
INVARIANT
  UnpoisonedReadsBack
