SPECIFICATION Spec
CONSTANTS
  NameA = a
  Names = {a, b}
  Data = {x, z}
  Zero = z
  Chunks = {m, c1, c2, c3}
  MC = m
  Junk = Junk
  Header = Header
  NoChunk = NoChunk
  Gone = Gone
  Keep = Keep
  Folders = {dir}
  Under <- MCUnder
  ManifestCap = 4
  Ops = {"add", "create", "write", "truncate", "rename", "delete", "rmdir"}
  Faults = {"io", "kill", "power"}
  MaxLen = 2
  MaxCounter = 4
  MaxFaults = 1
SYMMETRY ChunkSymmetry
CHECK_DEADLOCK FALSE
INVARIANTS
  TypeOK
  ChunkOwnership
  SettledFilesSurvive
  LiveMatchesDisk
  CounterNotBehindAck
PROPERTIES
  ShreddedWhenAcked
  ImplementsStore
