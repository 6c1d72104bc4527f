SPECIFICATION Spec
CONSTANTS
  Vaults = {v, w}
  None = None
  MaxLocks = 2
  MaxTasks = 2
INVARIANTS
  TypeOK
  NoStaleHandle
PROPERTIES
  LateNeverOpens
  LockApplied
  WindowReturns
