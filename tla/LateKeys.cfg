SPECIFICATION Spec
CONSTANTS
  Vaults = {v, w}
  None = None
  MaxLocks = 2
  MaxTasks = 2
SYMMETRY VaultSymmetry
INVARIANT
  KeysAreThisVaults
