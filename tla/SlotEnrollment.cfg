SPECIFICATION Spec
CONSTANTS
  Callers = {p, q}
  Devices = {d1, d2, d3}
  None = None
  MaxCreds = 4
SYMMETRY SlotSymmetry
INVARIANTS
  TypeOK
  EnrolledKeysOpen
  NeverLockedOut
  ReplayOpens
