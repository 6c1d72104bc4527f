SPECIFICATION Spec
CONSTANTS
  Recordings <- SomeRecordings
  Cap = 2
  MaxOps = 3
INVARIANTS
  EndStops
CHECK_DEADLOCK FALSE
