SPECIFICATION Spec
CONSTANTS
  Recordings <- SomeRecordings
  Cap = 2
  MaxOps = 3
INVARIANTS
  InFlightExact
  HeardInOrder
PROPERTIES
  SilentUntilAsked
  PlaybackEnds
CHECK_DEADLOCK FALSE
