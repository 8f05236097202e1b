CONSTANTS
  Conns = {a, b, c}
  Names = {ann, bob}
  NULL = NULL
SPECIFICATION Spec
SYMMETRY Symmetry
INVARIANTS
  OwnerPlays
  WatchersAreAlive
  RefsAreExact
  FlushIsPending
  ConnectingIsDue
CHECK_DEADLOCK FALSE
