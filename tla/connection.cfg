CONSTANTS
  MaxMessages = 3
  MayThrow = TRUE
SPECIFICATION ConnectionFairSpec
INVARIANTS
  OneWriteAtATime
  GracefulDelivers
  ReleasedOnce
PROPERTIES
  WritingEnds
CHECK_DEADLOCK FALSE
