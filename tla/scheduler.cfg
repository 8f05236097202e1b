CONSTANTS
  NULL = NULL
  Events = {e1, e2}
  Threads = {t1, t2}
  Delays = {1, 2}
  Horizon = 3
  IdMax = 2
  SpuriousWakeups = TRUE
SPECIFICATION FairSpec
INVARIANTS
  CancelledNeverRuns
  NoLostWakeup
PROPERTIES
  ImplementsTimer
CHECK_DEADLOCK FALSE
