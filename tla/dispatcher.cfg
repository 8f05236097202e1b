CONSTANTS
  NULL = NULL
  Tasks = {k1, k2, k3}
  Threads = {t1}
  Self = self
SPECIFICATION FairSpec
INVARIANTS
  NoLostWakeup
  InOrder
PROPERTIES
  AcceptedIsSettled
CHECK_DEADLOCK FALSE
