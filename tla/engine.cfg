CONSTANTS
  NULL = NULL
  Events = {e1}
  Plain = {p1}
  Quits = {q1}
  Downs = {d1, d2}
  Delays = {1}
  Horizon = 1
  IdMax = 2
  SpuriousWakeups = FALSE
  Self = self
  SThread = sthread
  Main = main
  Net = net
  SigTerm = TRUE
SPECIFICATION FairSpec
PROPERTIES
  QuitEndsDispatcher
  SigTermRunsShutdown
CHECK_DEADLOCK FALSE
