CONSTANTS
  Monsters = {m1, m2}
  Players = {ann}
  Spots = {"temple", "field", "cave"}
  Floor <- MCFloor
  Viewport <- MCViewport
  ClientView <- MCClientView
  Far <- MCFar
  Protected = {"temple"}
  TeleportAll = FALSE
  TeleportPlayers = TRUE
  NULL = NULL
SPECIFICATION Spec
SYMMETRY Symmetry
INVARIANTS
  TargetsAreInSight
  AwakeWhenNeeded
CHECK_DEADLOCK FALSE
