CONSTANTS
  Monsters = {m1, m2}
  Players = {ann}
  Places = {north}
  VectorCount = 1
  Lists = {"target", "friend"}
  Within <- MCWithin
  NULL = NULL
SPECIFICATION Spec
SYMMETRY Symmetry
INVARIANTS
  RefsAreExact
  NothingDangles
  VectorsAgree
  TheDyingAreChecked
  PlacesAreKept
CHECK_DEADLOCK FALSE
