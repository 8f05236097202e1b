CONSTANTS
  NULL = NULL
  Ground = Ground
  Players = {ann, bob, cid}
  Things = {bag, box, coin}
  Bags = {bag, box}
  Houses = {h1}
  ScriptsDeny = TRUE
SPECIFICATION Spec
SYMMETRY MCSymmetry
INVARIANTS
  Agreement
  OffersAreListed
PROPERTIES
  Bargain
  NoSwitch
CHECK_DEADLOCK FALSE
