CONSTANTS
  Items = {i1, i2}
  NoItem = NoItem
  Kinds <- MCKinds
  NoKind = NoKind
  DecayTime <- MCDecayTime
  DecayTo <- MCDecayTo
  Vanish = "vanish"
  Never = "never"
  StopTime = {"unlit"}
  Group <- MCGroup
  Imported = {1600, 1900}
  Sources = {"loaded"}
  MaxEntries = 2
SPECIFICATION DecaySpec
SYMMETRY MCSymmetry
INVARIANTS
  RefsAreExact
  DecayingIsListed
  OnTime
CHECK_DEADLOCK FALSE
