CONSTANTS
  b1 = b1
  b2 = b2
  Bags = {b1, b2}
  Coins = {c1, c2, c3, c4, c5}
  Gems = {g}
  Slots = {3, 10}
  Fits <- MCFits
  Capacity <- MCCapacity
  Stack = 2
  MaxWeight = 6
  Most = 4
  Player = Player
  Tile = Tile
  NoItem = NoItem
  Nowhere = Nowhere
SPECIFICATION Spec
SYMMETRY Symmetry
INVARIANTS
  ContentsAgree
  NothingIsLost
PROPERTIES
  MovesConserve
CHECK_DEADLOCK FALSE
