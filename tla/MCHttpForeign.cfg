SPECIFICATION Spec
CONSTANTS
  s1 = s1
  s2 = s2
  p1 = p1
  p2 = p2
  Sessions <- MCSessions
  Places <- MCPlaces
  Nowhere = Nowhere
  MaxPackets = 3
SYMMETRY Symmetry
CHECK_DEADLOCK FALSE
INVARIANTS
  NoForeignContent
