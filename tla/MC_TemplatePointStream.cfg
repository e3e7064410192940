\* Up to two points and a trailing text written, then read back into one point.
CONSTANTS
  DIM = 3
  Coords <- MC_Coords
  MaxPoints = 2
  Spill = 3
  Untouched = Untouched
  Text = Text
SPECIFICATION Spec
INVARIANTS
  TypeOK
  FirstReadGivesFirstPoint
