\* The same pairs: lessEq of dimensions 1 and 2 measures the tolerance relative to |a[k]| only.
CONSTANTS
  Coords <- MC_Coords
  EpsNum = 1
  EpsDen = 10
  DIM = 3
SPECIFICATION Spec
INVARIANTS
  LessEqTotal
