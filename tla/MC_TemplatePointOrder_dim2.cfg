\* Two-dimensional points (TemplatePoint<T, 2>), eps = 1/10; the third cell is the memory after _x.
CONSTANTS
  Coords <- MC_Coords
  EpsNum = 1
  EpsDen = 10
  DIM = 2
SPECIFICATION Spec
INVARIANTS
  LessEqReadsWithinPoint
