\* Every pair of points over five coordinate values, eps = 1/10.
CONSTANTS
  Coords <- MC_Coords
  EpsNum = 1
  EpsDen = 10
  DIM = 3
SPECIFICATION Spec
INVARIANTS
  LessThanIsLexicographic
  LessEqIsOrderAwayFromTolerance
