\* The same streams: reading one point from a stream that holds two overruns _x.
CONSTANTS
  DIM = 3
  Coords <- MC_Coords
  MaxPoints = 2
  Spill = 3
  Untouched = Untouched
  Text = Text
SPECIFICATION Spec
INVARIANTS
  NoWritePastCoordinates
