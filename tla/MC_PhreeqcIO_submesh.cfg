\* A chemistry submesh whose bulk node ids reach N: surface and previous-state numbering collide.
CONSTANTS
  N <- MC_N
  ChemSysMap <- MC_SubmeshMap
  GlobalIds <- MC_SubmeshIds
  Components <- MC_Components
  ProcessMap <- MC_ProcessMap
  Hydrogen = "H"
  Phases <- MC_Phases
  Kinetics = {}
  SecVars = {}
  HasSurface = TRUE
  HasDump = TRUE
  Schema <- MC_Schema
  Dropped <- MC_Dropped
  PHVals <- MC_PHValsOne
  PeVals <- MC_PeVals
  NDEBUG = FALSE
  Drift = FALSE
  MaxSteps = 2
SPECIFICATION Spec
\* OGS_FATAL ends the program: pc = "Failed" is a real final state.
CHECK_DEADLOCK FALSE
INVARIANTS
  SurfaceEquilibratesOwnSolution
