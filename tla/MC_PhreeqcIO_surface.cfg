\* Surface chemistry with the dump, a permuted bulk node map, well-formed output.
CONSTANTS
  N <- MC_N
  ChemSysMap <- MC_ChemSysMap
  GlobalIds <- MC_GlobalIds
  Components <- MC_Components
  ProcessMap <- MC_ProcessMap
  Hydrogen = "H"
  Phases <- MC_Phases
  Kinetics = {}
  SecVars = {}
  HasSurface = TRUE
  HasDump = TRUE
  Schema <- MC_Schema
  Dropped <- MC_Dropped
  PHVals <- MC_PHVals
  PeVals <- MC_PeVals
  NDEBUG = FALSE
  Drift = FALSE
  MaxSteps = 2
SPECIFICATION Spec
\* OGS_FATAL ends the program: pc = "Failed" is a real final state.
CHECK_DEADLOCK FALSE
INVARIANTS
  TypeOK
  SurfaceEquilibratesOwnSolution
  WellFormedOutputAccepted

  
