\* Surface chemistry without a dump, which spec.md allows (Dump is optional; without it the SURFACE
\* equilibrates with g+1); one pH value, well-formed output.
CONSTANTS
  N <- MC_N
  ChemSysMap <- MC_ChemSysMap
  GlobalIds <- MC_GlobalIds
  Components <- MC_Components
  ProcessMap <- MC_ProcessMap
  Hydrogen = "H"
  Phases <- MC_Phases
  Kinetics = {}
  SecVars = {}
  HasSurface = TRUE
  HasDump = FALSE
  Schema <- MC_Schema
  Dropped <- MC_Dropped
  PHVals <- MC_PHValsOne
  PeVals <- MC_PeVals
  NDEBUG = FALSE
  Drift = FALSE
  MaxSteps = 1
SPECIFICATION Spec
\* OGS_FATAL ends the program: pc = "Failed" is a real final state.
CHECK_DEADLOCK FALSE
INVARIANTS
  SurfaceWithoutDumpWritten
