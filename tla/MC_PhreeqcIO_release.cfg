\* Release build (assert compiled out), a row one column short: it is applied silently.
CONSTANTS
  N <- MC_N
  ChemSysMap <- MC_ChemSysMap
  GlobalIds <- MC_GlobalIds
  Components <- MC_Components
  ProcessMap <- MC_ProcessMap
  Hydrogen = "H"
  Phases <- MC_Phases
  Kinetics = {}
  SecVars = {}
  HasSurface = TRUE
  HasDump = TRUE
  Schema <- MC_Schema
  Dropped <- MC_Dropped
  PHVals <- MC_PHValsOne
  PeVals <- MC_PeVals
  NDEBUG = TRUE
  Drift = TRUE
  MaxSteps = 1
SPECIFICATION Spec
\* OGS_FATAL ends the program: pc = "Failed" is a real final state.
CHECK_DEADLOCK FALSE
INVARIANTS
  NoSilentTruncation
