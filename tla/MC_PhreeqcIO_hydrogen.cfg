\* Debug build, engine rows that may be one column short or long, and a transport process "H"
\* that is also a component: the component amount and 10^-pH both claim the process solution.
CONSTANTS
  N <- MC_N
  ChemSysMap <- MC_ChemSysMap
  GlobalIds <- MC_GlobalIds
  Components <- MC_ComponentsH
  ProcessMap <- MC_ProcessMapH
  Hydrogen = "H"
  Phases <- MC_Phases
  Kinetics = {}
  SecVars = {}
  HasSurface = TRUE
  HasDump = TRUE
  Schema <- MC_SchemaH
  Dropped <- MC_Dropped
  PHVals <- MC_PHVals
  PeVals <- MC_PeVals
  NDEBUG = FALSE
  Drift = TRUE
  MaxSteps = 1
SPECIFICATION Spec
\* OGS_FATAL ends the program: pc = "Failed" is a real final state.
CHECK_DEADLOCK FALSE
PROPERTIES
  UpdatePushesEngineResults
