\* Three systems rotated by the bulk node map (0->1->2->0), no surface and no dump (the one-row skip), two steps; H process and schema pH, Calcite only.
CONSTANTS
  N <- MC_N3
  ChemSysMap <- MC_CycleMap
  GlobalIds <- MC_GlobalIds3
  Components = {}
  ProcessMap <- MC_ProcessMapH
  Hydrogen = "H"
  Phases <- MC_Phases
  Kinetics = {}
  SecVars = {}
  HasSurface = FALSE
  HasDump = FALSE
  Schema <- MC_SchemaPHPhase
  Dropped <- MC_Dropped
  PHVals <- MC_PHVals
  PeVals <- MC_PeVals
  NDEBUG = FALSE
  Drift = FALSE
  MaxSteps = 2
SPECIFICATION Spec
\* OGS_FATAL ends the program: pc = "Failed" is a real final state.
CHECK_DEADLOCK FALSE
PROPERTIES
  UpdatePushesEngineResults
