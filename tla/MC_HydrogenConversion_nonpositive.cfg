\* Zero and negative concentrations, as a transport undershoot leaves them.
CONSTANTS
  Exps <- MC_Exps
  Specials <- MC_NonPositive
  PHVals <- MC_PHVals
  Schemas = {TRUE, FALSE}
  MaxCalls = 3
SPECIFICATION Spec
\* A call ends at Idle or at OGS_FATAL; TransportAndCall is bounded by MaxCalls.
CHECK_DEADLOCK FALSE
INVARIANTS
  InputPHFinite
