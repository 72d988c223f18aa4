SPECIFICATION Spec
CONSTANTS
  Farms = {f1}
  NoFarm = nofarm
  Bodies = {b}
  Skews <- EastOfUtc
  Forced <- NotForced
  ErrorOutcomes <- Nothing
  CrashOutcomes <- Whole
  LastDay = 2
  MaxAppends = 3
  MaxFaults = 1
INVARIANTS
  SealsVerify
CHECK_DEADLOCK FALSE
