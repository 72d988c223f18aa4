SPECIFICATION AgentSpec
CONSTANTS
  Farms = {f1}
  NoFarm = nofarm
  Null = null
  DecisionFields = {"action", "opened"}
  Miners = {m1, m2}
  Wired = {m1}
  Bodies <- Intervals
  Skews <- OnUtc
  Forced <- NotForced
  ErrorOutcomes <- LostOrTorn
  CrashOutcomes <- AnyOutcome
  LastDay = 2
  MaxAppends = 8
  MaxFaults = 1
  MaxPolls = 2
INVARIANTS
  BaselineBelievedMining
CHECK_DEADLOCK FALSE
