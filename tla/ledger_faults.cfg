SPECIFICATION FairSpec
CONSTANTS
  Farms = {f1, f2}
  NoFarm = nofarm
  Bodies = {b}
  Skews <- WestOfUtc
  Forced <- MayForce
  ErrorOutcomes <- LostOrTorn
  CrashOutcomes <- AnyOutcome
  LastDay = 3
  MaxAppends = 4
  MaxFaults = 2
INVARIANTS
  TypeOK
  ChainUnbroken
  PredecessorIsNextSeqMinusOne
  SealsVerify
  SealsTile
  RuleInForce
PROPERTIES
  ImplementsSealChain
  EveryFinishedDaySealed
CHECK_DEADLOCK FALSE
