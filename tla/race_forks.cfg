SPECIFICATION Spec
CONSTANTS
  Agent = agent
  Sealers = {cli}
  LastDay = 2
  MaxRecords = 4
  MaxCalls = 4
PROPERTIES
  ImplementsSealChain
INVARIANTS
  OneSealPerProcess
  SealMissesOnePoll
CHECK_DEADLOCK FALSE
