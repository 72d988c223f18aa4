SPECIFICATION Spec
CONSTANTS
  Connections = {c1, c2}
  Requests <- MCRequests
  Keys = {"ip", "right", "wrong"}
  Presented = {"right", "wrong"}
  Expected = "right"
  Address <- MCAddress
  window_s = 4
  max_attempts = 2
  failure_threshold = 1
  base_block_s = 2
  max_block_s = 3
  MaxDoublings = 1
  Tick = 3
  Shortfall = 2
  TableSize = 3
  IdleWindows = 1
  MaxClock = 5
SYMMETRY Alike
INVARIANTS
  ApiTypeOK
  GuessesCostTime
  RetryAfterNearlyEnough
  NoRequestBehindAPost
PROPERTIES
  BlockIsServed
CHECK_DEADLOCK FALSE
VIEW Idling
