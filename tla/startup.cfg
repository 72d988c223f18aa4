SPECIFICATION Spec
CONSTANTS
  Null = null
  Torn = torn
  Processes = {p1, p2}
  MaxMinted = 7
INVARIANTS
  FirstRunIsForGood
PROPERTIES
  SecretOutlivesUpgrade
CHECK_DEADLOCK FALSE
