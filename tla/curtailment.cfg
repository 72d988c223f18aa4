SPECIFICATION Spec
CONSTANTS
  Null = null
  Hours = 3
  Prices = {1, 2}
  Thresholds = {1, 2}
  Wired = {m1, m2}
INVARIANTS
  CurtailmentTypeOK
  PricesOfTheDay
PROPERTIES
  HourDecidedOnce
  FeedDownMeansOn
  EditedPriceArrives
CHECK_DEADLOCK FALSE
