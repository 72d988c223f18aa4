SPECIFICATION Spec
CONSTANTS
  Null = null
  Torn = torn
  Field <- MCField
  OperatorDefaults <- MCOperatorDefaults
  Usable <- MCUsable
  Patches <- MCPatches
  Edits <- MCEdits
  Step = 9
  ZMin = 3
  ZMax = 12
  MinLabels = 1
  MaxEdits = 1
  Boards = {b1, b2}
  Machines = {m1}
  Trends = {"fan"}
  Scores = {0, 6}
  TrendSamples = 1
  MaxAlerts = 2
  MaxPersistence = 2
  MaxRaised = 3
INVARIANTS
  ConsoleTypeOK
  ToldSurvives
  OnlyLabelsOvershoot
  LabelsAreOfAlerts
  OneOpenAlert
  FoundIsShown
PROPERTIES
  RaisedAfterPersistence
CHECK_DEADLOCK FALSE
VIEW WithoutStreaks
