SPECIFICATION Spec
CONSTANTS
  Null = null
  Farm = f1
  DecisionFields = {"action", "price", "opened"}
  MaxProofs = 2
  Days <- MCDays
  Month <- MCMonth
  Decisions <- MCDecisions
  Measurements <- MCMeasurements
  PollSeconds = 60
  Watts = 3000
  Hourly = 3600
  FeeBp = 2500
  MarginPpm = 1250000
  MaxRecords = 3
INVARIANTS
  InvoiceTypeOK
  HonestStatementVerifies
  
  BilledIsWitnessed
  ProofsAreOfTheirRecords
  BothVerifiersAgree
CHECK_DEADLOCK FALSE
