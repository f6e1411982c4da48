CONSTANTS
  Protocols <- Both
  Scheduled = 4
  MaxInflight = 2
  Patience = 2
  MaxSamples = 2
SPECIFICATION TrialSpec
INVARIANTS
  TrialTypeOK
  OnSchedule
  Ledger
  OkLeavesNothing
  AverageExact
 
CHECK_DEADLOCK FALSE
