CONSTANTS
  Users = 2
  MessagesPerUser = 2
  WarmUps = 1
  BodyLen = 2
  Faults = FALSE
SPECIFICATION Spec
INVARIANTS
  NothingForgotten
  ReportComplete
PROPERTIES
  KeepsClosedLoop
  Terminates
