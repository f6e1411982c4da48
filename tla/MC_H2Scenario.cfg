CONSTANTS
  Users = 3
  MessagesPerUser = 2
  WarmUps = 1
SPECIFICATION Spec
INVARIANTS
  TypeOK
  AllAccounted
PROPERTIES
  KeepsClosedLoop
  Terminates
