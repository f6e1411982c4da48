CONSTANTS
  Users = 2
  MessagesPerUser = 2
  WarmUps = 1
  BodyLen = 2
  Faults = TRUE
INIT Init
NEXT Next
INVARIANTS
  TypeOK
  OneOutstanding
  CountsAgree
