CONSTANTS
  Users = 2
  MessagesPerUser = 2
  WarmUps = 1
INIT Init
NEXT Next
INVARIANT TasksAwaited
