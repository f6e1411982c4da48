CONSTANTS
  Streams <- MCStreams
  Scenarios <- BothPolicies
  RespLen = 2
  PeerMayReset = TRUE
  Faults = TRUE
INIT ServerInit
NEXT ServerNext
INVARIANTS
  TypeOK
  Counts
  Policy
  RejectedNeverRead
  Lifecycle
  ResponseBooks
