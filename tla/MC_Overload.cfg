CONSTANTS
  Streams <- ThreeStreams
  Scenarios <- Reported
  RespLen = 1
  PeerMayReset = FALSE
  Faults = FALSE
  RawStreamChunk = 1
INIT OverloadInit
NEXT OverloadNext
INVARIANT SidesAgree
PROPERTY KeepsPromise
