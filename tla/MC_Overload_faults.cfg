CONSTANTS
  Streams <- ThreeStreams
  Scenarios <- Faulty
  RespLen = 1
  PeerMayReset = FALSE
  Faults = TRUE
  RawStreamChunk = 2
INIT OverloadInit
NEXT OverloadNext
INVARIANTS
  ClientTypeOK
  Accounted
  WatchdogNeverUnderflows
