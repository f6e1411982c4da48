CONSTANTS
  Streams <- TwoStreams
  Scenarios <- Live
  RespLen = 1
  PeerMayReset = FALSE
  Faults = FALSE
  RawStreamChunk = 1
SPECIFICATION OverloadSpec
PROPERTY Terminates
