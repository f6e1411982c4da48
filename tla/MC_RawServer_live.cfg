CONSTANTS
  Streams <- TwoStreams
  Scenarios <- ThresholdScenarios
  RespLen = 2
  PeerMayReset = FALSE
  Faults = FALSE
SPECIFICATION ServerSpec
PROPERTY EventuallyAnswered
