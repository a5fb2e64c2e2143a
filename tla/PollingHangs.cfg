SPECIFICATION SenderFairSpec
CONSTANTS
  Workers = {w1}
  Streams = {s1}
  Lengths = {1}
  MaxPayloads = 1
  MaxSafePayloadSize = 1
  Serializable = TRUE
  ChannelBuffers = 1
  TurnstileBurst = 1
  EnableCPUPinning = TRUE
  EnableMetrics = TRUE
  ErrorCap = 2
  ProgressCap = 1
  MaxResultsToBuffer = 2
CHECK_DEADLOCK FALSE
PROPERTIES
  GetNextResultReturns
