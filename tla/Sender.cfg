SPECIFICATION SenderFairSpec
CONSTANTS
  Workers = {w1, w2}
  Streams = {s1}
  Lengths = {1, 2}
  MaxPayloads = 2
  MaxSafePayloadSize = 1
  Serializable = TRUE
  ChannelBuffers = 1
  TurnstileBurst = 1
  EnableCPUPinning = TRUE
  EnableMetrics = TRUE
  ErrorCap = 2
  ProgressCap = 2
  MaxResultsToBuffer = 2
CHECK_DEADLOCK FALSE
INVARIANTS
  NoErrorMissing
  ResultsAreTrue
  ClosedIsComplete
PROPERTIES
  ResultsKeepOrder
  NoSendOnClosedProgress
  SenderCompletesUnlessPolled
