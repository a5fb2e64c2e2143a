SPECIFICATION FairSpec
CONSTANTS
  Workers = {w1}
  Streams = {s1, s2}
  Lengths = {1, 2}
  MaxPayloads = 2
  MaxSafePayloadSize = 1
  Serializable = TRUE
  ChannelBuffers = 1
  TurnstileBurst = 1
  EnableCPUPinning = FALSE
  EnableMetrics = TRUE
CHECK_DEADLOCK FALSE
PROPERTIES
  ErrorsDoNotBlock
