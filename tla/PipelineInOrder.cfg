SPECIFICATION FairSpec
CONSTANTS
  Workers = {w1}
  Streams = {s1, s2}
  Lengths = {1}
  MaxPayloads = 4
  MaxSafePayloadSize = 1
  Serializable = TRUE
  ChannelBuffers = 1
  TurnstileBurst = 1
  EnableCPUPinning = TRUE
  EnableMetrics = TRUE
CHECK_DEADLOCK FALSE
INVARIANTS
  BurstBounded
PROPERTIES
  Completes
