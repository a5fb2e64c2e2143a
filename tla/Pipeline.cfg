SPECIFICATION FairSpec
CONSTANTS
  Workers = {w1, w2}
  Streams = {s1, s2}
  Lengths = {1, 2}
  MaxPayloads = 3
  MaxSafePayloadSize = 1
  Serializable = TRUE
  ChannelBuffers = 1
  TurnstileBurst = 2
  EnableCPUPinning = FALSE
  EnableMetrics = TRUE
CHECK_DEADLOCK FALSE
INVARIANTS
  PipelineInv
  OrderedDelivery
  NoSendOnClosedChannel
  HandlesOpenForWrites
  CancelFindsNoWork
  
PROPERTIES
  TurnPassesAfterWrite
  ImplementsTransmission
  Completes
