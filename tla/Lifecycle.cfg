SPECIFICATION FairSpec
CONSTANTS
  Threads = {t1, t2}
  Workers = 2
  Streams = 2
  MaxPayloads = 3
  Refusals = {{}, {1}}
CHECK_DEADLOCK FALSE
INVARIANTS
  CompleteIsSent
PROPERTIES
  FlushEndsAfterSend
