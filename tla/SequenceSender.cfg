SPECIFICATION FairSpec
CONSTANTS
  Lengths = {1, 2}
  MaxPayloads = 4
  MaxSends = 2
  MinPayloadSize = 2
  ProgressCap = 2
CHECK_DEADLOCK FALSE
INVARIANTS
  ResultsInOrder
  ResultsAreTrue
  WireInOrder
  NoPanicInFirstSend
PROPERTIES
  SendReturns
