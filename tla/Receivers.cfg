SPECIFICATION FairSpec
CONSTANTS
  Calls <- MCCalls
  Tests <- MCTests
  MaxPackets = 4
  PacketCap = 2
  ResultCap = 1
  MinPacketSize = 2
CHECK_DEADLOCK FALSE
INVARIANTS
  AnswerIsCapture
  StreamIsInOrder
  ReportIsTrue
PROPERTIES
  CapturesEnd
  CloseStops
  BenchmarkEnds
