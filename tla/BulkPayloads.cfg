SPECIFICATION FairSpec
CONSTANTS
  c1 = c1
  c2 = c2
  Callers = {c1, c2}
  CallsOf <- MCCallsOf
  NotBytes = NotBytes
  Foreign = Foreign
  Nil = Nil
  FlattenFrom = 3
  ConvertFrom = 3
  PythonBatch = 2
  DirectBelow = 2
  GoBatch = 3
  AppendBatch = 1
  UtilWorkers = 2
  CopyWorkers = 2
CHECK_DEADLOCK FALSE
INVARIANTS
  PayloadsIntact
  ReturnedAddsAll
PROPERTIES
  CallsEnd
