SPECIFICATION Spec
CONSTANTS
  Inputs <- MCInputs
  MaxObjects = 5
  MaxCalls = 4
  MaxPort = 1
  MACLengthOK = {2}
  GoInterval = 1
CHECK_DEADLOCK FALSE
INVARIANTS
  SettingsReachGo
