SPECIFICATION Spec
CONSTANTS
  CanId = 40
  CmdDepth = 1
  TxDepth = 1
  Requests <- DisableRequests
  Lossy = FALSE
  MaxCommands = 0
  MaxRequests = 1
  MaxRestarts = 0
  RcvBuf = 1
  Faults = {}
INVARIANTS
  NoFalseAlarm
