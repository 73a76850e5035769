SPECIFICATION FairSpec
CONSTANTS
  CanId = 40
  CmdDepth = 1
  TxDepth = 1
  Requests <- FaultRequests
  Lossy = TRUE
  MaxCommands = 1
  MaxRequests = 1
  MaxRestarts = 0
  RcvBuf = 2
  Faults = {2}
PROPERTIES
  FaultFollowed
