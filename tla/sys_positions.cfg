SPECIFICATION FairSpec
CONSTANTS
  CanId = 40
  CmdDepth = 1
  TxDepth = 1
  Requests <- PositionRequests
  Lossy = FALSE
  MaxCommands = 0
  MaxRequests = 2
  MaxRestarts = 1
  RcvBuf = 2
  Faults = {}
INVARIANTS
  TypeOK
PROPERTIES
  ImplementsPath
  ZeroNeverReturns
  OriginShows
  SourceFollowsMotor
