CONSTANTS
  Ids <- AwkwardIds
  UsedModes <- CurrentModes
  TxDepth = 2
  RcvBuf = 2
  MaxFrames = 2
SPECIFICATION Spec
INVARIANTS TypeOK LastSentWins
PROPERTY OwnMotorHeard
CHECK_DEADLOCK FALSE
