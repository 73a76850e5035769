SPECIFICATION FairSpec
CONSTANTS
  CanId = 40
  CmdDepth = 1
  TxDepth = 1
  Requests <- SomeRequests
  Lossy = FALSE
  MaxCommands = 2
  MaxRequests = 2
  MaxRestarts = 1
CHECK_DEADLOCK FALSE
INVARIANTS
  TypeOK
  StaleBounded
  FlashAccounted
PROPERTIES
  CommandsInOrder
  SuccessIsHeard
  NewestHandled
  EnableTakesEffect
  ImplementsActuator
