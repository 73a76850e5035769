SPECIFICATION FairSpec
CONSTANTS
  CanId = 2
  BusFrames <- BusyTraffic
  RcvBuf = 2
  MaxFrames = 3
  MaxRequests = 1
INVARIANTS
  TypeOK
  LocalsFresh
  StreamConserved
  CleanCut
  NoClobber
  ClearedNotReused
PROPERTIES
  ImplementsStream
  UntouchedAfterJoin
  OnlyOwnFeedback
  ReceivedIsPublished
  ShutdownCompletes
