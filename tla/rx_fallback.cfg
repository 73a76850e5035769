SPECIFICATION Spec
CONSTANTS
  CanId = 2
  BusFrames <- QuietTraffic
  RcvBuf = 2
  MaxFrames = 3
  MaxRequests = 1
PROPERTIES
  FallbackAfterDisable
