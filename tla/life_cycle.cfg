SPECIFICATION FairSpec
CONSTANTS
  CanIds <- TriedCanIds
  JointNames <- TriedJointNames
  MotorTypes <- TriedMotorTypes
  Unset = Unset
INVARIANTS
  TypeOK
  NoHalfInitialized
  RxWithinSocketLife
  OrderlyExit
PROPERTIES
  BadConfigurationExits
  InterruptEnds
