SPECIFICATION Spec
CONSTANTS
  CanIds <- GoodCanIds
  JointNames <- GoodJointNames
  MotorTypes <- TriedMotorTypes
  Unset = Unset
INVARIANTS
  FailedStartExits1
