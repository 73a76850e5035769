SPECIFICATION Spec
CONSTANTS
  CanId = 40
  Commands <- AllCommands
  ExtUnit = 100
  Absent = Absent
INVARIANTS
  TypeOK
  OwnMotorOnly
  FollowsCommand
  ProfileAsRequested
  ExtendedScaled
  MitFieldsExact
