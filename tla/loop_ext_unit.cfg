SPECIFICATION Spec
CONSTANTS
  CanId = 40
  Commands <- TurnCommands
  ExtUnit = 1
  Absent = Absent
INVARIANTS
  ExtendedPositionTrue
