SPECIFICATION Spec
CONSTANTS
  CanId = 40
  Commands <- MitExtremeCommands
  ExtUnit = 100
  Absent = Absent
INVARIANTS
  MitExtremes
