CONSTANTS
  MaxSessions = 3
  Arduino = {a0}
  WrongId = {}
  Reading = Reading
  MaxLines = 1
SPECIFICATION Spec
PROPERTIES
  WritesEnd
CHECK_DEADLOCK FALSE
