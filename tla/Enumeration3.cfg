CONSTANTS
  Board = {10, 11, 13}
  First = 10
  Last = 13
  Slots = 4
  InTime = TRUE
SPECIFICATION Spec
INVARIANTS
  TypeOK
  OneCounts
  SameVector
  NoGhost
PROPERTY Enumerated
CHECK_DEADLOCK FALSE
