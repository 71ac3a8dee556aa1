CONSTANTS
  N = 5
  Reader = {r1}
  Slack = 1
  MaxDuty = 1
  Step = {1}
  Start = 2
  Window = 1
  MaxLines = 7
SPECIFICATION Spec
INVARIANT
  StoredInRing
CHECK_DEADLOCK FALSE
