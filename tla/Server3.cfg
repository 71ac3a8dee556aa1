CONSTANTS
  MaxSessions = 3
  Arduino = {a0}
  WrongId = {w9}
  Reading = Reading
  MaxLines = 2
SPECIFICATION Safety
INVARIANTS
  TypeOK
  OneWrite
  WillBeWoken
  PoolServes
  SubscribedOnce
  NoneLeftBehind
CHECK_DEADLOCK FALSE
