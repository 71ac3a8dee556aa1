CONSTANTS
  N = 3
  NoMsg = NoMsg
  Message <- Texts
  BufSize = 3
  MaxSends = 3
  Timely = TRUE
SPECIFICATION Spec
INVARIANT TypeOK
PROPERTY ImplementsGeneralCall
CHECK_DEADLOCK FALSE
