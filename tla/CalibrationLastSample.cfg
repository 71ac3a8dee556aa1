CONSTANTS
  N = 3
  NoMsg = NoMsg
  SR = SR
  MS = MS
  DimU = 2
SPECIFICATION Safety
INVARIANT
  EverySampleClean
CHECK_DEADLOCK FALSE
