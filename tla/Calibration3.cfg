CONSTANTS
  N = 3
  NoMsg = NoMsg
  SR = SR
  MS = MS
  DimU = 3
SPECIFICATION Spec
INVARIANTS
  TypeOK
  OneLamp
  CleanSamples
  CleanHandover
PROPERTIES
  Calibrated
CHECK_DEADLOCK FALSE
