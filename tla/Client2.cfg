CONSTANTS
  Endpoints = 2
  MaxLines = 2
  MaxSends = 2
SPECIFICATION Spec
INVARIANTS
  TypeOK
  DeadlineIsOwn
  EndpointsTried
PROPERTIES
  StopIsFinal
  Ends
CHECK_DEADLOCK FALSE
