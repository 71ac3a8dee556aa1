CONSTANTS
  N = 3
  NoMsg = NoMsg
  U = U
  Duty = {d0, d1}
  Dark = d0
  DelaysCover = TRUE
SPECIFICATION Spec
INVARIANTS
  TypeOK
  OneTalker
  NoOverrun
  Framing
  ViewAgreement
PROPERTIES
  RoundsGoOn
  ImplementsRoundRobin
