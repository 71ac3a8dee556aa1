CONSTANTS
  Clients  = 2
  LineSize = 6
  MaxSets  = 3
SPECIFICATION FairSpec
INVARIANTS
  TypeOK
  LineFits
  RefFollows
PROPERTY Agreement
