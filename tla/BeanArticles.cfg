CONSTANTS
  a1 = a1
  a2 = a2
  Article = {a1, a2}
  r1 = r1
  r2 = r2
  r3 = r3
  Request = {r1, r2, r3}
  Before = Before
  MaxLength = 2
  Lists <- MCLists
  Order = {0}

SPECIFICATION FairSpec
INVARIANTS
  TypeOK
  NoArticleTwice
  RemovedOnce
PROPERTIES
  ReplaceSwaps
  RequestsEnd
CHECK_DEADLOCK FALSE
