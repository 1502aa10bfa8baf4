CONSTANTS
  r1 = r1
  r2 = r2
  r3 = r3
  Request = {r1, r2, r3}
  Capacity = 2
  Period = 3
  Second = 2
  MinTTL = 2
  MaxDelay = 2
  MaxTime = 15

SPECIFICATION Spec
INVARIANTS
  TypeOK
  NoFreeTokens
  WaitIsEnough
SYMMETRY Symmetry
CHECK_DEADLOCK FALSE
