CONSTANTS
  r1 = r1
  r2 = r2
  r3 = r3
  t1 = t1
  t2 = t2
  p1 = p1
  p2 = p2
  Request = {r1, r2, r3}
  Target = {t1, t2}
  Page = {p1, p2}
  MaxModalPerPage = 1
  MaxModalPerSession = 2
  Cooldown = 1
  MaxTime = 2

SPECIFICATION Spec
INVARIANTS
  TypeOK
  LimitsHold
  SuppressionHolds
  CountedOnce
SYMMETRY Symmetry
CHECK_DEADLOCK FALSE
