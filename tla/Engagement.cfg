CONSTANTS
  r1 = r1
  r2 = r2
  r3 = r3
  u = u
  g = g
  t = t
  impression = impression
  Request = {r1, r2, r3}
  User = {u}
  Guest = {g}
  Target = {t}
  ViewKind = {impression}
  MaxGuest = 1

SPECIFICATION Spec
INVARIANTS
  TypeOK
  StoredOncePerLife
  AloneAnswers
SYMMETRY Symmetry
CHECK_DEADLOCK FALSE
