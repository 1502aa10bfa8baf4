CONSTANTS
  r1 = r1
  r2 = r2
  u = u
  g = g
  t = t
  impression = impression
  content_view = content_view
  Request = {r1, r2}
  User = {u}
  Guest = {g}
  Target = {t}
  ViewKind = {impression, content_view}
  MaxGuest = 2

SPECIFICATION Spec
INVARIANT DroppedWasSent
CHECK_DEADLOCK FALSE
