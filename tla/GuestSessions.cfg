CONSTANTS
  r1 = r1
  r2 = r2
  Request = {r1, r2}
  MaxSessions = 2
  MaxTime = 3
  SessionTTL = 7
  MaxDuration = 2

SPECIFICATION Spec
INVARIANTS
  TypeOK
  HandledRequestHasSession
  CookieIsLive
  CookieHonoured
SYMMETRY Symmetry
CHECK_DEADLOCK FALSE
