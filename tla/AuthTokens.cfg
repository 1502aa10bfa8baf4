CONSTANTS
  u1 = u1
  User = {u1}
  NoUser = NoUser
  Admin = u1
  p1 = p1
  p2 = p2
  Proc = {p1, p2}
  MaxTokens = 3
  MaxTime = 2
  MaxStarts = 0
  RefreshTTL = 1
  AccessTTL = 1

SPECIFICATION Spec
INVARIANTS
  TypeOK
  SingleLiveToken
  LockedTokenStaysLive
  LinearRotation
PROPERTY ImplementsSessions
SYMMETRY Symmetry
CHECK_DEADLOCK FALSE
