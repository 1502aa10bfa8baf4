CONSTANTS
  u1 = u1
  User = {u1}
  NoUser = NoUser
  Admin = u1
  p1 = p1
  p2 = p2
  Proc = {p1, p2}
  MaxTokens = 2
  MaxTime = 1
  MaxStarts = 1
  RefreshTTL = 1
  AccessTTL = 1

SPECIFICATION FairSpec
PROPERTIES
  RequestsEnd
  AccessRevocation
CHECK_DEADLOCK FALSE
