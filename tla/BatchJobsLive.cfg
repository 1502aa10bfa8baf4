CONSTANTS
  r1 = r1
  r2 = r2
  Run = {r1, r2}
  s1 = s1
  Start = {s1}
  NoRun = NoRun
  manual = manual
  NoOwner = NoOwner
  OwnerOf <- PageOwner
  i1 = i1
  Item = {i1}
  Seeded = {i1}
  LockTTL = 2
  ProfileTTL = 0
  SeedTTL = 1
  MaxStart = 0
  MaxTime = 2

SPECIFICATION FairSpec
INVARIANTS
  TypeOK
  OneProfilePerItem
PROPERTIES
  MetricsMoveForward
  LockRecovers
CHECK_DEADLOCK FALSE
