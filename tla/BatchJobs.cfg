CONSTANTS
  r1 = r1
  r2 = r2
  r3 = r3
  Run = {r1, r2, r3}
  Start = {}
  NoRun = NoRun
  manual = manual
  NoOwner = NoOwner
  OwnerOf <- PageOwner
  i1 = i1
  Item = {i1}
  Seeded = {}
  LockTTL = 2
  ProfileTTL = 2
  SeedTTL = 1
  MaxStart = 2
  MaxTime = 2
SPECIFICATION Spec
INVARIANTS
  LeaseExclusive
  MetricsOfFinishedRun
SYMMETRY Symmetry
CHECK_DEADLOCK FALSE
