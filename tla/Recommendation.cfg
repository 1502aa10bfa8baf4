CONSTANTS
  origin = origin
  roast = roast
  MaxTarget = 3
  Attribute <- MCAttribute
  Attrs <- MCAttrs
  MaxScore = 1
  MaxInterest = 1
  Limit = 1
  MaxOffset = 2
  MaxFetch = 2
  InterestLimit = 1
  RecentLimit = 1
  MaxChanges = 1
SPECIFICATION Spec
INVARIANTS
  TypeOK
  NothingUnwanted
  PagesSkipNothing
  SurplusSuffices
  BetterIsNotLeftOut
CHECK_DEADLOCK FALSE
