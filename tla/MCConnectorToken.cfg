SPECIFICATION FairSpec
CONSTANTS
  Tokens = {t1}
  Requests = {r1, r2}
  Signals = {s1, s2}
  Free = Free
  NoWindow = NoWindow
  Limit = 2
  Hour = 2
  OnlineHours = 1
  StaleHours = 2
INVARIANTS
  SlidingLimit
  TotalsAgree
  StatusAddsUp
PROPERTIES
  RevocationHolds
  GetsThrough
