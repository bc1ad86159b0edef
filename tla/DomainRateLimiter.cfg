SPECIFICATION FairSpec
CONSTANTS
  fast = fast
  slow = slow
  None = None
  Task = {t1, t2}
  Domain = {slow}
  Limiter = {l1, l2, l3}
  Second = 2
  DefaultRps = 2
  PerDomain <- SlowOverride
  DefaultBurst = 0
  AllowReset = TRUE
INVARIANTS
  OvershootIsBounded
  SharedBucket
  LimiterInv
PROPERTIES
  WaitersAreServed
