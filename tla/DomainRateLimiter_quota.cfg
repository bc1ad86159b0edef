SPECIFICATION Spec
CONSTANTS
  fast = fast
  slow = slow
  None = None
  Task = {t1, t2}
  Domain = {fast}
  Limiter = {l1, l2, l3}
  Second = 2
  DefaultRps = 2
  PerDomain <- NoOverride
  DefaultBurst = 2
  AllowReset = FALSE
INVARIANTS
  WithinQuota
