SPECIFICATION FairFetchSpec
CONSTANTS
  None = None
  NoAnswer = NoAnswer
  Thread = {t1, t2}
  N = 3
  Threshold = 2
  Duration = 1
  Operation <- Used
  Domain <- MCDomain
  Home <- MCHome
  Answers <- BrokenMixedAndHealthy
INVARIANTS
  HealthyProxyIsNeverBanned
PROPERTIES
  QuarantineEnds
  RouteIsSticky
  BrokenProxyIsQuarantined
  EveryFetchReturns
