SPECIFICATION FairFetchSpec
CONSTANTS
  None = None
  NoAnswer = NoAnswer
  Thread = {t1}
  N = 2
  Threshold = 1
  Duration = 1
  Operation <- Used
  Domain <- MCDomain
  Home <- MCHome
  Answers <- GoodAndDead
PROPERTIES
  DeadProxyIsQuarantined
