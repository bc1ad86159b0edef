SPECIFICATION FairSpec
CONSTANTS
  a = a
  b = b
  c = c
  None = None
  Thread = {t1, t2, t3}
  Url = {a, b, c}
  Bit = {1, 2, 3}
  Hash <- MCHash
  MaxCalls = 1
INVARIANTS
  ExactlyOneAcceptance
  NoFalseNegative
  CountMatchesAcceptances
  IInv
PROPERTIES
  ImplementsContract
  EveryCallReturns
