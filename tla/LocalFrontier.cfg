SPECIFICATION FairSpec
CONSTANTS
  NoTask = NoTask
  Task = {t1, t2}
  Url <- MCUrl
  Bit <- MCBit
  Hash <- CollidingHash
  StripFragment <- MCStripFragment
  Job <- MCJob
  Mode = "depth"
  MaxSize = 2
INVARIANTS
  QueuedAtMostOnce
  WithinCapacity
  NoOvertaking
  NoSilentLoss
  TotalPushedCountsEntries
  IInv
PROPERTIES
  ImplementsScheduler
  EveryCallReturns
