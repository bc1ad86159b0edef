SPECIFICATION Spec
CONSTANTS
  None = None
  NoAnswer = NoAnswer
  Thread = {t1, t2}
  N = 2
  Threshold = 2
  Duration = 1
  Operation <- Everything
SYMMETRY Symmetry
INVARIANTS
  TypeOK
  QuarantineIsDated
  FailuresAreConsecutive
  OverThresholdIsHandled
PROPERTIES
  NoneMeansNoneSteady
  BannedAreNotServed
