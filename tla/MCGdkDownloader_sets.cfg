SPECIFICATION FairSpec
CONSTANTS
  Sizes <- MCSizes
  Absent = Absent
  PageSizes <- MCPageSizes
  MaxStarts = 2
INVARIANT
  TypeOK
  DestIntact
  OkMeansComplete
  DoneExactlyOnce
  ProgressInRange
PROPERTY
  ProgressIsMonotone
  EverythingReturns
CHECK_DEADLOCK FALSE
