SPECIFICATION Spec
CONSTANTS
  NumFiles = 2
  Size = 2
  MaxLaunches = 2
INVARIANT
  TypeOK
  VerdictsAreTrue
PROPERTY
  NeverRestarted
  ReportKeepsLines
  LaunchEnds
CHECK_DEADLOCK FALSE
