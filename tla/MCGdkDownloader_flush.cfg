SPECIFICATION Spec
CONSTANTS
  Sizes <- MCOneItem
  Absent = Absent
  PageSizes <- MCNoPages
  MaxStarts = 1
INVARIANT
  CheckedOkIsTrue
CHECK_DEADLOCK FALSE
