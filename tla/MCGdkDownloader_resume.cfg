SPECIFICATION Spec
CONSTANTS
  Sizes <- MCOneItem
  Absent = Absent
  PageSizes <- MCNoPages
  MaxStarts = 2
INVARIANT
  AcceptedIsIntact
CHECK_DEADLOCK FALSE
