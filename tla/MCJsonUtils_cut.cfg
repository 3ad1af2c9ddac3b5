SPECIFICATION Spec
CONSTANTS
  Symbols <- MCSymbols
  Members <- MCMembers
  MaxMembers = 3
  IntMax = 127
  Unset = Unset
  DefaultTokens = 16
INVARIANT CutBodyIsRefused
CHECK_DEADLOCK FALSE
