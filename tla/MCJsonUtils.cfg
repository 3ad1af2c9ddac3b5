SPECIFICATION Spec
CONSTANTS
  Symbols <- MCSymbols
  Members <- MCMembers
  MaxMembers = 3
  IntMax = 127
  Unset = Unset
  DefaultTokens = 16
INVARIANTS
  FieldsAreRead
  MessagesAreRead
  TruncationInventsNothing
  ConfigIsRead
  SectionsAreRead
CHECK_DEADLOCK FALSE
