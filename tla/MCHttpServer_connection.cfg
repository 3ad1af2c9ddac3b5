SPECIFICATION FairSpec
CONSTANTS
  Symbols <- MCSymbols
  Requests <- MCRequests
  MaxLine = 8
  MaxTokens = 3
INVARIANT
  TypeOK
  RequestIsRead
  OneResponse
  StreamIsFaithful
  StayingClientIsAnswered
PROPERTY
  ImplementsConnection
  ConnectionEnds
CHECK_DEADLOCK FALSE
