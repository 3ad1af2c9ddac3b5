SPECIFICATION FairSpec
CONSTANTS
  Callers = {c1, c2, c3}
  Worker = Worker
  Closer = Closer
  NoThread = NoThread
  MaxQueueDepth = 2
INVARIANT
  TypeOK
  JobConservation
  NoLostWakeup
  FrontIsDefined
PROPERTY
  ImplementsSingleFlight
  AcceptedIsAnswered
  ShutdownReturnsWhenQuiet
