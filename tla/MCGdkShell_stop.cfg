SPECIFICATION FairSpec
CONSTANTS
  Server = Server
  Worker = Worker
  Main = Main
  NoThread = NoThread
  MaxQueueDepth = 4
INVARIANT
  TypeOK
  TeardownIsSafe
  TokensGoToALiveHandler
PROPERTY
  StopIsOrderly
CHECK_DEADLOCK FALSE
