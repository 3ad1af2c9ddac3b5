SPECIFICATION FairSpec
CONSTANTS
  Server = Server
  Worker = Worker
  Main = Main
  NoThread = NoThread
  MaxQueueDepth = 4
PROPERTY
  ListenerStopHonoured
CHECK_DEADLOCK FALSE
