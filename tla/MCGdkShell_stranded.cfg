SPECIFICATION Spec
CONSTANTS
  Server = Server
  Worker = Worker
  Main = Main
  NoThread = NoThread
  MaxQueueDepth = 4
INVARIANT
  NoRequestStranded
CHECK_DEADLOCK FALSE
