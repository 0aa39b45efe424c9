SPECIFICATION LiveSpec
CONSTANTS
  NumThreads = 2
  Conns <- TwoConns
  WorkerOf <- EachWorker
  Modes = {"plain"}
  Requests = 0
  ReadAhead = 1
  MayFail = {2}
  MaySignal = FALSE
  None = None
PROPERTIES
  PrecheckEnds
CHECK_DEADLOCK FALSE
