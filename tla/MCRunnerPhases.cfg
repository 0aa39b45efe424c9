SPECIFICATION LiveSpec
CONSTANTS
  NumThreads = 2
  Conns <- TwoConns
  WorkerOf <- SameWorker
  Modes = {"plain", "prefill", "replay"}
  Requests = 3
  ReadAhead = 1
  MayFail = {1, 2}
  MaySignal = TRUE
  None = None
INVARIANTS
  GatesHold
  TotalsSound
PROPERTIES
  RunEnds
CHECK_DEADLOCK FALSE
