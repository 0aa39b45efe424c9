SPECIFICATION LiveSpec
CONSTANTS
  w1 = w1
  w2 = w2
  c1 = c1
  c2 = c2
  NRows = 2
  Workers = {w1, w2}
  Conns = {c1, c2}
  WorkerOf <- TwoWorkers
  ClaimBatch = 1
  ReadAhead = 1
  Batch = 2
  Depth = 2
  MaxAttempts = 1
  Unsendable = {2}
  BackfillCap = 1
INVARIANTS
  RowsSound
PROPERTIES
  RowsConserved
  ReplayFinishes
