SPECIFICATION LiveSpec
CONSTANTS
  w1 = w1
  NReqs = 1
  Workers = {w1}
  Conns = {c1, c2}
  WorkerOf <- OneWorker
  ReadAhead = 1
PROPERTIES
  ClaimedFinishes
