SPECIFICATION AppendsSpec
CONSTANTS
  n1 = n1
  n2 = n2
  c1 = c1
  c2 = c2
  c3 = c3
  w1 = w1
  w2 = w2
  Body = 2
  BatchSize = 2
  Batches = 2
  Generations = 1
  AppendCluster = {n1, n2}
  AppendNodes = {n1, n2}
  AppendRecognised = {n1}
  AppendWorkers = {w1, w2}
  Writers = {c1, c2, c3}
  WriterWorker <- MCWorkerOf
  WriterEndpoint <- MCEndpointOf
  IdHome <- MCHome
  AppendDepth = 2
  Spread = TRUE
  AppendMoves = 1
  AppendFaults = 1
INVARIANTS
  AppendsSound
PROPERTIES
  BatchCommits
CHECK_DEADLOCK FALSE
