SPECIFICATION LiveSpec
CONSTANTS
  n1 = n1
  n2 = n2
  c1 = c1
  c2 = c2
  c3 = c3
  Nodes = {n1, n2}
  Conns = {c1, c2, c3}
  NodeOf <- TwoNodes
  Depth = 2
  Batch = 1
  QueuePipelines = 1
  WaiterSlack = 1
  MaxMint = 3
  MaxFaults = 1
INVARIANTS
  WaitersExact
  NoStrandedRequest
PROPERTIES
  StopEndsTasks
CHECK_DEADLOCK FALSE
