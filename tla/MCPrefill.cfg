SPECIFICATION LiveSpec
CONSTANTS
  n1 = n1
  n2 = n2
  n3 = n3
  c1 = c1
  c2 = c2
  c3 = c3
  w1 = w1
  w2 = w2
  k1 = k1
  k2 = k2
  k3 = k3
  Keys = {k1, k2, k3}
  Nodes = {n1, n2, n3}
  Endpoints = {n1, n2}
  Recognised = {n1, n2}
  Workers = {w1, w2}
  Conns = {c1, c2, c3}
  WorkerOf <- MixedWorkerOf
  EndpointOf <- MixedEndpointOf
  Home <- ThreeKeysHome
  Depth = 2
  Batch = 1
  Paced = TRUE
  MayStop = TRUE
  MaxMoves = 1
  MaxFaults = 1
INVARIANTS
  PrefillSound
PROPERTIES
  PrefillEnds
CHECK_DEADLOCK FALSE
