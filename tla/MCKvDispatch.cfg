SPECIFICATION Spec
CONSTANTS
  w1 = w1
  NReqs = 2
  Workers = {w1}
  Conns = {c1, c2}
  WorkerOf <- OneWorker
  ReadAhead = 1
SYMMETRY ConnSymmetry
INVARIANTS
  RequestsSound
  NobodyForgotten
