SPECIFICATION Spec
CONSTANTS
  Readers = {r1}
  Writers = {w1}
  Crews = {{r1}, {w1}}
  Keys = {k1, k2}
  AppendKeys = {a1, a2}
  Protocols = {"ascii", "binary", "ping"}
  Depth = 2
  Batch = 2
  BackfillCap = 1
  MaxSends = 2
  MaxFaults = 2
INVARIANTS
  RequestsAccounted
  TasksInStep
PROPERTIES
  StopEndsConns
CHECK_DEADLOCK FALSE
