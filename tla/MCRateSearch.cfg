SPECIFICATION LiveSpec
CONSTANTS
  StartRate = 1
  MaxRate = 150
  MulNum = 3
  MulDen = 2
  TolNum = 1
  TolDen = 10
  MaxBisect = 6
  Confirm = 2
  FloorNum = 1
  FloorDen = 10
  Latencies = {0, 95, 100, 150, 200}
INVARIANTS
  KneeIsBest
  KneeAccurate
PROPERTIES
  SearchEnds
CHECK_DEADLOCK FALSE
