SPECIFICATION LiveSpec
CONSTANTS
  Conns = {c1, c2, c3}
  Batch = 2
  Depth = 3
  SUB = 2
  Burst = 3
  Stagger = 1
  MaxMint = 6
INVARIANTS
  NoLostWakeup
  OfferedWithinRate
  UnfundedOnlyAtStop
PROPERTIES
  StopEndsWorker
