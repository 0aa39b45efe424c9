SPECIFICATION PartsSpec
CONSTANTS
  MaxEdits = 2
  PoolBytes = 4
  MaxTheta = 2
  SeedCount = 2
  Nodes = {n1, n2}
  SlotCount = 2
  MaxRanges = 3
  Deadline = 4
  ReadTicks = 2
  MaxChunks = 2
  MaxNodes = 3
  MaxConns = 6
  MaxThreads = 2
  Headroom = 2
  PoolDefault = 2
  RatesOf = {1, 9}
  ClaimsOf = {1, 2}
  SubUnits = 4
  Ticks = 2
  MaxTicks = 3
  MaxDepth = 4
  MaxLingering = 5
  MaxTotal = 2
  ValueLens = {1, 6}
  ZcThreshold = 5
  GuardsPerSend = 2
  SlotBytes = 4
  RecordBytes = 3
  Framing = 1
  Slack = 1
  PoolFloor = 4
  SlabFloor = 2
  SlotMax = 20
  Timeouts = {0, 2, 3}
  Depth = 3
  Lag = 1
  MaxTime = 6
  Off = Off
  WorkerIds = {0}
  Unset = 2
  NumShards = 2
  MaxAdds = 2
  MaxReads = 1
  Rows = 2
  StaleIds = {2}
  Tests = 1
  TruthDepth = 1
  ClientCount = 2
  MaxLoops = 2
  Byte = {0, 1}
  InitialCapacity = 4
  MaxCapacity = 8
  Buffers = {b1, b2}
  Transfers = {t1, t2}
  MaxDrives = 3
  DmaConns = {c1, c2}
  DmaKeys = {k1}
  MaxTransfers = 2
  MaxSnapshots = 2
INVARIANTS
  AcceptedRuns
  DiscoverySound
  PlacementSound
  LimitsSound
  CapacitySound
  NoEarlyTimeout
  RecvBounded
  CountersSound
  SearchSound
  DmaSound
  RecordingKept
PROPERTIES
  ActivePolled
  ShutdownUnlessMissed
  BufferIsQueue
CHECK_DEADLOCK FALSE
