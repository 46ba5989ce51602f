SPECIFICATION Spec
CONSTANTS
  k1 = k1
  k2 = k2
  k3 = k3
  w1 = w1
  w2 = w2
  c1 = c1
  c2 = c2
  Keys = {k1, k2, k3}
  Hash <- Colliding
  ZeroKey = k1
  TableSizes = {2, 4, 8}
  Generations = 4
  MaxExpected = 3
  Cooldown = 3
  Samples = 2
  Signals <- ThreeSignals
  MaxEpoch = 8
  MaxVertices = 3
  MaxTime = 2
  StampedBatches <- OneOrTwo
  MaxBatches = 2
  Partitions = {0, 1, 2}
  Sizes = {0, 1, 2, 4}
  Capacity = 3
  Paths = {k1}
  Ids = {0, 1, 4}
  CacheIds = 4
  Threads = {w1, w2}
  Callers = {c1, c2}
  Destroyer = c1
  MaxTasks = 3
  WordBits = 4
  GroupBits = 3
  UnitBits = 1
  BlockSizes = {1, 2, 3}
  Lanes = 2
  MaxLength = 3
  RowIds = {0, 1, 2, 4, 7, 9}
  BitmapBits = 3
  LanesOf <- Registers
  Limits <- SmallLimits
  InputEdges <- EightEdges
  Topologies <- FewTopologies
  PoolSizes = {1, 2, 3, 4}
  MaxRanged = 5
INVARIANTS
  KeySetSound
  RequestsJustified
  HistoryReplays
  CacheSound
  LoadedWhole
  NobodyForgotten
  ReturnsAfterWork
  CodecsSound
  KernelsAgree
  StaticExact
  PlacementSound
CHECK_DEADLOCK FALSE
