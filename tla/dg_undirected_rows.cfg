SPECIFICATION Spec
CONSTANTS
  MaxVertices = 3
  Directed = FALSE
  UpdateArcs <- StarArcs
  BulkInputs <- StarLoads
  VersionModulus = 2
  WorkBudget = 8
  Thresholds <- BothThresholds
  AutoMinDelta = 3
  AutoThreshold <- Quarter
INVARIANT UndirectedSymmetric
