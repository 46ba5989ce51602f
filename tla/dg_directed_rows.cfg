SPECIFICATION Spec
CONSTANTS
  MaxVertices = 3
  Directed = TRUE
  UpdateArcs <- FanArcs
  BulkInputs <- FanLoads
  VersionModulus = 2
  WorkBudget = 8
  Thresholds <- DefaultThreshold
  AutoMinDelta = 65536
  AutoThreshold <- Half
INVARIANT ViewsAgree
