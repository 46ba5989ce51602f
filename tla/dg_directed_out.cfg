SPECIFICATION Spec
CONSTANTS
  MaxVertices = 3
  Directed = TRUE
  UpdateArcs <- FanArcs
  BulkInputs <- FanLoads
  VersionModulus = 2
  WorkBudget = 8
  Thresholds <- BothThresholds
  AutoMinDelta = 3
  AutoThreshold <- Quarter
INVARIANTS
  OverlayCanonical
  EdgeCountExact
  DirtyCoversOverlay
PROPERTIES
  ImplementsOut
