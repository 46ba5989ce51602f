SPECIFICATION Spec
CONSTANTS
  MaxVertices = 5
  Source = 0
  Fallback <- Fraction
  InitialCounts = {1}
  Pairs <- Diamond
  Batches <- Short
  Unreachable = 9
INVARIANTS
  ExactAtRest
  ReachedCounted
  SurvivorsSupported
  NeverTooSmall
  WorkspaceClean
PROPERTIES
  Returns
