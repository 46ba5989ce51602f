SPECIFICATION Spec
CONSTANTS
  MaxVertices = 5
  Source = 1
  Fallback <- Fraction
  InitialCounts = {1}
  Pairs <- Diamond
  Batches <- Short
  Unreachable = 9
INVARIANTS
  ExactAtRest
